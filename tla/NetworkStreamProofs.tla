------------------------ MODULE NetworkStreamProofs ------------------------
(***************************************************************************)
(* Proofs about NetworkStream: packet counts stay in step over any number  *)
(* of sessions and failed handshakes, elements and labels arrive in order  *)
(* and at their place, a used up window is opened again, and the first two *)
(* sessions leave no end connected to one that is not.  All of them assume *)
(* that no payload is longer than its header can say (ShortAssumption).    *)
(***************************************************************************)
EXTENDS ShortStream, TLAPS

Counts == 0..CountMod - 1
Flags == {"Syn", "Ack", "Fin", "Psh", "Flo"}
Kinds == {"none", "Buffer", "Label"}
Phases == {"off", "opening", "on", "closing"}

\* Payloads whose length the header can give
Short == {s \in Seq(Nat) : Len(s) < LengthMod}

Packet == [flags : SUBSET Flags, type : Kinds, index : Nat, payload : Seq(Nat),
           packetCount : Counts]
Endpoint == [state : States, lastSentPacketCount : Counts, nextRecvPacketCount : Counts,
             part : [type : Kinds, index : Nat, rest : Seq(Nat)],
             totalBytesRecv : Nat, totalBytesSent : Nat,
             lastFlowMsgRecv : Nat, lastFlowMsgSent : Nat]
Sending == [end : Endpoint, out : Seq(Packet)]

(***************************************************************************)
(* Packet counts                                                           *)
(***************************************************************************)

\* The count that follows one
Succ(count) == (count + 1) % CountMod

\* The packets have the counts that a receiver demands who has to receive c.
InTurn(c, packets) ==
    \A i \in 1..Len(packets) :
        \/ "Syn" \in packets[i].flags
        \/ packets[i].packetCount = IF i = 1 THEN c ELSE Succ(packets[i - 1].packetCount)

\* The count after c and the packets
After(c, packets) == IF packets = <<>> THEN c ELSE Succ(packets[Len(packets)].packetCount)

LEMMA SuccIsCount == \A n \in Nat : Succ(n) \in Counts
  BY SocketAssumption DEF Succ, Counts

LEMMA AppendTurn ==
    ASSUME NEW c, NEW packets \in Seq(Packet), NEW q \in Packet, InTurn(c, packets),
           "Syn" \in q.flags \/ q.packetCount = After(c, packets)
    PROVE  InTurn(c, Append(packets, q)) /\ After(c, Append(packets, q)) = Succ(q.packetCount)
<1> DEFINE longer == Append(packets, q)
<1>1. /\ Len(longer) = Len(packets) + 1 /\ longer # <<>> /\ longer[Len(packets) + 1] = q
      /\ \A i \in 1..Len(packets) : longer[i] = packets[i]
      /\ Len(packets) \in Nat
  OBVIOUS
<1> HIDE DEF longer
<1>2. After(c, longer) = Succ(q.packetCount)
  BY <1>1 DEF After
<1>3. ASSUME NEW i \in 1..Len(longer)
      PROVE  "Syn" \in longer[i].flags
                \/ longer[i].packetCount = IF i = 1 THEN c ELSE Succ(longer[i - 1].packetCount)
<2>1. CASE i \in 1..Len(packets)
<3>1. longer[i] = packets[i] /\ (i # 1 => longer[i - 1] = packets[i - 1])
  BY <1>1, <2>1
<3>2. QED BY <2>1, <3>1 DEF InTurn
<2>2. CASE i = Len(packets) + 1
<3>1. CASE packets = <<>>
  BY <1>1, <2>2, <3>1 DEF After
<3>2. CASE packets # <<>>
<4>1. i # 1 /\ longer[i - 1] = packets[Len(packets)]
  BY <1>1, <2>2, <3>2
<4>2. QED BY <1>1, <2>2, <3>2, <4>1 DEF After
<3>3. QED BY <3>1, <3>2
<2>3. QED BY <1>1, <2>1, <2>2
<1>4. QED BY <1>2, <1>3 DEF InTurn, longer

LEMMA ConcatTurn ==
    ASSUME NEW c, NEW packets \in Seq(Packet), NEW out \in Seq(Packet), NEW d,
           InTurn(c, packets), InTurn(d, out),
           \/ d = After(c, packets)
           \/ out # <<>> /\ "Syn" \in out[1].flags
    PROVE  InTurn(c, packets \o out) /\ After(c, packets \o out) = After(d, out)
<1> DEFINE longer == packets \o out
<1>1. /\ Len(longer) = Len(packets) + Len(out) /\ Len(packets) \in Nat /\ Len(out) \in Nat
      /\ \A i \in 1..Len(packets) : longer[i] = packets[i]
      /\ \A i \in 1..Len(out) : longer[Len(packets) + i] = out[i]
  OBVIOUS
<1>2. out = <<>> => longer = packets
  OBVIOUS
<1>3. out # <<>> => longer # <<>> /\ Len(out) \in 1..Len(out)
  OBVIOUS
<1> HIDE DEF longer
<1>4. After(c, longer) = After(d, out)
  BY <1>1, <1>2, <1>3 DEF After
<1>5. ASSUME NEW i \in 1..Len(longer)
      PROVE  "Syn" \in longer[i].flags
                \/ longer[i].packetCount = IF i = 1 THEN c ELSE Succ(longer[i - 1].packetCount)
<2>1. CASE i \in 1..Len(packets)
<3>1. longer[i] = packets[i] /\ (i # 1 => longer[i - 1] = packets[i - 1])
  BY <1>1, <2>1
<3>2. QED BY <2>1, <3>1 DEF InTurn
<2>2. CASE i = Len(packets) + 1
<3>1. longer[i] = out[1] /\ 1 \in 1..Len(out)
  BY <1>1, <2>2
<3>2. "Syn" \in out[1].flags \/ out[1].packetCount = d
  BY <3>1 DEF InTurn
<3>3. CASE packets = <<>>
  BY <2>2, <3>1, <3>2, <3>3 DEF After
<3>4. CASE packets # <<>>
<4>1. i # 1 /\ longer[i - 1] = packets[Len(packets)]
  BY <1>1, <2>2, <3>4
<4>2. QED BY <3>1, <3>2, <3>4, <4>1 DEF After
<3>5. QED BY <3>3, <3>4
<2>3. CASE i \in Len(packets) + 2..Len(longer)
<3> DEFINE j == i - Len(packets)
<3>1. j \in 2..Len(out) /\ i = Len(packets) + j
  BY <1>1, <2>3
<3>2. longer[i] = out[j] /\ longer[i - 1] = out[j - 1]
<4>1. j - 1 \in 1..Len(out) /\ i - 1 = Len(packets) + (j - 1)
  BY <1>1, <3>1
<4>2. QED BY <1>1, <3>1, <4>1
<3>3. QED BY <1>1, <2>3, <3>1, <3>2 DEF InTurn
<2>4. QED BY <1>1, <2>1, <2>2, <2>3
<1>6. QED BY <1>4, <1>5 DEF InTurn, longer

LEMMA TailTurn ==
    ASSUME NEW c, NEW packets \in Seq(Packet), packets # <<>>, InTurn(c, packets)
    PROVE  /\ "Syn" \in Head(packets).flags \/ Head(packets).packetCount = c
           /\ InTurn(Succ(Head(packets).packetCount), Tail(packets))
           /\ After(Succ(Head(packets).packetCount), Tail(packets)) = After(c, packets)
<1> DEFINE rest == Tail(packets)
<1>1. /\ Len(packets) \in Nat \ {0} /\ Len(rest) = Len(packets) - 1 /\ Head(packets) = packets[1]
      /\ \A i \in 1..Len(rest) : rest[i] = packets[i + 1]
      /\ rest \in Seq(Packet)
  OBVIOUS
<1> HIDE DEF rest
<1>2. "Syn" \in Head(packets).flags \/ Head(packets).packetCount = c
  BY <1>1 DEF InTurn
<1>3. After(Succ(Head(packets).packetCount), rest) = After(c, packets)
<2>1. CASE rest = <<>>
<3>1. Len(packets) = 1
  BY <1>1, <2>1
<3>2. QED BY <1>1, <2>1, <3>1 DEF After
<2>2. CASE rest # <<>>
<3>1. Len(rest) \in 1..Len(rest)
  BY <1>1, <2>2
<3>2. rest[Len(rest)] = packets[Len(packets)]
  BY <1>1, <3>1
<3>3. QED BY <2>2, <3>2 DEF After
<2>3. QED BY <2>1, <2>2
<1>4. ASSUME NEW i \in 1..Len(rest)
      PROVE  "Syn" \in rest[i].flags
                \/ rest[i].packetCount = IF i = 1 THEN Succ(Head(packets).packetCount)
                                         ELSE Succ(rest[i - 1].packetCount)
<2>1. i + 1 \in 1..Len(packets) /\ i + 1 # 1 /\ (i + 1) - 1 = i /\ rest[i] = packets[i + 1]
  BY <1>1
<2>2. "Syn" \in packets[i + 1].flags \/ packets[i + 1].packetCount = Succ(packets[i].packetCount)
  BY <2>1 DEF InTurn
<2>3. CASE i = 1
  BY <1>1, <2>1, <2>2, <2>3
<2>4. CASE i # 1
<3>1. i - 1 \in 1..Len(rest) /\ (i - 1) + 1 = i
  BY <2>4
<3>2. rest[i - 1] = packets[i]
  BY <1>1, <3>1
<3>3. QED BY <2>1, <2>2, <2>4, <3>2
<2>5. QED BY <2>3, <2>4
<1>5. QED BY <1>2, <1>3, <1>4 DEF InTurn, rest

(***************************************************************************)
(* The functions of an endpoint                                            *)
(***************************************************************************)

\* What an endpoint sends carries its counts.
Numbered(e, x) ==
    /\ InTurn(e.lastSentPacketCount, x.out)
    /\ x.end.lastSentPacketCount = After(e.lastSentPacketCount, x.out)

\* Packets without elements or labels
Bare(packets) == \A i \in 1..Len(packets) : packets[i].type = "none" /\ packets[i].payload = <<>>

\* A short payload is announced in full, and nothing goes astray.
LEMMA ShortIsWhole ==
    /\ <<>> \in Short
    /\ \A s \in Short : s \in Seq(Nat) /\ Len(s) < LengthMod /\ Announced(s) = s
<1>1. LengthMod \in Nat /\ 1 < LengthMod
  BY SocketAssumption, ShortAssumption
<1>2. <<>> \in Short
  BY <1>1 DEF Short
<1>3. ASSUME NEW s \in Short PROVE s \in Seq(Nat) /\ Len(s) < LengthMod /\ Announced(s) = s
<2>1. s \in Seq(Nat) /\ Len(s) \in Nat /\ Len(s) < LengthMod
  BY DEF Short
<2>2. Len(s) % LengthMod = Len(s)
  BY <1>1, <2>1
<2>3. SubSeq(s, 1, Len(s)) = s
  BY <2>1
<2>4. QED BY <2>1, <2>2, <2>3 DEF Announced
<1>4. QED BY <1>2, <1>3

LEMMA SendFacts ==
    ASSUME NEW x \in Sending, NEW flags \in SUBSET Flags, NEW type \in Kinds,
           NEW index \in Nat, NEW payload \in Short
    PROVE  LET y == Send(x, flags, type, index, payload)
               packet == [flags |-> flags, type |-> type, index |-> index, payload |-> payload,
                          packetCount |-> x.end.lastSentPacketCount]
           IN  /\ y \in Sending
               /\ packet \in Packet /\ y.out = Append(x.out, packet)
               /\ y.end.lastSentPacketCount = Succ(x.end.lastSentPacketCount)
               /\ y.end.state = x.end.state /\ y.end.part = x.end.part
               /\ y.end.nextRecvPacketCount = x.end.nextRecvPacketCount
               /\ y.end.totalBytesRecv = x.end.totalBytesRecv
<1> DEFINE packet == [flags |-> flags, type |-> type, index |-> index, payload |-> payload,
                      packetCount |-> x.end.lastSentPacketCount]
           e == [x.end EXCEPT !.lastSentPacketCount = (@ + 1) % CountMod,
                              !.totalBytesSent = @ + Size(packet)]
           y == Send(x, flags, type, index, payload)
<1>1. x.end \in Endpoint /\ x.out \in Seq(Packet)
  BY DEF Sending
<1>2. packet \in Packet
  BY <1>1, ShortIsWhole DEF Packet, Endpoint
<1>3. Size(packet) \in Nat
  BY ShortIsWhole, SocketAssumption DEF Size
<1>4. x.end.lastSentPacketCount \in Nat
  BY <1>1, SocketAssumption DEF Endpoint, Counts
<1>5. (x.end.lastSentPacketCount + 1) % CountMod \in Counts
  BY <1>4, SuccIsCount DEF Succ
<1>6. x.end.totalBytesSent + Size(packet) \in Nat
  BY <1>1, <1>3 DEF Endpoint
<1> HIDE DEF packet
<1>7. /\ e \in Endpoint /\ e.lastSentPacketCount = (x.end.lastSentPacketCount + 1) % CountMod
      /\ e.state = x.end.state /\ e.part = x.end.part
      /\ e.nextRecvPacketCount = x.end.nextRecvPacketCount
      /\ e.totalBytesRecv = x.end.totalBytesRecv
  BY <1>1, <1>5, <1>6 DEF Endpoint
<1> HIDE DEF e
<1>8. y = [end |-> e, out |-> Append(x.out, packet)]
<2>1. Announced(payload) = payload /\ Len(payload) < LengthMod
  BY ShortIsWhole
<2>2. Size(packet) = Header + Len(payload)
  BY DEF Size, packet
<2>3. QED BY <2>1, <2>2 DEF Send, e, packet
<1>9. Append(x.out, packet) \in Seq(Packet)
  BY <1>1, <1>2
<1> HIDE DEF y
<1>10. y.end = e /\ y.out = Append(x.out, packet) /\ y \in Sending
  BY <1>7, <1>8, <1>9 DEF Sending
<1>11. QED BY <1>2, <1>7, <1>10 DEF y, packet, Succ

\* The packets that x has sent, with a bare one that Send() adds.
LEMMA SendOn ==
    ASSUME NEW e, NEW x \in Sending, NEW flags \in SUBSET Flags, NEW index \in Nat,
           Numbered(e, x), Bare(x.out)
    PROVE  LET y == Send(x, flags, "none", index, <<>>)
           IN  /\ y \in Sending /\ Numbered(e, y) /\ Bare(y.out)
               /\ y.end.state = x.end.state /\ y.end.part = x.end.part
               /\ y.end.nextRecvPacketCount = x.end.nextRecvPacketCount
               /\ y.end.totalBytesRecv = x.end.totalBytesRecv
               /\ y.out # <<>>
               /\ y.out[1].flags = IF x.out = <<>> THEN flags ELSE x.out[1].flags
<1> DEFINE packet == [flags |-> flags, type |-> "none", index |-> index, payload |-> <<>>,
                      packetCount |-> x.end.lastSentPacketCount]
           y == Send(x, flags, "none", index, <<>>)
<1>1. /\ y \in Sending
      /\ packet \in Packet /\ y.out = Append(x.out, packet)
      /\ y.end.lastSentPacketCount = Succ(x.end.lastSentPacketCount)
      /\ y.end.state = x.end.state /\ y.end.part = x.end.part
      /\ y.end.nextRecvPacketCount = x.end.nextRecvPacketCount
      /\ y.end.totalBytesRecv = x.end.totalBytesRecv
<2>1. "none" \in Kinds /\ <<>> \in Short
  BY ShortIsWhole DEF Kinds
<2>2. QED BY <2>1, SendFacts
<1>2. /\ packet.flags = flags /\ packet.type = "none" /\ packet.payload = <<>>
      /\ packet.packetCount = x.end.lastSentPacketCount
  OBVIOUS
<1>3. x.out \in Seq(Packet)
  BY DEF Sending
<1> HIDE DEF packet, y
<1>4. /\ Len(y.out) = Len(x.out) + 1 /\ y.out[Len(x.out) + 1] = packet
      /\ \A i \in 1..Len(x.out) : y.out[i] = x.out[i]
      /\ Len(x.out) \in Nat /\ y.out # <<>> /\ (x.out = <<>> <=> Len(x.out) = 0)
  BY <1>1, <1>3
<1>5. Bare(y.out)
<2>1. ASSUME NEW i \in 1..Len(y.out) PROVE y.out[i].type = "none" /\ y.out[i].payload = <<>>
<3>1. i \in 1..Len(x.out) \/ i = Len(x.out) + 1
  BY <1>4
<3>2. QED BY <1>2, <1>4, <3>1 DEF Bare
<2>2. QED BY <2>1 DEF Bare
<1>6. Numbered(e, y)
  BY <1>1, <1>2, <1>3, AppendTurn DEF Numbered
<1>7. y.out[1].flags = IF x.out = <<>> THEN flags ELSE x.out[1].flags
  BY <1>2, <1>4
<1>8. QED BY <1>1, <1>4, <1>5, <1>6, <1>7 DEF y

\* The state machine stays in its phase, and answers the SYN of a LISTEN with one.
LEMMA TransitionFacts ==
    ASSUME NEW state \in States, NEW flags \in SUBSET Flags
    PROVE  LET to == Transition(state, flags)
           IN  /\ to = <<to[1], to[2]>> /\ to[1] \in SUBSET Flags /\ to[2] \in States
               /\ state \in {"ESTABLISHED", "CLOSE_WAIT"} => to[2] \in {"ESTABLISHED", "CLOSE_WAIT"}
               /\ state \in {"LISTEN", "SYN_SENT", "SYN_RECEIVED"} =>
                    to[2] \in {"LISTEN", "SYN_SENT", "SYN_RECEIVED", "ESTABLISHED"}
               /\ state \in {"FIN_WAIT_1", "FIN_WAIT_2", "CLOSING", "LAST_ACK", "TIME_WAIT", "CLOSED"} =>
                    to[2] \in {"FIN_WAIT_1", "FIN_WAIT_2", "CLOSING", "LAST_ACK", "TIME_WAIT", "CLOSED"}
               /\ to[2] = "LISTEN" => state = "LISTEN" /\ "Syn" \notin flags
               /\ state = "LISTEN" /\ "Syn" \in flags => "Syn" \in to[1]
<1>1. CASE state = "LISTEN"
  BY <1>1 DEF Transition, States, Flags
<1>2. CASE state = "SYN_SENT"
  BY <1>2 DEF Transition, States, Flags
<1>3. CASE state = "SYN_RECEIVED"
  BY <1>3 DEF Transition, States, Flags
<1>4. CASE state = "ESTABLISHED"
  BY <1>4 DEF Transition, States, Flags
<1>5. CASE state = "FIN_WAIT_1"
  BY <1>5 DEF Transition, States, Flags
<1>6. CASE state = "FIN_WAIT_2"
  BY <1>6 DEF Transition, States, Flags
<1>7. CASE state = "CLOSING"
  BY <1>7 DEF Transition, States, Flags
<1>8. CASE state = "LAST_ACK"
  BY <1>8 DEF Transition, States, Flags
<1>9. CASE state \in {"CLOSE_WAIT", "TIME_WAIT", "CLOSED"}
  BY <1>9 DEF Transition, States, Flags
<1>10. QED BY <1>1, <1>2, <1>3, <1>4, <1>5, <1>6, <1>7, <1>8, <1>9 DEF States

LEMMA StateFacts ==
    ASSUME NEW x \in Sending, x.out = <<>>, NEW flags \in SUBSET Flags
    PROVE  LET y == handleState(x, flags)
           IN  /\ y \in Sending /\ Numbered(x.end, y) /\ Bare(y.out)
               /\ y.end.state = Transition(x.end.state, flags)[2]
               /\ y.end.part = x.end.part
               /\ y.end.nextRecvPacketCount = x.end.nextRecvPacketCount
               /\ y.end.totalBytesRecv = x.end.totalBytesRecv
               /\ x.end.state = "LISTEN" /\ "Syn" \in flags =>
                     y.out # <<>> /\ "Syn" \in y.out[1].flags
<1> DEFINE to == Transition(x.end.state, flags)
           sent == IF to[1] = {} THEN x ELSE SendFlags(x, to[1])
           y == handleState(x, flags)
<1>1. x.end \in Endpoint /\ x.end.state \in States /\ x.out \in Seq(Packet)
  BY DEF Sending, Endpoint
<1>2. /\ to[1] \in SUBSET Flags /\ to[2] \in States
      /\ x.end.state = "LISTEN" /\ "Syn" \in flags => "Syn" \in to[1]
  BY <1>1, TransitionFacts
<1>3. Numbered(x.end, x) /\ Bare(x.out)
  BY DEF Numbered, Bare, InTurn, After
<1> HIDE DEF to
<1>4. /\ sent \in Sending /\ Numbered(x.end, sent) /\ Bare(sent.out)
      /\ sent.end.part = x.end.part
      /\ sent.end.nextRecvPacketCount = x.end.nextRecvPacketCount
      /\ sent.end.totalBytesRecv = x.end.totalBytesRecv
      /\ to[1] # {} => sent.out # <<>> /\ sent.out[1].flags = to[1]
<2>1. CASE to[1] = {}
  BY <1>3, <2>1
<2>2. CASE to[1] # {}
<3>1. sent = Send(x, to[1], "none", 0, <<>>)
  BY <2>2 DEF SendFlags
<3>2. QED BY <1>2, <1>3, <3>1, SendOn
<2>3. QED BY <2>1, <2>2
<1>5. y = [sent EXCEPT !.end.state = to[2]]
  BY DEF handleState, to
<1> HIDE DEF sent, y
<1>6. y.end = [sent.end EXCEPT !.state = to[2]] /\ y.out = sent.out /\ y = [end |-> y.end, out |-> y.out]
  BY <1>4, <1>5 DEF Sending
<1>7. /\ y.end \in Endpoint /\ y.end.state = to[2]
      /\ y.end.part = sent.end.part /\ y.end.nextRecvPacketCount = sent.end.nextRecvPacketCount
      /\ y.end.totalBytesRecv = sent.end.totalBytesRecv
      /\ y.end.lastSentPacketCount = sent.end.lastSentPacketCount
  BY <1>2, <1>4, <1>6 DEF Sending, Endpoint
<1>8. y \in Sending /\ Numbered(x.end, y) /\ Bare(y.out)
  BY <1>4, <1>6, <1>7 DEF Sending, Numbered
<1>9. QED BY <1>2, <1>4, <1>6, <1>7, <1>8 DEF y, to

LEMMA FlowFacts ==
    ASSUME NEW e, NEW x \in Sending, Numbered(e, x), Bare(x.out)
    PROVE  LET y == flowControl(x)
           IN  /\ y \in Sending /\ Numbered(e, y) /\ Bare(y.out)
               /\ y.end.state = x.end.state /\ y.end.part = x.end.part
               /\ y.end.nextRecvPacketCount = x.end.nextRecvPacketCount
               /\ x.out # <<>> => y.out # <<>> /\ y.out[1].flags = x.out[1].flags
<1> DEFINE sent == Send(x, {"Flo"}, "none", Report(x.end), <<>>)
           y == flowControl(x)
<1>1. x.end \in Endpoint
  BY DEF Sending
<1>2. CASE x.end.totalBytesRecv <= x.end.lastFlowMsgSent + FlowStep
  BY <1>2 DEF flowControl
<1>3. CASE ~(x.end.totalBytesRecv <= x.end.lastFlowMsgSent + FlowStep)
<2>1. Report(x.end) \in Nat /\ x.end.totalBytesRecv \in Nat
  BY <1>1 DEF Report, Endpoint
<2>2. {"Flo"} \in SUBSET Flags
  BY DEF Flags
<2>3. /\ sent \in Sending /\ Numbered(e, sent) /\ Bare(sent.out)
      /\ sent.end.state = x.end.state /\ sent.end.part = x.end.part
      /\ sent.end.nextRecvPacketCount = x.end.nextRecvPacketCount
      /\ sent.out # <<>>
      /\ sent.out[1].flags = IF x.out = <<>> THEN {"Flo"} ELSE x.out[1].flags
  BY <2>1, <2>2, SendOn
<2>4. y = [sent EXCEPT !.end.lastFlowMsgSent = x.end.totalBytesRecv]
  BY <1>3 DEF flowControl
<2> HIDE DEF sent, y
<2>5. y.end = [sent.end EXCEPT !.lastFlowMsgSent = x.end.totalBytesRecv] /\ y.out = sent.out
      /\ y = [end |-> y.end, out |-> y.out]
  BY <2>3, <2>4 DEF Sending
<2>6. /\ y.end \in Endpoint /\ y.end.state = sent.end.state
      /\ y.end.part = sent.end.part /\ y.end.nextRecvPacketCount = sent.end.nextRecvPacketCount
      /\ y.end.lastSentPacketCount = sent.end.lastSentPacketCount
  BY <2>1, <2>3, <2>5 DEF Sending, Endpoint
<2>7. y \in Sending /\ Numbered(e, y) /\ Bare(y.out)
  BY <2>3, <2>5, <2>6 DEF Sending, Numbered
<2>8. QED BY <2>3, <2>5, <2>6, <2>7 DEF y
<1>4. QED BY <1>2, <1>3

\* The header of the next packet
LEMMA HeaderFacts ==
    ASSUME NEW e \in Endpoint, NEW packet \in Packet
    PROVE  LET y == unpackHeader(e, packet)
           IN  /\ y \in Sending /\ Numbered(e, y) /\ Bare(y.out)
               /\ y.end.state = Transition(e.state, packet.flags)[2]
               /\ y.end.part = [type |-> packet.type, index |-> packet.index, rest |-> packet.payload]
               /\ y.end.nextRecvPacketCount = Succ(Expected(e, packet))
               /\ e.state = "LISTEN" /\ "Syn" \in packet.flags =>
                     y.out # <<>> /\ "Syn" \in y.out[1].flags
<1> DEFINE part == [type |-> packet.type, index |-> packet.index, rest |-> packet.payload]
           next == (Expected(e, packet) + 1) % CountMod
           read == [e EXCEPT !.nextRecvPacketCount = next, !.part = part, !.totalBytesRecv = @ + Header]
<1>1. packet.flags \in SUBSET Flags /\ part \in [type : Kinds, index : Nat, rest : Seq(Nat)]
  BY DEF Packet
<1>2. Expected(e, packet) \in Nat
  BY SocketAssumption DEF Expected, Endpoint, Packet, Counts
<1>3. next \in Counts
  BY <1>2, SuccIsCount DEF Succ
<1>4. e.totalBytesRecv + Header \in Nat
  BY SocketAssumption DEF Endpoint
<1> HIDE DEF part, next
<1>5. /\ read \in Endpoint /\ read.state = e.state /\ read.part = part
      /\ read.nextRecvPacketCount = next
      /\ read.lastSentPacketCount = e.lastSentPacketCount
  BY <1>1, <1>3, <1>4 DEF Endpoint
<1>6. unpackHeader(e, packet) = handleState(Quiet(read), packet.flags)
  BY DEF unpackHeader, part, next
<1> HIDE DEF read
<1>7. Quiet(read) \in Sending /\ Quiet(read).out = <<>> /\ Quiet(read).end = read
  BY <1>5 DEF Quiet, Sending
<1> DEFINE y == handleState(Quiet(read), packet.flags)
<1>8. /\ y \in Sending /\ Numbered(read, y) /\ Bare(y.out)
      /\ y.end.state = Transition(read.state, packet.flags)[2]
      /\ y.end.part = read.part
      /\ y.end.nextRecvPacketCount = read.nextRecvPacketCount
      /\ read.state = "LISTEN" /\ "Syn" \in packet.flags =>
            y.out # <<>> /\ "Syn" \in y.out[1].flags
  BY <1>1, <1>7, StateFacts
<1> HIDE DEF y
<1>9. Numbered(e, y)
  BY <1>5, <1>8 DEF Numbered
<1>10. y = unpackHeader(e, packet)
  BY <1>6 DEF y
<1>11. next = Succ(Expected(e, packet))
  BY DEF next, Succ
<1>12. QED BY <1>5, <1>8, <1>9, <1>10, <1>11 DEF part

\* The packet that recv() reads from
Packaged(e, packets) ==
    IF e.part.rest = <<>>
      THEN [type |-> Head(packets).type, index |-> Head(packets).index, rest |-> Head(packets).payload]
      ELSE e.part

LEMMA ReceiveFacts ==
    ASSUME NEW e \in Endpoint, NEW packets \in Seq(Packet), NEW room \in Nat,
           packets # <<>> \/ e.part.rest # <<>>
    PROVE  LET x == recv(e, packets, room)
               part == Packaged(e, packets)
               isNew == e.part.rest = <<>>
           IN  /\ x.end \in Endpoint /\ x.out \in Seq(Packet) /\ Numbered(e, x) /\ Bare(x.out)
               /\ x.packets = IF isNew THEN Tail(packets) ELSE packets
               /\ x.end.state = IF isNew THEN Transition(e.state, Head(packets).flags)[2] ELSE e.state
               /\ x.end.nextRecvPacketCount =
                     IF isNew THEN Succ(Expected(e, Head(packets))) ELSE e.nextRecvPacketCount
               /\ isNew /\ e.state = "LISTEN" /\ "Syn" \in Head(packets).flags =>
                     x.out # <<>> /\ "Syn" \in x.out[1].flags
               /\ x.type = part.type /\ x.index = part.index
               /\ x.length \in 0..Len(part.rest) /\ (part.type # "Buffer" => x.length = Len(part.rest))
               /\ part.type = "Buffer" /\ room > 0 /\ part.rest # <<>> => x.length > 0
               /\ x.data = SubSeq(part.rest, 1, x.length)
               /\ x.end.part = [type |-> part.type, index |-> part.index,
                                rest |-> SubSeq(part.rest, x.length + 1, Len(part.rest))]
<1> DEFINE isNew == e.part.rest = <<>>
           x == IF isNew THEN unpackHeader(e, Head(packets)) ELSE Quiet(e)
           part == x.end.part
           taken0 == IF part.type = "Buffer" THEN Min({room, Len(part.rest)}) ELSE Len(part.rest)
           y == [x EXCEPT !.end.part.rest = Left(part, taken0), !.end.totalBytesRecv = @ + taken0]
           z == IF isNew /\ "Flo" \in Head(packets).flags
                  THEN [y EXCEPT !.end.lastFlowMsgRecv = part.index] ELSE y
           done == flowControl(z)
<1>1. /\ x \in Sending /\ Numbered(e, x) /\ Bare(x.out)
      /\ x.end.state = IF isNew THEN Transition(e.state, Head(packets).flags)[2] ELSE e.state
      /\ x.end.nextRecvPacketCount =
            IF isNew THEN Succ(Expected(e, Head(packets))) ELSE e.nextRecvPacketCount
      /\ isNew /\ e.state = "LISTEN" /\ "Syn" \in Head(packets).flags =>
            x.out # <<>> /\ "Syn" \in x.out[1].flags
      /\ part = Packaged(e, packets)
<2>1. CASE isNew
<3>1. Head(packets) \in Packet
  BY <2>1
<3>2. QED BY <2>1, <3>1, HeaderFacts DEF Packaged
<2>2. CASE ~isNew
<3>1. Quiet(e) \in Sending /\ Quiet(e).end = e /\ Quiet(e).out = <<>>
  BY DEF Quiet, Sending
<3>2. QED BY <2>2, <3>1 DEF Packaged, Numbered, InTurn, After, Bare
<2>3. QED BY <2>1, <2>2
<1> HIDE DEF isNew, x
<1>2. /\ part \in [type : Kinds, index : Nat, rest : Seq(Nat)] /\ part.rest \in Seq(Nat)
      /\ Len(part.rest) \in Nat /\ part.index \in Nat
<2>1. x.end \in Endpoint
  BY <1>1 DEF Sending
<2>2. part \in [type : Kinds, index : Nat, rest : Seq(Nat)]
  BY <1>1, <2>1 DEF Endpoint
<2> HIDE DEF part
<2>3. part.rest \in Seq(Nat) /\ part.index \in Nat
  BY <2>2
<2>4. Len(part.rest) \in Nat
  BY <2>3
<2>5. QED BY <2>2, <2>3, <2>4
<1>3. /\ taken0 \in 0..Len(part.rest) /\ (part.type # "Buffer" => taken0 = Len(part.rest))
      /\ part.type = "Buffer" /\ room > 0 /\ part.rest # <<>> => taken0 > 0
<2>1. ASSUME NEW n \in Nat PROVE Min({room, n}) \in {room, n} /\ Min({room, n}) <= n
<3>1. \E m \in {room, n} : \A k \in {room, n} : m <= k
<4>1. CASE room <= n
  BY <4>1
<4>2. CASE n <= room
  BY <4>2
<4>3. QED BY <4>1, <4>2
<3>2. Min({room, n}) = CHOOSE m \in {room, n} : \A k \in {room, n} : m <= k
  BY DEF Min
<3>3. QED BY <3>1, <3>2
<2>2. Min({room, Len(part.rest)}) \in {room, Len(part.rest)} /\ Min({room, Len(part.rest)}) <= Len(part.rest)
  BY <1>2, <2>1
<2>3. part.rest # <<>> => Len(part.rest) > 0
  BY <1>2
<2>4. QED BY <1>2, <2>2, <2>3
<1> HIDE DEF taken0
<1>4. Left(part, taken0) = SubSeq(part.rest, taken0 + 1, Len(part.rest)) /\ Left(part, taken0) \in Seq(Nat)
  BY <1>2, <1>3 DEF Left
<1> DEFINE rest == Left(part, taken0)
           left == [type |-> part.type, index |-> part.index, rest |-> rest]
           total == x.end.totalBytesRecv + taken0
           e1 == [x.end EXCEPT !.part.rest = rest]
<1>4a. rest \in Seq(Nat)
  BY <1>4
<1>4b. y = [x EXCEPT !.end.part.rest = rest, !.end.totalBytesRecv = @ + taken0]
  OBVIOUS
<1> HIDE DEF rest, y
<1>6. left \in [type : Kinds, index : Nat, rest : Seq(Nat)]
  BY <1>2, <1>4a
<1>6a. x = [end |-> x.end, out |-> x.out] /\ x.end \in Endpoint
  BY <1>1 DEF Sending
<1>7. total \in Nat
<2>1. taken0 \in Nat /\ x.end.totalBytesRecv \in Nat
  BY <1>2, <1>3, <1>6a DEF Endpoint
<2>2. QED BY <2>1
<1>7a. e1 = [x.end EXCEPT !.part = left]
<2>1. [part EXCEPT !.rest = rest] = left
  BY <1>2
<2>2. QED BY <1>6a, <2>1 DEF Endpoint
<1>5. y.end = [e1 EXCEPT !.totalBytesRecv = total] /\ y.out = x.out /\ y = [end |-> y.end, out |-> y.out]
<2>1. e1.totalBytesRecv = x.end.totalBytesRecv
  BY <1>6a DEF Endpoint
<2>2. [x EXCEPT !.end.part.rest = rest] = [end |-> e1, out |-> x.out]
  BY <1>6a
<2> HIDE DEF e1
<2>3. y = [[end |-> e1, out |-> x.out] EXCEPT !.end.totalBytesRecv = total]
  BY <1>4b, <2>1, <2>2
<2>4. QED BY <2>3
<1> HIDE DEF left, total, e1
<1>8. /\ y.end \in Endpoint /\ y.end.part = left /\ y.end.state = x.end.state
      /\ y.end.nextRecvPacketCount = x.end.nextRecvPacketCount
      /\ y.end.lastSentPacketCount = x.end.lastSentPacketCount
<2>1. /\ e1 \in Endpoint /\ e1.part = left /\ e1.state = x.end.state
      /\ e1.nextRecvPacketCount = x.end.nextRecvPacketCount
      /\ e1.lastSentPacketCount = x.end.lastSentPacketCount
  BY <1>6, <1>6a, <1>7a DEF Endpoint
<2>2. QED BY <1>5, <1>7, <2>1 DEF Endpoint
<1>9. y \in Sending
  BY <1>1, <1>5, <1>8 DEF Sending
<1>10. /\ z \in Sending /\ z.out = x.out /\ z.end.part = left /\ z.end.state = x.end.state
       /\ z.end.nextRecvPacketCount = x.end.nextRecvPacketCount
       /\ z.end.lastSentPacketCount = x.end.lastSentPacketCount
<2>1. CASE isNew /\ "Flo" \in Head(packets).flags
<3>1. z.end = [y.end EXCEPT !.lastFlowMsgRecv = part.index] /\ z.out = y.out
      /\ z = [end |-> z.end, out |-> z.out]
  BY <1>9, <2>1 DEF Sending
<3> DEFINE index == part.index
<3>1a. index \in Nat /\ z.end = [y.end EXCEPT !.lastFlowMsgRecv = index]
  BY <1>2, <3>1
<3> HIDE DEF index
<3>2. z.end \in Endpoint /\ z.end.part = y.end.part /\ z.end.state = y.end.state
      /\ z.end.nextRecvPacketCount = y.end.nextRecvPacketCount
      /\ z.end.lastSentPacketCount = y.end.lastSentPacketCount
<4> DEFINE new == z.end
           old == y.end
<4>1. old \in Endpoint /\ new = [old EXCEPT !.lastFlowMsgRecv = index]
  BY <1>8, <3>1a
<4> HIDE DEF new, old
<4>2. new \in Endpoint
  BY <3>1a, <4>1 DEF Endpoint
<4>3. /\ new.part = old.part /\ new.state = old.state
      /\ new.nextRecvPacketCount = old.nextRecvPacketCount
      /\ new.lastSentPacketCount = old.lastSentPacketCount
  BY <4>1 DEF Endpoint
<4>4. QED BY <4>2, <4>3 DEF new, old
<3>3. z \in Sending
  BY <1>9, <3>1, <3>2 DEF Sending
<3>4. QED BY <1>5, <1>8, <3>1, <3>2, <3>3
<2>2. CASE ~(isNew /\ "Flo" \in Head(packets).flags)
  BY <1>5, <1>8, <1>9, <2>2
<2>3. QED BY <2>1, <2>2
<1> HIDE DEF z
<1>11. Numbered(e, z) /\ Bare(z.out)
  BY <1>1, <1>10 DEF Numbered
<1>12. /\ done \in Sending /\ Numbered(e, done) /\ Bare(done.out)
       /\ done.end.state = z.end.state /\ done.end.part = z.end.part
       /\ done.end.nextRecvPacketCount = z.end.nextRecvPacketCount
       /\ z.out # <<>> => done.out # <<>> /\ done.out[1].flags = z.out[1].flags
  BY <1>10, <1>11, FlowFacts
<1>13. recv(e, packets, room) =
         [end |-> done.end, out |-> done.out,
          packets |-> IF isNew THEN Tail(packets) ELSE packets,
          type |-> part.type, index |-> part.index,
          data |-> SubSeq(part.rest, 1, taken0), length |-> taken0]
  BY DEF recv, isNew, x, y, z, taken0
<1> HIDE DEF done, part
<1> DEFINE r == recv(e, packets, room)
           queue == IF isNew THEN Tail(packets) ELSE packets
           data == SubSeq(part.rest, 1, taken0)
<1>13a. r = [end |-> done.end, out |-> done.out, packets |-> queue, type |-> part.type,
             index |-> part.index, data |-> data, length |-> taken0]
  BY <1>13
<1> HIDE DEF r, queue, data
<1>13b. /\ r.end = done.end /\ r.out = done.out /\ r.packets = queue /\ r.type = part.type
        /\ r.index = part.index /\ r.data = data /\ r.length = taken0
  BY <1>13a
<1>14. /\ r.end = done.end /\ r.out = done.out /\ r.length = taken0
       /\ r.packets = (IF isNew THEN Tail(packets) ELSE packets)
       /\ r.type = part.type /\ r.index = part.index /\ r.data = SubSeq(part.rest, 1, taken0)
  BY <1>13b DEF queue, data
<1>15. done.end \in Endpoint /\ done.out \in Seq(Packet)
  BY <1>12 DEF Sending
<1>16. Numbered(e, r)
  BY <1>12, <1>14 DEF Numbered
<1>17. r.end.part = [type |-> part.type, index |-> part.index,
                     rest |-> SubSeq(part.rest, taken0 + 1, Len(part.rest))]
  BY <1>4, <1>10, <1>12, <1>14 DEF left, rest
<1>18. QED BY <1>1, <1>3, <1>10, <1>12, <1>14, <1>15, <1>16, <1>17 DEF r, isNew

LEMMA OpenFacts ==
    ASSUME NEW e \in Endpoint, NEW start \in Counts
    PROVE  LET x == openComms(e, start)
           IN  /\ x.end \in Endpoint /\ x.out \in Seq(Packet) /\ Bare(x.out)
               /\ x.end.part = e.part /\ x.end.nextRecvPacketCount = e.nextRecvPacketCount
               /\ e.state # "CLOSED" => x.out = <<>> /\ x.end.state = e.state
               /\ e.state = "CLOSED" =>
                     /\ x.end.state = "SYN_SENT"
                     /\ x.out # <<>> /\ "Syn" \in x.out[1].flags
                     /\ InTurn(start, x.out) /\ x.end.lastSentPacketCount = After(start, x.out)
<1> DEFINE fresh == [e EXCEPT !.lastSentPacketCount = start,
                              !.totalBytesRecv = 0, !.totalBytesSent = 0,
                              !.lastFlowMsgRecv = 0, !.lastFlowMsgSent = 0]
           sent == Send(Quiet(fresh), {"Syn"}, "none", 0, <<>>)
           x == openComms(e, start)
<1>1. /\ fresh \in Endpoint /\ fresh.state = e.state /\ fresh.part = e.part
      /\ fresh.nextRecvPacketCount = e.nextRecvPacketCount /\ fresh.lastSentPacketCount = start
  BY DEF Endpoint
<1>2. x = IF e.state # "CLOSED" THEN Quiet(fresh)
          ELSE [sent EXCEPT !.end.state = "SYN_SENT"]
  BY <1>1 DEF openComms, SendFlags
<1> HIDE DEF fresh, x
<1>3. /\ Quiet(fresh) \in Sending /\ Quiet(fresh).end = fresh /\ Quiet(fresh).out = <<>>
      /\ Numbered(fresh, Quiet(fresh)) /\ Bare(Quiet(fresh).out)
  BY <1>1 DEF Quiet, Sending, Numbered, InTurn, After, Bare
<1>4. CASE e.state # "CLOSED"
<2> HIDE DEF sent
<2>1. x = Quiet(fresh)
  BY <1>2, <1>4
<2>2. QED BY <1>1, <1>3, <1>4, <2>1 DEF x, Sending
<1>5. CASE e.state = "CLOSED"
<2>1. {"Syn"} \in SUBSET Flags /\ 0 \in Nat
  BY DEF Flags
<2>2. /\ sent \in Sending /\ Numbered(fresh, sent) /\ Bare(sent.out)
      /\ sent.end.part = fresh.part
      /\ sent.end.nextRecvPacketCount = fresh.nextRecvPacketCount
      /\ sent.out # <<>> /\ sent.out[1].flags = {"Syn"}
  BY <1>3, <2>1, SendOn
<2> HIDE DEF sent
<2>3. x = [sent EXCEPT !.end.state = "SYN_SENT"]
  BY <1>2, <1>5
<2>4. x.end = [sent.end EXCEPT !.state = "SYN_SENT"] /\ x.out = sent.out
  BY <2>2, <2>3 DEF Sending
<2>5. /\ x.end \in Endpoint /\ x.end.state = "SYN_SENT" /\ x.end.part = sent.end.part
      /\ x.end.nextRecvPacketCount = sent.end.nextRecvPacketCount
      /\ x.end.lastSentPacketCount = sent.end.lastSentPacketCount
<3>1. sent.end \in Endpoint
  BY <2>2 DEF Sending
<3>2. QED BY <2>4, <3>1 DEF Endpoint, States
<2>6. sent.out \in Seq(Packet)
  BY <2>2 DEF Sending
<2>7. QED BY <1>1, <1>5, <2>2, <2>4, <2>5, <2>6 DEF x, Numbered
<1>6. QED BY <1>4, <1>5 DEF x

LEMMA CloseFacts ==
    ASSUME NEW e \in Endpoint, e.state \in {"ESTABLISHED", "CLOSE_WAIT"}
    PROVE  LET x == closeComms(e)
           IN  /\ x.end \in Endpoint /\ x.out \in Seq(Packet) /\ Numbered(e, x) /\ Bare(x.out)
               /\ x.end.part = e.part /\ x.end.nextRecvPacketCount = e.nextRecvPacketCount
               /\ x.end.state \in {"FIN_WAIT_1", "LAST_ACK"}
<1> DEFINE sent == Send(Quiet(e), {"Fin"}, "none", 0, <<>>)
           next == IF e.state = "ESTABLISHED" THEN "FIN_WAIT_1" ELSE "LAST_ACK"
           x == closeComms(e)
<1>1. x = [sent EXCEPT !.end.state = next]
  BY DEF closeComms, SendFlags
<1>2. /\ Quiet(e) \in Sending /\ Quiet(e).end = e /\ Quiet(e).out = <<>>
      /\ Numbered(e, Quiet(e)) /\ Bare(Quiet(e).out)
  BY DEF Quiet, Sending, Numbered, InTurn, After, Bare
<1>3. {"Fin"} \in SUBSET Flags /\ 0 \in Nat
  BY DEF Flags
<1>4. /\ sent \in Sending /\ Numbered(e, sent) /\ Bare(sent.out)
      /\ sent.end.part = e.part
      /\ sent.end.nextRecvPacketCount = e.nextRecvPacketCount
  BY <1>2, <1>3, SendOn
<1>5. next \in {"FIN_WAIT_1", "LAST_ACK"}
  OBVIOUS
<1> HIDE DEF sent, x, next
<1>6. x.end = [sent.end EXCEPT !.state = next] /\ x.out = sent.out
  BY <1>1, <1>4 DEF Sending
<1>7. sent.end \in Endpoint /\ sent.out \in Seq(Packet)
  BY <1>4 DEF Sending
<1>8. /\ x.end \in Endpoint /\ x.end.state = next /\ x.end.part = sent.end.part
      /\ x.end.nextRecvPacketCount = sent.end.nextRecvPacketCount
      /\ x.end.lastSentPacketCount = sent.end.lastSentPacketCount
  BY <1>5, <1>6, <1>7 DEF Endpoint, States
<1>9. QED BY <1>4, <1>5, <1>6, <1>7, <1>8 DEF x, Numbered

(***************************************************************************)
(* The counts stay in step.                                                *)
(***************************************************************************)

Item == [type : Kinds, index : Nat, payload : Short]

Types ==
    /\ end \in [Ends -> Endpoint] /\ net \in [Ends -> Seq(Packet)]
    /\ phase \in [Ends -> Phases] /\ length \in [Ends -> Nat]
    /\ todo \in Seq(Item) /\ taken \in Nat
    /\ output \in Seq(Nat) /\ nextExpectedIndex \in Nat
    /\ opens \in [Ends -> Nat] /\ failures \in Nat
    /\ dropped \in BOOLEAN /\ parted \in BOOLEAN

\* The states that an end may be in
Possible(e) ==
    /\ phase[e] = "off" => end[e].state \in {"LISTEN", "CLOSED"}
    /\ phase[e] = "opening" => end[e].state \in {"LISTEN", "SYN_SENT", "SYN_RECEIVED", "ESTABLISHED"}
    /\ phase[e] = "on" => end[e].state \in {"ESTABLISHED", "CLOSE_WAIT"}
    /\ phase[e] = "closing" =>
         end[e].state \in {"FIN_WAIT_1", "FIN_WAIT_2", "CLOSING", "LAST_ACK", "TIME_WAIT", "CLOSED"}
Sessions == (\A e \in Ends : Possible(e)) /\ (todo # <<>> => phase["sink"] = "on")

\* In these states an end sends nothing that does not begin with SYN.
Mute == {"LISTEN", "CLOSED"}

\* The packets for end e, of one with count `last` in `state`
Direction(to, packets, state, last) ==
    /\ InTurn(to.nextRecvPacketCount, packets)
    /\ state \notin Mute => last = After(to.nextRecvPacketCount, packets)
    /\ state = "LISTEN" => packets = <<>>
    /\ to.state = "LISTEN" =>
          /\ to.part.rest = <<>>
          /\ packets # <<>> => "Syn" \in packets[1].flags
          /\ state \notin Mute => packets # <<>>
InStep == \A e \in Ends :
    Direction(end[e], net[e], end[Peer(e)].state, end[Peer(e)].lastSentPacketCount)

LEMMA PeersPeer == \A e \in Ends : Peer(e) \in Ends /\ Peer(e) # e /\ Peer(Peer(e)) = e
                                   /\ \A d \in Ends : d = e \/ d = Peer(e)
  BY DEF Peer, Ends

\* A sender of packets that have its numbers, or begin with SYN
LEMMA SenderStaysInStep ==
    ASSUME NEW to, NEW packets \in Seq(Packet), NEW e \in Endpoint, NEW x,
           x.out \in Seq(Packet),
           Direction(to, packets, e.state, e.lastSentPacketCount),
           \/ e.state \notin Mute /\ Numbered(e, x)
           \/ /\ x.out # <<>> /\ "Syn" \in x.out[1].flags
              /\ \E d : InTurn(d, x.out) /\ x.end.lastSentPacketCount = After(d, x.out),
           x.end.state # "LISTEN"
    PROVE  Direction(to, packets \o x.out, x.end.state, x.end.lastSentPacketCount)
<1> DEFINE c == to.nextRecvPacketCount
           longer == packets \o x.out
<1>1. InTurn(c, packets)
  BY DEF Direction
<1>2. InTurn(c, longer) /\ x.end.lastSentPacketCount = After(c, longer)
<2>1. CASE e.state \notin Mute /\ Numbered(e, x)
<3>1. e.lastSentPacketCount = After(c, packets)
  BY <2>1 DEF Direction
<3>2. InTurn(e.lastSentPacketCount, x.out) /\ x.end.lastSentPacketCount = After(e.lastSentPacketCount, x.out)
  BY <2>1 DEF Numbered
<3>3. QED BY <1>1, <3>1, <3>2, ConcatTurn
<2>2. ASSUME NEW d, InTurn(d, x.out), x.end.lastSentPacketCount = After(d, x.out),
             x.out # <<>>, "Syn" \in x.out[1].flags
      PROVE  InTurn(c, longer) /\ x.end.lastSentPacketCount = After(c, longer)
  BY <1>1, <2>2, ConcatTurn
<2>3. QED BY <2>1, <2>2
<1>3. /\ packets # <<>> => longer # <<>> /\ longer[1] = packets[1]
      /\ packets = <<>> => longer = x.out
  OBVIOUS
<1> HIDE DEF longer
<1>4. ASSUME to.state = "LISTEN"
      PROVE  /\ to.part.rest = <<>>
             /\ longer # <<>> => "Syn" \in longer[1].flags
             /\ x.end.state \notin Mute => longer # <<>>
<2>1. CASE packets # <<>>
  BY <1>3, <1>4, <2>1 DEF Direction
<2>2. CASE packets = <<>>
<3>1. x.out # <<>> /\ "Syn" \in x.out[1].flags
  BY <1>4, <2>2 DEF Direction
<3>2. QED BY <1>3, <1>4, <2>2, <3>1 DEF Direction
<2>3. QED BY <2>1, <2>2
<1>5. QED BY <1>2, <1>4 DEF Direction, longer

LEMMA ReceiverStaysInStep ==
    ASSUME NEW e \in Endpoint, NEW packets \in Seq(Packet), NEW room \in Nat, NEW state, NEW last,
           packets # <<>> \/ e.part.rest # <<>>, e.state # "CLOSED",
           Direction(e, packets, state, last)
    PROVE  LET x == recv(e, packets, room)
           IN  /\ Direction(x.end, x.packets, state, last)
               /\ x.end \in Endpoint /\ x.out \in Seq(Packet) /\ x.packets \in Seq(Packet)
               /\ x.end.state # "LISTEN"
               /\ \/ e.state \notin Mute /\ Numbered(e, x)
                  \/ /\ x.out # <<>> /\ "Syn" \in x.out[1].flags
                     /\ \E d : InTurn(d, x.out) /\ x.end.lastSentPacketCount = After(d, x.out)
<1> DEFINE x == recv(e, packets, room)
           isNew == e.part.rest = <<>>
           c == e.nextRecvPacketCount
<1>1. /\ x.end \in Endpoint /\ x.out \in Seq(Packet) /\ Numbered(e, x)
      /\ x.packets = IF isNew THEN Tail(packets) ELSE packets
      /\ x.end.state = IF isNew THEN Transition(e.state, Head(packets).flags)[2] ELSE e.state
      /\ x.end.nextRecvPacketCount = IF isNew THEN Succ(Expected(e, Head(packets))) ELSE c
      /\ isNew /\ e.state = "LISTEN" /\ "Syn" \in Head(packets).flags =>
            x.out # <<>> /\ "Syn" \in x.out[1].flags
  BY ReceiveFacts
<1> HIDE DEF x
<1>2. isNew => packets # <<>> /\ Head(packets) \in Packet /\ Head(packets) = packets[1]
               /\ Tail(packets) \in Seq(Packet)
  OBVIOUS
<1>3. e.state = "LISTEN" => isNew /\ "Syn" \in Head(packets).flags
  BY <1>2 DEF Direction
<1>4. isNew => Head(packets).flags \in SUBSET Flags /\ e.state \in States
  BY <1>2 DEF Packet, Endpoint
<1>5. x.end.state # "LISTEN"
<2>1. CASE isNew
  BY <1>1, <1>3, <1>4, <2>1, TransitionFacts
<2>2. CASE ~isNew
  BY <1>1, <1>3, <2>2
<2>3. QED BY <2>1, <2>2
<1>6. Direction(x.end, x.packets, state, last)
<2>1. CASE isNew
<3>1. /\ "Syn" \in Head(packets).flags \/ Head(packets).packetCount = c
      /\ InTurn(Succ(Head(packets).packetCount), Tail(packets))
      /\ After(Succ(Head(packets).packetCount), Tail(packets)) = After(c, packets)
  BY <1>2, <2>1, TailTurn DEF Direction
<3>2. Expected(e, Head(packets)) = Head(packets).packetCount
  BY <3>1 DEF Expected
<3>3. x.end.nextRecvPacketCount = Succ(Head(packets).packetCount) /\ x.packets = Tail(packets)
  BY <1>1, <2>1, <3>2
<3>4. state # "LISTEN"
  BY <1>2, <2>1 DEF Direction
<3>5. state \notin Mute => last = After(c, packets)
  BY DEF Direction
<3>6. QED BY <1>5, <3>1, <3>3, <3>4, <3>5 DEF Direction
<2>2. CASE ~isNew
<3>1. x.end.nextRecvPacketCount = c /\ x.packets = packets
  BY <1>1, <2>2
<3>2. QED BY <1>5, <3>1 DEF Direction
<2>3. QED BY <2>1, <2>2
<1>7. \/ e.state \notin Mute /\ Numbered(e, x)
      \/ /\ x.out # <<>> /\ "Syn" \in x.out[1].flags
         /\ \E d : InTurn(d, x.out) /\ x.end.lastSentPacketCount = After(d, x.out)
<2>1. CASE e.state = "LISTEN"
<3>1. x.out # <<>> /\ "Syn" \in x.out[1].flags
  BY <1>1, <1>3, <2>1
<3>2. QED BY <1>1, <3>1 DEF Numbered
<2>2. CASE e.state # "LISTEN"
  BY <1>1, <2>2 DEF Mute
<2>3. QED BY <2>1, <2>2
<1>8. x.packets \in Seq(Packet)
  BY <1>1, <1>2
<1>9. QED BY <1>1, <1>5, <1>6, <1>7, <1>8 DEF x

\* What an end sends, with its counts or after a SYN
Opens(e, x) ==
    \/ e.state \notin Mute /\ Numbered(e, x)
    \/ /\ x.out # <<>> /\ "Syn" \in x.out[1].flags
       /\ \E d : InTurn(d, x.out) /\ x.end.lastSentPacketCount = After(d, x.out)

\* End e receives, and answers.
LEMMA ReceiveStep ==
    ASSUME Types, InStep, NEW e \in Ends, NEW room \in Nat, isRecvReady(e),
           end[e].state # "CLOSED", Receives(e, recv(end[e], net[e], room))
    PROVE  /\ InStep' /\ end' \in [Ends -> Endpoint] /\ net' \in [Ends -> Seq(Packet)]
<1> DEFINE x == recv(end[e], net[e], room)
           d == Peer(e)
<1>1. /\ d \in Ends /\ d # e /\ Peer(d) = e /\ \A f \in Ends : f = e \/ f = d
  BY PeersPeer
<1>2. /\ end[e] \in Endpoint /\ end[d] \in Endpoint
      /\ net[e] \in Seq(Packet) /\ net[d] \in Seq(Packet)
      /\ end \in [Ends -> Endpoint] /\ net \in [Ends -> Seq(Packet)]
  BY <1>1 DEF Types
<1>3. net[e] # <<>> \/ end[e].part.rest # <<>>
  BY DEF isRecvReady
<1>4. /\ Direction(end[e], net[e], end[d].state, end[d].lastSentPacketCount)
      /\ Direction(end[d], net[d], end[e].state, end[e].lastSentPacketCount)
  BY <1>1 DEF InStep
<1>5. /\ Direction(x.end, x.packets, end[d].state, end[d].lastSentPacketCount)
      /\ x.end \in Endpoint /\ x.out \in Seq(Packet) /\ x.packets \in Seq(Packet)
      /\ x.end.state # "LISTEN" /\ Opens(end[e], x)
  BY <1>2, <1>3, <1>4, ReceiverStaysInStep DEF Opens
<1> HIDE DEF d
<1>6. end' = [end EXCEPT ![e] = x.end] /\ net' = [net EXCEPT ![d] = @ \o x.out, ![e] = x.packets]
  BY DEF Receives, d
<1> HIDE DEF x
<1>7. net[d] \o x.out \in Seq(Packet)
  BY <1>2, <1>5
<1>8. /\ end'[e] = x.end /\ end'[d] = end[d] /\ net'[d] = net[d] \o x.out /\ net'[e] = x.packets
      /\ end' \in [Ends -> Endpoint] /\ net' \in [Ends -> Seq(Packet)]
  BY <1>1, <1>2, <1>5, <1>6, <1>7
<1>9. Direction(end[d], net[d] \o x.out, x.end.state, x.end.lastSentPacketCount)
  BY <1>2, <1>4, <1>5, SenderStaysInStep DEF Opens
<1>10. InStep'
<2>1. ASSUME NEW f \in Ends
      PROVE  Direction(end'[f], net'[f], end'[Peer(f)].state, end'[Peer(f)].lastSentPacketCount)
<3>1. CASE f = e
  BY <1>5, <1>8, <3>1 DEF d
<3>2. CASE f = d
  BY <1>1, <1>8, <1>9, <3>2
<3>3. QED BY <1>1, <3>1, <3>2
<2>2. QED BY <2>1 DEF InStep
<1>11. QED BY <1>8, <1>10

\* End e sends.
LEMMA SendStep ==
    ASSUME Types, InStep, NEW e \in Ends, NEW x, Becomes(e, x),
           x.end \in Endpoint, x.out \in Seq(Packet), Opens(end[e], x),
           x.end.state # "LISTEN",
           x.end.part = end[e].part, x.end.nextRecvPacketCount = end[e].nextRecvPacketCount
    PROVE  /\ InStep' /\ end' \in [Ends -> Endpoint] /\ net' \in [Ends -> Seq(Packet)]
<1> DEFINE d == Peer(e)
<1>1. /\ d \in Ends /\ d # e /\ Peer(d) = e /\ \A f \in Ends : f = e \/ f = d
  BY PeersPeer
<1>2. /\ end[e] \in Endpoint /\ end[d] \in Endpoint
      /\ net[e] \in Seq(Packet) /\ net[d] \in Seq(Packet)
      /\ end \in [Ends -> Endpoint] /\ net \in [Ends -> Seq(Packet)]
  BY <1>1 DEF Types
<1>3. /\ Direction(end[e], net[e], end[d].state, end[d].lastSentPacketCount)
      /\ Direction(end[d], net[d], end[e].state, end[e].lastSentPacketCount)
  BY <1>1 DEF InStep
<1> HIDE DEF d
<1>4. end' = [end EXCEPT ![e] = x.end] /\ net' = [net EXCEPT ![d] = @ \o x.out]
  BY DEF Becomes, d
<1>5. net[d] \o x.out \in Seq(Packet)
  BY <1>2
<1>6. /\ end'[e] = x.end /\ end'[d] = end[d] /\ net'[d] = net[d] \o x.out /\ net'[e] = net[e]
      /\ end' \in [Ends -> Endpoint] /\ net' \in [Ends -> Seq(Packet)]
  BY <1>1, <1>2, <1>4, <1>5
<1>7. Direction(end[d], net[d] \o x.out, x.end.state, x.end.lastSentPacketCount)
  BY <1>2, <1>3, SenderStaysInStep DEF Opens
<1>8. Direction(x.end, net[e], end[d].state, end[d].lastSentPacketCount)
  BY <1>3 DEF Direction
<1>9. InStep'
<2>1. ASSUME NEW f \in Ends
      PROVE  Direction(end'[f], net'[f], end'[Peer(f)].state, end'[Peer(f)].lastSentPacketCount)
<3>1. CASE f = e
  BY <1>6, <1>8, <3>1 DEF d
<3>2. CASE f = d
  BY <1>1, <1>6, <1>7, <3>2
<3>3. QED BY <1>1, <3>1, <3>2
<2>2. QED BY <2>1 DEF InStep
<1>10. QED BY <1>6, <1>9

\* End e sends nothing and will begin with a SYN.
LEMMA MuteStep ==
    ASSUME Types, InStep, NEW e \in Ends, NEW new \in Endpoint,
           end' = [end EXCEPT ![e] = new], net' = net, new.state \in Mute,
           new.state = "LISTEN" => end[e].state = "LISTEN",
           new.part = end[e].part, new.nextRecvPacketCount = end[e].nextRecvPacketCount
    PROVE  InStep' /\ end' \in [Ends -> Endpoint] /\ net' \in [Ends -> Seq(Packet)]
<1> DEFINE d == Peer(e)
<1>1. /\ d \in Ends /\ d # e /\ Peer(d) = e /\ \A f \in Ends : f = e \/ f = d
  BY PeersPeer
<1>2. end \in [Ends -> Endpoint] /\ net \in [Ends -> Seq(Packet)]
  BY DEF Types
<1>3. /\ Direction(end[e], net[e], end[d].state, end[d].lastSentPacketCount)
      /\ Direction(end[d], net[d], end[e].state, end[e].lastSentPacketCount)
  BY <1>1 DEF InStep
<1> HIDE DEF d
<1>4. /\ end'[e] = new /\ end'[d] = end[d] /\ end' \in [Ends -> Endpoint]
  BY <1>1, <1>2
<1>5. Direction(new, net[e], end[d].state, end[d].lastSentPacketCount)
  BY <1>3 DEF Direction
<1>6. Direction(end[d], net[d], new.state, new.lastSentPacketCount)
  BY <1>3 DEF Direction
<1>7. ASSUME NEW f \in Ends
      PROVE  Direction(end'[f], net'[f], end'[Peer(f)].state, end'[Peer(f)].lastSentPacketCount)
<2>1. CASE f = e
  BY <1>4, <1>5, <2>1 DEF d
<2>2. CASE f = d
  BY <1>1, <1>4, <1>6, <2>2
<2>3. QED BY <1>1, <2>1, <2>2
<1>8. QED BY <1>2, <1>4, <1>7 DEF InStep

Counted == Types /\ Sessions /\ InStep

LEMMA InitCounts == Init => Counted
<1> SUFFICES ASSUME Init PROVE Counted
  OBVIOUS
<1>1. PICK server \in Ends : end = [e \in Ends |-> NewEnd(e = server)]
  BY DEF Init
<1>2. ASSUME NEW b \in BOOLEAN
      PROVE  /\ NewEnd(b) \in Endpoint /\ NewEnd(b).state \in {"LISTEN", "CLOSED"}
             /\ NewEnd(b).part.rest = <<>>
<2>1. 0 \in Counts /\ 0 \in Nat /\ "none" \in Kinds /\ <<>> \in Seq(Nat)
  BY SocketAssumption DEF Counts, Kinds
<2>2. NoPart \in [type : Kinds, index : Nat, rest : Seq(Nat)] /\ NoPart.rest = <<>>
  BY <2>1 DEF NoPart
<2>3. (IF b THEN "LISTEN" ELSE "CLOSED") \in {"LISTEN", "CLOSED"}
  OBVIOUS
<2> HIDE DEF NoPart
<2>4. QED BY <2>1, <2>2, <2>3 DEF NewEnd, Endpoint, States
<1>3. \A e \in Ends : end[e] \in Endpoint /\ end[e].state \in {"LISTEN", "CLOSED"} /\ end[e].part.rest = <<>>
  BY <1>1, <1>2
<1>4. end \in [Ends -> Endpoint]
  BY <1>1, <1>2
<1>5. <<>> \in Seq(Packet) /\ <<>> \in Seq(Item) /\ <<>> \in Seq(Nat) /\ "off" \in Phases /\ 0 \in Nat
  BY DEF Phases
<1>6. Types
  BY <1>4, <1>5 DEF Init, Types
<1>7. Sessions
  BY <1>3 DEF Init, Sessions, Possible
<1>8. ASSUME NEW e \in Ends
      PROVE  Direction(end[e], net[e], end[Peer(e)].state, end[Peer(e)].lastSentPacketCount)
<2>1. net[e] = <<>> /\ end[e].part.rest = <<>> /\ end[Peer(e)].state \in Mute
  BY <1>3, PeersPeer DEF Init, Mute
<2>2. QED BY <2>1 DEF Direction, InTurn
<1>9. QED BY <1>6, <1>7, <1>8 DEF Counted, InStep

LEMMA ActivateKeepsCounts ==
    ASSUME Counted, NEW e \in Ends, Activate(e) PROVE Counted'
<1>1. PICK start \in Starts : Becomes(e, openComms(end[e], start))
  BY DEF Activate
<1> DEFINE x == openComms(end[e], start)
<1>2. start \in Counts /\ end[e] \in Endpoint
  BY SocketAssumption DEF Counts, Counted, Types
<1>3. /\ x.end \in Endpoint /\ x.out \in Seq(Packet)
      /\ x.end.part = end[e].part /\ x.end.nextRecvPacketCount = end[e].nextRecvPacketCount
      /\ end[e].state # "CLOSED" => x.out = <<>> /\ x.end.state = end[e].state
      /\ end[e].state = "CLOSED" =>
            /\ x.end.state = "SYN_SENT"
            /\ x.out # <<>> /\ "Syn" \in x.out[1].flags
            /\ InTurn(start, x.out) /\ x.end.lastSentPacketCount = After(start, x.out)
  BY <1>2, OpenFacts
<1>4. end[e].state \in {"LISTEN", "CLOSED"} /\ phase[e] = "off"
  BY DEF Activate, Counted, Sessions, Possible
<1> HIDE DEF x
<1>5. end' = [end EXCEPT ![e] = x.end] /\ net' = [net EXCEPT ![Peer(e)] = @ \o x.out]
  BY <1>1 DEF Becomes, x
<1>6. InStep' /\ end' \in [Ends -> Endpoint] /\ net' \in [Ends -> Seq(Packet)]
<2>1. CASE end[e].state = "CLOSED"
<3>1. Opens(end[e], x)
  BY <1>3, <2>1 DEF Opens
<3>2. Becomes(e, x)
  BY <1>1 DEF x
<3>3. QED BY <1>3, <2>1, <3>1, <3>2, SendStep DEF Counted
<2>2. CASE end[e].state = "LISTEN"
<3>1. x.out = <<>> /\ x.end.state = "LISTEN"
  BY <1>3, <2>2
<3>2. net' = net
<4>1. net \in [Ends -> Seq(Packet)] /\ Peer(e) \in Ends
  BY PeersPeer DEF Counted, Types
<4>2. net[Peer(e)] \o <<>> = net[Peer(e)]
  BY <4>1
<4>3. QED BY <1>5, <3>1, <4>1, <4>2
<3>3. QED BY <1>3, <1>5, <2>2, <3>1, <3>2, MuteStep DEF Counted, Mute
<2>3. QED BY <1>4, <2>1, <2>2
<1>7. Types'
<2>1. /\ phase' = [phase EXCEPT ![e] = "opening"] /\ length' = [length EXCEPT ![e] = Scratch]
      /\ opens' = [opens EXCEPT ![e] = @ + 1]
      /\ UNCHANGED <<todo, taken, output, nextExpectedIndex, failures, dropped, parted>>
  BY DEF Activate, blocks
<2>2. "opening" \in Phases /\ Scratch \in Nat
  BY StreamAssumption DEF Phases
<2>3. QED BY <1>6, <2>1, <2>2 DEF Counted, Types
<1>8. Sessions'
<2>1. phase' = [phase EXCEPT ![e] = "opening"] /\ todo' = todo
  BY DEF Activate, blocks
<2>2. x.end.state \in {"LISTEN", "SYN_SENT"}
  BY <1>3, <1>4
<2>3. end \in [Ends -> Endpoint] /\ phase \in [Ends -> Phases]
  BY DEF Counted, Types
<2>4. QED BY <1>4, <1>5, <2>1, <2>2, <2>3 DEF Counted, Sessions, Possible
<1>9. QED BY <1>6, <1>7, <1>8 DEF Counted

\* A handshake that is over, in time or not
LEMMA EndsKeepCounts ==
    ASSUME Counted, NEW e \in Ends,
           OpenEnds(e) \/ CloseEnds(e) \/ OpenTimesOut(e) \/ CloseTimesOut(e)
    PROVE  Counted'
<1>1. /\ end \in [Ends -> Endpoint] /\ phase \in [Ends -> Phases]
      /\ "off" \in Phases /\ "on" \in Phases
  BY DEF Counted, Types, Phases
<1>2. CASE OpenEnds(e)
<2>1. Types'
  BY <1>1, <1>2 DEF OpenEnds, Counted, Types, blocks, history
<2>2. Sessions'
  BY <1>1, <1>2 DEF OpenEnds, Counted, Sessions, Possible, blocks
<2>3. InStep'
  BY <1>2 DEF OpenEnds, Counted, InStep
<2>4. QED BY <2>1, <2>2, <2>3 DEF Counted
<1>3. CASE CloseEnds(e)
<2>1. Types'
  BY <1>1, <1>3 DEF CloseEnds, Counted, Types, blocks, history
<2>2. Sessions'
  BY <1>1, <1>3 DEF CloseEnds, Counted, Sessions, Possible, blocks
<2>3. InStep'
  BY <1>3 DEF CloseEnds, Counted, InStep
<2>4. QED BY <2>1, <2>2, <2>3 DEF Counted
<1>4. CASE OpenTimesOut(e) \/ CloseTimesOut(e)
<2> DEFINE new == [end[e] EXCEPT !.state = "CLOSED"]
<2>1. /\ end' = [end EXCEPT ![e] = new] /\ net' = net
      /\ phase[e] \in {"opening", "closing"} /\ phase' = [phase EXCEPT ![e] = "off"]
      /\ failures' \in {failures, failures + 1}
      /\ UNCHANGED <<length, todo, taken, output, nextExpectedIndex, opens, dropped, parted>>
  BY <1>4 DEF OpenTimesOut, CloseTimesOut, blocks
<2>2. end[e] \in Endpoint
  BY <1>1
<2>3. /\ new \in Endpoint /\ new.state = "CLOSED" /\ new.part = end[e].part
      /\ new.nextRecvPacketCount = end[e].nextRecvPacketCount
  BY <2>2 DEF Endpoint, States
<2> HIDE DEF new
<2>4. InStep' /\ end' \in [Ends -> Endpoint] /\ net' \in [Ends -> Seq(Packet)]
  BY <2>1, <2>3, MuteStep DEF Counted, Mute
<2>5. Types'
<3>1. failures' \in Nat
  BY <2>1 DEF Counted, Types
<3>2. QED BY <1>1, <2>1, <2>4, <3>1 DEF Counted, Types
<2>6. Sessions'
  BY <1>1, <2>1, <2>3 DEF Counted, Sessions, Possible
<2>7. QED BY <2>4, <2>5, <2>6 DEF Counted
<1>5. QED BY <1>2, <1>3, <1>4

LEMMA DeactivateKeepsCounts ==
    ASSUME Counted, NEW e \in Ends, Deactivate(e) PROVE Counted'
<1> DEFINE x == closeComms(end[e])
<1>1. /\ end \in [Ends -> Endpoint] /\ phase \in [Ends -> Phases] /\ "closing" \in Phases
      /\ end[e].state \in {"ESTABLISHED", "CLOSE_WAIT"} /\ Scratch \in Nat
  BY StreamAssumption DEF Counted, Types, Phases, Sessions, Possible, Deactivate
<1>2. /\ x.end \in Endpoint /\ x.out \in Seq(Packet) /\ Numbered(end[e], x)
      /\ x.end.part = end[e].part /\ x.end.nextRecvPacketCount = end[e].nextRecvPacketCount
      /\ x.end.state \in {"FIN_WAIT_1", "LAST_ACK"}
  BY <1>1, CloseFacts
<1>3. /\ Becomes(e, x) /\ phase[e] = "on" /\ (e = "sink" => todo = <<>>)
      /\ phase' = [phase EXCEPT ![e] = "closing"] /\ length' = [length EXCEPT ![e] = Scratch]
      /\ UNCHANGED <<todo, taken, output, nextExpectedIndex, opens, failures, dropped, parted>>
  BY DEF Deactivate, blocks, history
<1> HIDE DEF x
<1>4. Opens(end[e], x) /\ x.end.state # "LISTEN"
  BY <1>1, <1>2 DEF Opens, Mute
<1>5. InStep' /\ end' \in [Ends -> Endpoint] /\ net' \in [Ends -> Seq(Packet)]
  BY <1>2, <1>3, <1>4, SendStep DEF Counted
<1>6. Types'
  BY <1>1, <1>3, <1>5 DEF Counted, Types
<1>7. Sessions'
<2>1. end' = [end EXCEPT ![e] = x.end]
  BY <1>3 DEF Becomes
<2>2. \A f \in Ends : Possible(f)'
  BY <1>1, <1>2, <1>3, <2>1 DEF Counted, Sessions, Possible
<2>3. todo' # <<>> => phase'["sink"] = "on"
<3>1. todo # <<>> => e # "sink" /\ phase["sink"] = "on"
  BY <1>3 DEF Counted, Sessions
<3>2. "sink" \in Ends
  BY DEF Ends
<3>3. QED BY <1>1, <1>3, <3>1, <3>2
<2>4. QED BY <2>2, <2>3 DEF Sessions
<1>8. QED BY <1>5, <1>6, <1>7 DEF Counted

\* What an end receives has its types, and leaves it in its phase.
LEMMA ReceivedTypes ==
    ASSUME Counted, NEW e \in Ends, NEW room \in Nat, isRecvReady(e),
           phase[e] = "opening" => end[e].state # "ESTABLISHED"
    PROVE  LET x == recv(end[e], net[e], room)
           IN  /\ x.end \in Endpoint /\ x.length \in Nat /\ x.index \in Nat
               /\ x.data \in Seq(Nat) /\ x.type \in Kinds
               /\ phase[e] = "opening" => x.end.state \in {"LISTEN", "SYN_SENT", "SYN_RECEIVED", "ESTABLISHED"}
               /\ phase[e] = "on" => x.end.state \in {"ESTABLISHED", "CLOSE_WAIT"}
               /\ phase[e] = "closing" => x.end.state \in
                     {"FIN_WAIT_1", "FIN_WAIT_2", "CLOSING", "LAST_ACK", "TIME_WAIT", "CLOSED"}
<1> DEFINE x == recv(end[e], net[e], room)
           part == Packaged(end[e], net[e])
           isNew == end[e].part.rest = <<>>
<1>1. /\ end \in [Ends -> Endpoint] /\ end[e] \in Endpoint /\ net[e] \in Seq(Packet)
      /\ phase[e] \in Phases
  BY DEF Counted, Types, isRecvReady
<1>1a. net[e] # <<>> \/ end[e].part.rest # <<>>
  BY DEF isRecvReady
<1>2. /\ x.end \in Endpoint
      /\ x.end.state = IF isNew THEN Transition(end[e].state, Head(net[e]).flags)[2] ELSE end[e].state
      /\ x.type = part.type /\ x.index = part.index
      /\ x.length \in 0..Len(part.rest) /\ x.data = SubSeq(part.rest, 1, x.length)
  BY <1>1, <1>1a, ReceiveFacts
<1>3. isNew => Head(net[e]) \in Packet /\ Head(net[e]).flags \in SUBSET Flags
<2>1. isNew => Head(net[e]) \in Packet
  BY <1>1, <1>1a
<2>2. QED BY <2>1 DEF Packet
<1>4. part.type \in Kinds /\ part.index \in Nat /\ part.rest \in Seq(Nat)
  BY <1>1, <1>3 DEF Packaged, Endpoint, Packet
<1> HIDE DEF x, part
<1>5. Len(part.rest) \in Nat
  BY <1>4
<1>6. x.length \in Nat /\ x.data \in Seq(Nat)
  BY <1>2, <1>4, <1>5
<1>7. Possible(e) /\ end[e].state \in States
  BY <1>1 DEF Counted, Sessions, Endpoint
<1>8. /\ phase[e] = "opening" => x.end.state \in {"LISTEN", "SYN_SENT", "SYN_RECEIVED", "ESTABLISHED"}
      /\ phase[e] = "on" => x.end.state \in {"ESTABLISHED", "CLOSE_WAIT"}
      /\ phase[e] = "closing" => x.end.state \in
            {"FIN_WAIT_1", "FIN_WAIT_2", "CLOSING", "LAST_ACK", "TIME_WAIT", "CLOSED"}
<2>1. CASE isNew
<3> DEFINE to == Transition(end[e].state, Head(net[e]).flags)
<3>1. /\ end[e].state \in {"ESTABLISHED", "CLOSE_WAIT"} => to[2] \in {"ESTABLISHED", "CLOSE_WAIT"}
      /\ end[e].state \in {"LISTEN", "SYN_SENT", "SYN_RECEIVED"} =>
            to[2] \in {"LISTEN", "SYN_SENT", "SYN_RECEIVED", "ESTABLISHED"}
      /\ end[e].state \in {"FIN_WAIT_1", "FIN_WAIT_2", "CLOSING", "LAST_ACK", "TIME_WAIT", "CLOSED"} =>
            to[2] \in {"FIN_WAIT_1", "FIN_WAIT_2", "CLOSING", "LAST_ACK", "TIME_WAIT", "CLOSED"}
  BY <1>3, <1>7, <2>1, TransitionFacts
<3>2. x.end.state = to[2]
  BY <1>2, <2>1
<3> HIDE DEF to
<3>3. QED BY <1>7, <3>1, <3>2 DEF Possible
<2>2. CASE ~isNew
  BY <1>2, <1>7, <2>2 DEF Possible
<2>3. QED BY <2>1, <2>2
<1>9. QED BY <1>2, <1>4, <1>6, <1>8 DEF x

\* End e receives something, and only it changes its state.
LEMMA ReceivingKeepsCounts ==
    ASSUME Counted, NEW e \in Ends, NEW room \in Nat, isRecvReady(e),
           phase[e] = "opening" => end[e].state # "ESTABLISHED",
           end[e].state # "CLOSED", phase[e] # "off",
           Receives(e, recv(end[e], net[e], room)), phase' = phase, todo' = todo
    PROVE  /\ end' \in [Ends -> Endpoint] /\ net' \in [Ends -> Seq(Packet)]
           /\ Sessions' /\ InStep'
<1> DEFINE x == recv(end[e], net[e], room)
<1>1. /\ x.end \in Endpoint
      /\ phase[e] = "opening" => x.end.state \in {"LISTEN", "SYN_SENT", "SYN_RECEIVED", "ESTABLISHED"}
      /\ phase[e] = "on" => x.end.state \in {"ESTABLISHED", "CLOSE_WAIT"}
      /\ phase[e] = "closing" => x.end.state \in
            {"FIN_WAIT_1", "FIN_WAIT_2", "CLOSING", "LAST_ACK", "TIME_WAIT", "CLOSED"}
  BY ReceivedTypes
<1>2. InStep' /\ end' \in [Ends -> Endpoint] /\ net' \in [Ends -> Seq(Packet)]
  BY ReceiveStep DEF Counted
<1>3. end' = [end EXCEPT ![e] = x.end]
  BY DEF Receives
<1> HIDE DEF x
<1>4. end \in [Ends -> Endpoint]
  BY DEF Counted, Types
<1>5. \A f \in Ends : Possible(f)'
<2>1. ASSUME NEW f \in Ends PROVE Possible(f)'
<3>1. CASE f = e
<4>1. end'[f] = x.end /\ phase'[f] = phase[e]
  BY <1>3, <1>4, <3>1
<4>2. QED BY <1>1, <4>1 DEF Possible
<3>2. CASE f # e
<4>1. end'[f] = end[f] /\ phase'[f] = phase[f] /\ Possible(f)
  BY <1>3, <1>4, <3>2 DEF Counted, Sessions
<4>2. QED BY <4>1 DEF Possible
<3>3. QED BY <3>1, <3>2
<2>2. QED BY <2>1
<1>6. QED BY <1>2, <1>5 DEF Counted, Sessions

LEMMA HandshakeRecvKeepsCounts ==
    ASSUME Counted, NEW e \in Ends, HandshakeRecv(e) PROVE Counted'
<1> DEFINE x == recv(end[e], net[e], length[e])
<1>1. length[e] \in Nat /\ length \in [Ends -> Nat]
  BY DEF Counted, Types
<1>2. /\ isRecvReady(e) /\ phase[e] # "off"
      /\ phase[e] = "opening" => end[e].state # "ESTABLISHED"
  BY DEF Receivable, HandshakeRecv
<1>3. end[e].state # "CLOSED"
  BY DEF HandshakeRecv, Counted, Sessions, Possible
<1>4. /\ Receives(e, x) /\ length' = [length EXCEPT ![e] = x.length]
      /\ dropped' = (dropped \/ x.type # "none")
      /\ UNCHANGED <<phase, todo, taken, output, nextExpectedIndex, opens, failures, parted>>
  BY DEF HandshakeRecv, blocks
<1>5. x.length \in Nat
  BY <1>1, <1>2, ReceivedTypes
<1>6. /\ end' \in [Ends -> Endpoint] /\ net' \in [Ends -> Seq(Packet)]
      /\ Sessions' /\ InStep'
  BY <1>1, <1>2, <1>3, <1>4, ReceivingKeepsCounts
<1> HIDE DEF x
<1>7. Types'
  BY <1>1, <1>4, <1>5, <1>6 DEF Counted, Types
<1>8. QED BY <1>6, <1>7 DEF Counted

LEMMA SinkHandleStateKeepsCounts ==
    ASSUME Counted, SinkHandleState PROVE Counted'
<1>1. /\ "sink" \in Ends /\ phase["sink"] = "on" /\ isRecvReady("sink")
      /\ Receives("sink", recv(end["sink"], net["sink"], 0))
      /\ UNCHANGED <<phase, length, todo, taken, output, nextExpectedIndex, opens, failures, dropped, parted>>
  BY DEF Receivable, SinkHandleState, Ends, blocks, history
<1>2. end["sink"].state # "CLOSED"
  BY <1>1 DEF Counted, Sessions, Possible
<1>3. /\ end' \in [Ends -> Endpoint] /\ net' \in [Ends -> Seq(Packet)]
      /\ Sessions' /\ InStep'
  BY <1>1, <1>2, ReceivingKeepsCounts
<1>4. Types'
  BY <1>1, <1>3 DEF Counted, Types
<1>5. QED BY <1>3, <1>4 DEF Counted

LEMMA SourceWorkKeepsCounts ==
    ASSUME Counted, SourceWork PROVE Counted'
<1>1. PICK room \in 1..MaxBuffer :
          LET x == recv(end["source"], net["source"], room)
          IN  /\ Receives("source", x)
              /\ output' = IF x.type = "Buffer" THEN output \o x.data ELSE output
              /\ nextExpectedIndex' = IF x.type = "Buffer" THEN NextIndex(x) ELSE nextExpectedIndex
              /\ parted' = (parted \/ x.end.part.rest # <<>>)
  BY DEF SourceWork
<1> DEFINE x == recv(end["source"], net["source"], room)
<1>2. /\ "source" \in Ends /\ phase["source"] = "on" /\ isRecvReady("source") /\ room \in Nat
      /\ UNCHANGED <<phase, length, todo, taken, opens, failures, dropped>>
  BY DEF Receivable, SourceWork, Ends
<1>3. end["source"].state # "CLOSED"
  BY <1>2 DEF Counted, Sessions, Possible
<1>4. /\ end' \in [Ends -> Endpoint] /\ net' \in [Ends -> Seq(Packet)]
      /\ Sessions' /\ InStep'
  BY <1>1, <1>2, <1>3, ReceivingKeepsCounts
<1>5. x.length \in Nat /\ x.index \in Nat /\ x.data \in Seq(Nat)
  BY <1>2, ReceivedTypes
<1>6. /\ output' = IF x.type = "Buffer" THEN output \o x.data ELSE output
      /\ nextExpectedIndex' = IF x.type = "Buffer" THEN NextIndex(x) ELSE nextExpectedIndex
      /\ parted' \in BOOLEAN
  BY <1>1
<1> HIDE DEF x
<1>7. output' \in Seq(Nat) /\ nextExpectedIndex' \in Nat
<2>1. output \in Seq(Nat) /\ nextExpectedIndex \in Nat
  BY DEF Counted, Types
<2>2. output \o x.data \in Seq(Nat)
  BY <1>5, <2>1
<2>3. NextIndex(x) \in Nat
  BY <1>5 DEF NextIndex
<2>4. QED BY <1>6, <2>1, <2>2, <2>3
<1>8. Types'
  BY <1>2, <1>4, <1>6, <1>7 DEF Counted, Types
<1>9. QED BY <1>4, <1>8 DEF Counted

LEMMA SinkSendKeepsCounts ==
    ASSUME Counted, SinkSend PROVE Counted'
<1> DEFINE p == Head(todo)
           quiet == Quiet(end["sink"])
           x == Send(quiet, {"Psh"}, p.type, p.index, p.payload)
<1>1. /\ "sink" \in Ends /\ todo # <<>> /\ Becomes("sink", x) /\ todo' = Tail(todo)
      /\ UNCHANGED <<phase, length, taken, output, nextExpectedIndex, opens, failures, dropped, parted>>
  BY DEF SinkSend, Ends, history
<1>2. /\ end["sink"] \in Endpoint /\ end \in [Ends -> Endpoint] /\ todo \in Seq(Item)
      /\ phase["sink"] = "on" /\ end["sink"].state \in {"ESTABLISHED", "CLOSE_WAIT"}
  BY <1>1 DEF Counted, Types, Sessions, Possible
<1>3. p.type \in Kinds /\ p.index \in Nat /\ p.payload \in Short
<2>1. p \in Item
  BY <1>1, <1>2
<2>2. QED BY <2>1 DEF Item
<1>4. quiet \in Sending /\ quiet.end = end["sink"] /\ quiet.out = <<>>
  BY <1>2 DEF Quiet, Sending
<1> DEFINE packet == [flags |-> {"Psh"}, type |-> p.type, index |-> p.index, payload |-> p.payload,
                      packetCount |-> end["sink"].lastSentPacketCount]
<1> HIDE DEF p, quiet
<1>5. /\ x \in Sending /\ packet \in Packet /\ x.out = Append(<<>>, packet)
      /\ x.end.lastSentPacketCount = Succ(end["sink"].lastSentPacketCount)
      /\ x.end.state = end["sink"].state /\ x.end.part = end["sink"].part
      /\ x.end.nextRecvPacketCount = end["sink"].nextRecvPacketCount
<2>1. {"Psh"} \in SUBSET Flags
  BY DEF Flags
<2>2. LET y == Send(quiet, {"Psh"}, p.type, p.index, p.payload)
          sent == [flags |-> {"Psh"}, type |-> p.type, index |-> p.index, payload |-> p.payload,
                   packetCount |-> quiet.end.lastSentPacketCount]
      IN  /\ y \in Sending
          /\ sent \in Packet /\ y.out = Append(quiet.out, sent)
          /\ y.end.lastSentPacketCount = Succ(quiet.end.lastSentPacketCount)
          /\ y.end.state = quiet.end.state /\ y.end.part = quiet.end.part
          /\ y.end.nextRecvPacketCount = quiet.end.nextRecvPacketCount
  BY <1>3, <1>4, <2>1, SendFacts, ZenonT(30)
<2>3. QED BY <1>4, <2>2
<1>6. packet.packetCount = end["sink"].lastSentPacketCount
  OBVIOUS
<1> HIDE DEF x, packet
<1>7. Numbered(end["sink"], x)
<2>1. /\ <<>> \in Seq(Packet) /\ InTurn(end["sink"].lastSentPacketCount, <<>>)
      /\ After(end["sink"].lastSentPacketCount, <<>>) = end["sink"].lastSentPacketCount
  BY DEF InTurn, After
<2>2. QED BY <1>5, <1>6, <2>1, AppendTurn DEF Numbered
<1>8. Opens(end["sink"], x) /\ x.end.state # "LISTEN" /\ x.end \in Endpoint /\ x.out \in Seq(Packet)
  BY <1>2, <1>5, <1>7 DEF Opens, Mute, Sending
<1>9. InStep' /\ end' \in [Ends -> Endpoint] /\ net' \in [Ends -> Seq(Packet)]
  BY <1>1, <1>5, <1>8, SendStep DEF Counted
<1>10. Types'
<2>1. todo' \in Seq(Item)
  BY <1>1, <1>2
<2>2. QED BY <1>1, <1>9, <2>1 DEF Counted, Types
<1>11. Sessions'
<2>1. end' = [end EXCEPT !["sink"] = x.end]
  BY <1>1 DEF Becomes
<2>2. ASSUME NEW f \in Ends PROVE Possible(f)'
<3>1. end'[f].state = end[f].state /\ phase'[f] = phase[f] /\ Possible(f)
  BY <1>1, <1>2, <1>5, <2>1 DEF Counted, Sessions
<3>2. QED BY <3>1 DEF Possible
<2>3. QED BY <1>1, <1>2, <2>2 DEF Sessions
<1>12. QED BY <1>9, <1>10, <1>11 DEF Counted

\* The labels of a work() and then its buffer
LEMMA PacketsFacts ==
    ASSUME taken \in Nat, NEW n \in 1..MaxBuffer,
           NEW queue \in Seq(taken + 1..MaxElements)
    PROVE  LET buffer == [type |-> "Buffer", index |-> taken, payload |-> [i \in 1..n |-> taken + i]]
               items == Packets(n, queue)
           IN  /\ items \in Seq(Item) /\ Len(items) = Len(queue) + 1
               /\ items[Len(queue) + 1] = buffer
               /\ \A i \in 1..Len(queue) :
                     /\ items[i] = [type |-> "Label", index |-> queue[i] - 1, payload |-> <<queue[i]>>]
                     /\ queue[i] \in Nat /\ taken < queue[i]
<1> DEFINE buffer == [type |-> "Buffer", index |-> taken, payload |-> [i \in 1..n |-> taken + i]]
           label(i) == [type |-> "Label", index |-> queue[i] - 1, payload |-> <<queue[i]>>]
           labelPackets == [i \in 1..Len(queue) |-> label(i)]
           items == Packets(n, queue)
<1>1. /\ n \in Nat /\ n < LengthMod /\ 1 < LengthMod /\ LengthMod \in Nat
      /\ MaxElements \in Nat /\ Len(queue) \in Nat
  BY ShortAssumption, SocketAssumption, StreamAssumption
<1>2. buffer \in Item
<2>1. [i \in 1..n |-> taken + i] \in Seq(Nat) /\ Len([i \in 1..n |-> taken + i]) = n
  BY <1>1
<2>2. [i \in 1..n |-> taken + i] \in Short
  BY <1>1, <2>1 DEF Short
<2>3. QED BY <2>2 DEF Item, Kinds
<1>3. ASSUME NEW i \in 1..Len(queue)
      PROVE  queue[i] \in Nat /\ taken < queue[i] /\ label(i) \in Item
<2>1. queue[i] \in taken + 1..MaxElements
<3>1. \A S : \A s \in Seq(S) : \A k \in 1..Len(s) : s[k] \in S
  OBVIOUS
<3>2. QED BY <3>1
<2>2. queue[i] \in Nat /\ taken < queue[i] /\ queue[i] - 1 \in Nat
  BY <1>1, <2>1
<2>3. <<queue[i]>> \in Seq(Nat) /\ Len(<<queue[i]>>) = 1
  BY <2>2
<2>4. <<queue[i]>> \in Short
  BY <1>1, <2>3 DEF Short
<2>5. QED BY <2>2, <2>4 DEF Item, Kinds
<1>4. items = Append(labelPackets, buffer)
  BY DEF Packets
<1> HIDE DEF buffer, label
<1>5. /\ labelPackets \in Seq(Item) /\ Len(labelPackets) = Len(queue)
      /\ \A i \in 1..Len(queue) : labelPackets[i] = label(i)
  BY <1>1, <1>3
<1> HIDE DEF labelPackets, items
<1>6. /\ items \in Seq(Item) /\ Len(items) = Len(queue) + 1
      /\ items[Len(queue) + 1] = buffer
      /\ \A i \in 1..Len(queue) : items[i] = label(i)
  BY <1>1, <1>2, <1>4, <1>5
<1>7. QED BY <1>3, <1>6 DEF items, buffer, label

\* What work() of the sink takes and will send
LEMMA WorkFacts ==
    ASSUME SinkWork
    PROVE  \E n \in 1..MaxBuffer, queue \in Seq(taken + 1..MaxElements) :
               todo' = Packets(n, queue) /\ taken' = taken + n
<1>1. PICK n \in 1..MaxBuffer, m \in 0..MaxLabels :
          \E queue \in [1..m -> taken + 1..MaxElements] :
              todo' = Packets(n, queue) /\ taken' = taken + n
  BY DEF SinkWork
<1>2. PICK queue \in [1..m -> taken + 1..MaxElements] :
          todo' = Packets(n, queue) /\ taken' = taken + n
  BY <1>1
<1>3. m \in Nat
  OBVIOUS
<1>4. queue \in Seq(taken + 1..MaxElements)
<2> DEFINE S == taken + 1..MaxElements
<2>1. queue \in [1..m -> S]
  BY <1>2
<2> HIDE DEF S
<2>2. queue \in Seq(S)
  BY <1>3, <2>1
<2>3. QED BY <2>2 DEF S
<1>5. QED BY <1>2, <1>4

LEMMA SinkWorkKeepsCounts ==
    ASSUME Counted, SinkWork PROVE Counted'
<1>1. PICK n \in 1..MaxBuffer, queue \in Seq(taken + 1..MaxElements) :
          todo' = Packets(n, queue) /\ taken' = taken + n
  BY WorkFacts
<1>2. /\ taken \in Nat /\ n \in Nat /\ phase["sink"] = "on"
      /\ UNCHANGED <<end, net, phase, length, output, nextExpectedIndex, opens, failures, dropped, parted>>
  BY DEF Counted, Types, SinkWork, history
<1>3. todo' \in Seq(Item) /\ taken' \in Nat
<2>1. Packets(n, queue) \in Seq(Item)
  BY <1>2, PacketsFacts, Zenon
<2>2. QED BY <1>1, <1>2, <2>1
<1>4. Types'
  BY <1>2, <1>3 DEF Counted, Types
<1>5. Sessions'
  BY <1>2 DEF Counted, Sessions, Possible
<1>6. InStep'
  BY <1>2 DEF Counted, InStep
<1>7. QED BY <1>4, <1>5, <1>6 DEF Counted

LEMMA StepKeepsCounts == Counted /\ [Next]_vars => Counted'
<1> SUFFICES ASSUME Counted, [Next]_vars PROVE Counted'
  OBVIOUS
<1>1. CASE UNCHANGED vars
  BY <1>1 DEF vars, blocks, history, Counted, Types, Sessions, Possible, InStep
<1>2. ASSUME NEW e \in Ends, Activate(e) PROVE Counted'
  BY <1>2, ActivateKeepsCounts
<1>3. ASSUME NEW e \in Ends, OpenEnds(e) \/ CloseEnds(e) \/ OpenTimesOut(e) \/ CloseTimesOut(e)
      PROVE  Counted'
  BY <1>3, EndsKeepCounts
<1>4. ASSUME NEW e \in Ends, Deactivate(e) PROVE Counted'
  BY <1>4, DeactivateKeepsCounts
<1>5. ASSUME NEW e \in Ends, HandshakeRecv(e) PROVE Counted'
  BY <1>5, HandshakeRecvKeepsCounts
<1>6. QED
  BY <1>1, <1>2, <1>3, <1>4, <1>5, SinkWorkKeepsCounts, SinkSendKeepsCounts,
     SinkHandleStateKeepsCounts, SourceWorkKeepsCounts DEF Next

THEOREM AlwaysCounted == Spec => []Counted
<1>1. QED BY InitCounts, StepKeepsCounts, PTL DEF Spec

\* The next packet always has the count that unpackHeader() demands, over any
\* number of sessions and of failed handshakes: "packetCount fail" is never
\* thrown (CountsInSync).
THEOREM CountsStayInSync == Spec => []CountsInSync
<1>1. Counted => CountsInSync
<2> SUFFICES ASSUME Counted, NEW e \in Ends, net[e] # <<>>
             PROVE  Head(net[e]).packetCount = Expected(end[e], Head(net[e]))
  BY DEF CountsInSync
<2>1. net[e] \in Seq(Packet) /\ InTurn(end[e].nextRecvPacketCount, net[e])
  BY DEF Counted, Types, InStep, Direction
<2>2. "Syn" \in Head(net[e]).flags \/ Head(net[e]).packetCount = end[e].nextRecvPacketCount
  BY <2>1, TailTurn
<2>3. QED BY <2>2 DEF Expected
<1>2. QED BY <1>1, AlwaysCounted, PTL

(***************************************************************************)
(* Elements and labels stay in order.                                      *)
(***************************************************************************)

\* Where the packet may take the stream: the numbers of its elements, and the
\* index after it
Reach(p) == IF p.type = "Buffer" THEN {p.index + Len(p.payload)} \cup Range(p.payload) ELSE {}

\* Does p not lie before index m?
From(p, m) == p.type \in {"Buffer", "Label"} => m <= p.index

Precedes(p, q) == \A m \in Reach(p) : From(q, m)

\* A packet of the sink that has not been touched since
Fresh(p) ==
    /\ p.type = "none" => p.payload = <<>>
    /\ p.type = "Label" => p.payload = <<p.index + 1>>
    /\ p.type = "Buffer" => p.payload # <<>> /\ \A k \in 1..Len(p.payload) : p.payload[k] = p.index + k

\* A packet of which a part has been taken
Begun(p) ==
    /\ p.type # "Buffer" => p.payload = <<>>
    /\ \A k \in 1..Len(p.payload) : p.payload[k] = p.payload[1] + k - 1 /\ p.index < p.payload[1]

\* The packets first, and then last, in order, and after the numbers of M; top
\* elements have been numbered.
Line(M, first, last, top) ==
    /\ \A m \in M : /\ m <= top
                    /\ \A i \in 1..Len(first) : From(first[i], m)
                    /\ \A i \in 1..Len(last) : From(last[i], m)
    /\ \A i \in 1..Len(first) :
          /\ Fresh(first[i]) /\ \A m \in Reach(first[i]) : m <= top
          /\ \A j \in i + 1..Len(first) : Precedes(first[i], first[j])
          /\ \A j \in 1..Len(last) : Precedes(first[i], last[j])
    /\ \A i \in 1..Len(last) :
          /\ Fresh(last[i]) /\ \A m \in Reach(last[i]) : m <= top
          /\ \A j \in i + 1..Len(last) : Precedes(last[i], last[j])

\* The elements of packets
Carried(packets) == UNION {Elements(packets[i]) : i \in 1..Len(packets)}

Coming == Elements(InHand) \cup Carried(net["source"]) \cup Carried(todo)

InOrder ==
    /\ Line(Range(output) \cup {nextExpectedIndex} \cup Reach(InHand), net["source"], todo, taken)
    /\ Begun(InHand)
    /\ \A i \in 1..Len(output) : \A j \in i + 1..Len(output) : output[i] < output[j]
    /\ \A a \in Range(output) : \A b \in Elements(InHand) : a < b

Complete ==
    /\ ~dropped => /\ \A i \in 1..Len(output) : output[i] = i
                   /\ Range(output) \cup Coming = 1..taken
    /\ ~dropped /\ ~parted => InHand.payload = <<>> /\ nextExpectedIndex = Len(output)

Streaming == Counted /\ InOrder /\ Complete /\ LabelsKeepTheirElement

LEMMA ReachIsNumbers ==
    ASSUME NEW p, p.index \in Nat, p.payload \in Seq(Nat)
    PROVE  Reach(p) \subseteq Nat
<1>1. Len(p.payload) \in Nat /\ Range(p.payload) \subseteq Nat
  BY DEF Range
<1>2. QED BY <1>1 DEF Reach

\* Numbers that are not beyond those of M may take their place.
LEMMA LineAfterLess ==
    ASSUME NEW first \in Seq(Packet), NEW last \in Seq(Item), NEW top \in Nat,
           NEW M \in SUBSET Nat, NEW N \in SUBSET Nat, Line(M, first, last, top),
           \A m \in N : \E k \in M : m <= k
    PROVE  Line(N, first, last, top)
<1>1. ASSUME NEW m \in N
      PROVE  /\ m <= top
             /\ \A i \in 1..Len(first) : From(first[i], m)
             /\ \A i \in 1..Len(last) : From(last[i], m)
<2>1. PICK k \in M : m <= k
  OBVIOUS
<2>2. /\ k <= top
      /\ \A i \in 1..Len(first) : From(first[i], k)
      /\ \A i \in 1..Len(last) : From(last[i], k)
  BY DEF Line
<2>3. /\ \A i \in 1..Len(first) : first[i].index \in Nat
      /\ \A i \in 1..Len(last) : last[i].index \in Nat
<3>1. /\ \A i \in 1..Len(first) : first[i] \in Packet
      /\ \A i \in 1..Len(last) : last[i] \in Item
  OBVIOUS
<3>2. QED BY <3>1 DEF Packet, Item
<2>4. m \in Nat /\ k \in Nat
  OBVIOUS
<2>5. QED BY <2>1, <2>2, <2>3, <2>4 DEF From
<1>2. QED BY <1>1 DEF Line

\* Bare packets do not take part.
LEMMA BareIsNeutral ==
    ASSUME NEW p, p.type = "none", p.payload = <<>>
    PROVE  /\ Fresh(p) /\ Reach(p) = {} /\ Elements(p) = {}
           /\ \A m : From(p, m)
  BY DEF Fresh, Reach, Elements, From

LEMMA LineWithBare ==
    ASSUME NEW first \in Seq(Packet), NEW last \in Seq(Item), NEW top, NEW M,
           NEW out \in Seq(Packet), Bare(out), Line(M, first, last, top)
    PROVE  Line(M, first \o out, last, top) /\ Carried(first \o out) = Carried(first)
<1> DEFINE longer == first \o out
<1>1. /\ Len(longer) = Len(first) + Len(out) /\ Len(first) \in Nat /\ Len(out) \in Nat
      /\ \A i \in 1..Len(first) : longer[i] = first[i]
      /\ \A i \in 1..Len(out) : longer[Len(first) + i] = out[i]
  OBVIOUS
<1> HIDE DEF longer
<1>2. ASSUME NEW i \in 1..Len(longer), i \notin 1..Len(first)
      PROVE  /\ Fresh(longer[i]) /\ Reach(longer[i]) = {} /\ Elements(longer[i]) = {}
             /\ \A m : From(longer[i], m)
<2>1. i - Len(first) \in 1..Len(out) /\ i = Len(first) + (i - Len(first))
  BY <1>1, <1>2
<2>2. longer[i] = out[i - Len(first)]
  BY <1>1, <2>1
<2>3. QED BY <2>1, <2>2, BareIsNeutral DEF Bare
<1>3. ASSUME NEW m \in M
      PROVE  /\ m <= top
             /\ \A i \in 1..Len(longer) : From(longer[i], m)
             /\ \A i \in 1..Len(last) : From(last[i], m)
  BY <1>1, <1>2 DEF Line
<1>4. ASSUME NEW i \in 1..Len(longer)
      PROVE  /\ Fresh(longer[i]) /\ \A m \in Reach(longer[i]) : m <= top
             /\ \A j \in i + 1..Len(longer) : Precedes(longer[i], longer[j])
             /\ \A j \in 1..Len(last) : Precedes(longer[i], last[j])
<2>1. CASE i \in 1..Len(first)
<3>1. longer[i] = first[i]
  BY <1>1, <2>1
<3>2. /\ Fresh(first[i]) /\ \A m \in Reach(first[i]) : m <= top
      /\ \A j \in i + 1..Len(first) : Precedes(first[i], first[j])
      /\ \A j \in 1..Len(last) : Precedes(first[i], last[j])
  BY <2>1 DEF Line
<3>3. ASSUME NEW j \in i + 1..Len(longer) PROVE Precedes(first[i], longer[j])
<4>1. j \in 1..Len(longer) /\ (j \in 1..Len(first) => j \in i + 1..Len(first))
  BY <1>1
<4>2. CASE j \in 1..Len(first)
  BY <1>1, <3>2, <4>1, <4>2
<4>3. CASE j \notin 1..Len(first)
  BY <1>2, <4>1, <4>3 DEF Precedes
<4>4. QED BY <4>2, <4>3
<3>4. QED BY <3>1, <3>2, <3>3
<2>2. CASE i \notin 1..Len(first)
  BY <1>2, <2>2 DEF Precedes
<2>3. QED BY <2>1, <2>2
<1>5. Line(M, longer, last, top)
  BY <1>3, <1>4 DEF Line
<1>6. Carried(longer) = Carried(first)
<2>1. ASSUME NEW a \in Carried(longer) PROVE a \in Carried(first)
<3>1. PICK i \in 1..Len(longer) : a \in Elements(longer[i])
  BY DEF Carried
<3>2. i \in 1..Len(first)
  BY <1>2, <3>1
<3>3. QED BY <1>1, <3>1, <3>2 DEF Carried
<2>2. ASSUME NEW a \in Carried(first) PROVE a \in Carried(longer)
<3>1. PICK i \in 1..Len(first) : a \in Elements(first[i])
  BY DEF Carried
<3>2. i \in 1..Len(longer) /\ longer[i] = first[i]
  BY <1>1
<3>3. QED BY <3>1, <3>2 DEF Carried
<2>3. QED BY <2>1, <2>2
<1>7. QED BY <1>5, <1>6 DEF longer

Same(p, q) == p.type = q.type /\ p.index = q.index /\ p.payload = q.payload

\* The packet that goes from the head of last to the end of first
Moves(M, first, last, top, sent) ==
    /\ first \in Seq(Packet) /\ last \in Seq(Item) /\ last # <<>> /\ sent \in Packet
    /\ Line(M, first, last, top) /\ Same(sent, Head(last))

InLine(M, first, last, top, a, b) ==
    /\ Line(M, first, last, top)
    /\ Carried(first) \cup Carried(last) = Carried(a) \cup Carried(b)

\* The sink sends the next of the packets that it has still to send.
LEMMA LineOfSent ==
    ASSUME NEW M, NEW first, NEW last, NEW top, NEW sent, Moves(M, first, last, top, sent)
    PROVE  InLine(M, Append(first, sent), Tail(last), top, first, last)
<1> DEFINE longer == Append(first, sent)
           rest == Tail(last)
<1>0. /\ first \in Seq(Packet) /\ last \in Seq(Item) /\ last # <<>> /\ sent \in Packet
      /\ Line(M, first, last, top) /\ Same(sent, Head(last))
  BY DEF Moves
<1>1. /\ Len(longer) = Len(first) + 1 /\ Len(first) \in Nat /\ longer[Len(first) + 1] = sent
      /\ \A i \in 1..Len(first) : longer[i] = first[i]
      /\ Len(last) \in Nat \ {0} /\ Len(rest) = Len(last) - 1 /\ Head(last) = last[1]
      /\ \A i \in 1..Len(rest) : rest[i] = last[i + 1]
  BY <1>0
<1> HIDE DEF longer, rest
<1>2. /\ Reach(sent) = Reach(last[1]) /\ Elements(sent) = Elements(last[1])
      /\ Fresh(sent) = Fresh(last[1]) /\ \A m : From(sent, m) = From(last[1], m)
<2> DEFINE q == last[1]
<2>1. Same(sent, q)
  BY <1>0, <1>1
<2> HIDE DEF q
<2>2. Reach(sent) = Reach(q) /\ Elements(sent) = Elements(q)
  BY <2>1 DEF Same, Reach, Elements
<2>3. Fresh(sent) = Fresh(q)
  BY <2>1 DEF Same, Fresh
<2>4. \A m : From(sent, m) = From(q, m)
  BY <2>1 DEF Same, From
<2>5. QED BY <2>2, <2>3, <2>4 DEF q
<1>2a. 1 \in 1..Len(last) /\ \A i \in 1..Len(rest) : i + 1 \in 1..Len(last) /\ i + 1 \in 1 + 1..Len(last)
  BY <1>1
<1>3. ASSUME NEW m \in M
      PROVE  /\ m <= top
             /\ \A i \in 1..Len(longer) : From(longer[i], m)
             /\ \A i \in 1..Len(rest) : From(rest[i], m)
<2>1. /\ m <= top /\ \A i \in 1..Len(first) : From(first[i], m)
      /\ \A i \in 1..Len(last) : From(last[i], m)
  BY <1>0 DEF Line
<2>2. From(sent, m)
  BY <1>2, <1>2a, <2>1
<2>3. \A i \in 1..Len(longer) : i \in 1..Len(first) \/ i = Len(first) + 1
  BY <1>1
<2>4. QED BY <1>1, <1>2a, <2>1, <2>2, <2>3
<1>4. ASSUME NEW i \in 1..Len(longer)
      PROVE  /\ Fresh(longer[i]) /\ \A m \in Reach(longer[i]) : m <= top
             /\ \A j \in i + 1..Len(longer) : Precedes(longer[i], longer[j])
             /\ \A j \in 1..Len(rest) : Precedes(longer[i], rest[j])
<2>1. CASE i \in 1..Len(first)
<3>1. longer[i] = first[i]
  BY <1>1, <2>1
<3>2. /\ Fresh(first[i]) /\ \A m \in Reach(first[i]) : m <= top
      /\ \A j \in i + 1..Len(first) : Precedes(first[i], first[j])
      /\ \A j \in 1..Len(last) : Precedes(first[i], last[j])
  BY <1>0, <2>1 DEF Line
<3>3. ASSUME NEW j \in i + 1..Len(longer) PROVE Precedes(first[i], longer[j])
<4>1. CASE j = Len(first) + 1
  BY <1>1, <1>2, <1>2a, <3>2, <4>1 DEF Precedes
<4>2. CASE j # Len(first) + 1
<5>1. j \in i + 1..Len(first) /\ j \in 1..Len(first)
  BY <1>1, <4>2
<5>2. QED BY <1>1, <3>2, <5>1
<4>3. QED BY <4>1, <4>2
<3>4. \A j \in 1..Len(rest) : Precedes(first[i], rest[j])
  BY <1>1, <1>2a, <3>2
<3>5. QED BY <3>1, <3>2, <3>3, <3>4
<2>2. CASE i = Len(first) + 1
<3>1. longer[i] = sent /\ i + 1..Len(longer) = {}
  BY <1>1, <2>2
<3>2. /\ Fresh(last[1]) /\ \A m \in Reach(last[1]) : m <= top
      /\ \A j \in 1 + 1..Len(last) : Precedes(last[1], last[j])
  BY <1>0, <1>2a DEF Line
<3>3. \A j \in 1..Len(rest) : Precedes(last[1], rest[j])
  BY <1>1, <1>2a, <3>2
<3>4. QED BY <1>2, <3>1, <3>2, <3>3 DEF Precedes
<2>3. QED BY <1>1, <2>1, <2>2
<1>5. ASSUME NEW i \in 1..Len(rest)
      PROVE  /\ Fresh(rest[i]) /\ \A m \in Reach(rest[i]) : m <= top
             /\ \A j \in i + 1..Len(rest) : Precedes(rest[i], rest[j])
<2>1. i + 1 \in 1..Len(last) /\ rest[i] = last[i + 1]
  BY <1>1, <1>2a
<2>2. /\ Fresh(last[i + 1]) /\ \A m \in Reach(last[i + 1]) : m <= top
      /\ \A j \in (i + 1) + 1..Len(last) : Precedes(last[i + 1], last[j])
  BY <1>0, <2>1 DEF Line
<2>3. ASSUME NEW j \in i + 1..Len(rest) PROVE Precedes(rest[i], rest[j])
<3>1. j + 1 \in (i + 1) + 1..Len(last) /\ rest[j] = last[j + 1]
  BY <1>1
<3>2. QED BY <2>1, <2>2, <3>1
<2>4. QED BY <2>1, <2>2, <2>3
<1>6. Line(M, longer, rest, top)
  BY <1>3, <1>4, <1>5 DEF Line
<1>7. Carried(longer) \cup Carried(rest) = Carried(first) \cup Carried(last)
<2>1. ASSUME NEW a \in Carried(longer) PROVE a \in Carried(first) \cup Carried(last)
<3>1. PICK i \in 1..Len(longer) : a \in Elements(longer[i])
  BY DEF Carried
<3>2. CASE i \in 1..Len(first)
  BY <1>1, <3>1, <3>2 DEF Carried
<3>3. CASE i = Len(first) + 1
  BY <1>1, <1>2, <1>2a, <3>1, <3>3 DEF Carried
<3>4. QED BY <1>1, <3>2, <3>3
<2>2. ASSUME NEW a \in Carried(rest) PROVE a \in Carried(last)
<3>1. PICK i \in 1..Len(rest) : a \in Elements(rest[i])
  BY DEF Carried
<3>2. QED BY <1>1, <1>2a, <3>1 DEF Carried
<2>3. ASSUME NEW a \in Carried(first) PROVE a \in Carried(longer)
<3>1. PICK i \in 1..Len(first) : a \in Elements(first[i])
  BY DEF Carried
<3>2. i \in 1..Len(longer) /\ longer[i] = first[i]
  BY <1>1
<3>3. QED BY <3>1, <3>2 DEF Carried
<2>4. ASSUME NEW a \in Carried(last) PROVE a \in Carried(longer) \cup Carried(rest)
<3>1. PICK i \in 1..Len(last) : a \in Elements(last[i])
  BY DEF Carried
<3>2. CASE i = 1
<4>1. Len(first) + 1 \in 1..Len(longer)
  BY <1>1
<4>2. QED BY <1>1, <1>2, <3>1, <3>2, <4>1 DEF Carried
<3>3. CASE i # 1
<4>1. i - 1 \in 1..Len(rest) /\ (i - 1) + 1 = i
  BY <1>1, <3>3
<4>2. rest[i - 1] = last[i]
  BY <1>1, <4>1
<4>3. QED BY <3>1, <4>1, <4>2 DEF Carried
<3>4. QED BY <3>2, <3>3
<2>5. QED BY <2>1, <2>2, <2>3, <2>4
<1>8. QED BY <1>6, <1>7 DEF InLine, longer, rest

\* The source takes the first packet.
LEMMA LineOfTail ==
    ASSUME NEW first \in Seq(Packet), NEW last \in Seq(Item), first # <<>>, NEW top, NEW M,
           Line(M, first, last, top)
    PROVE  /\ Line(M \cup Reach(Head(first)), Tail(first), last, top)
           /\ Fresh(Head(first)) /\ \A m \in M : From(Head(first), m)
           /\ Carried(first) = Elements(Head(first)) \cup Carried(Tail(first))
<1> DEFINE rest == Tail(first)
           N == M \cup Reach(Head(first))
<1>1. /\ Len(first) \in Nat \ {0} /\ Len(rest) = Len(first) - 1 /\ Head(first) = first[1]
      /\ \A i \in 1..Len(rest) : rest[i] = first[i + 1]
  OBVIOUS
<1> HIDE DEF rest
<1>2. 1 \in 1..Len(first) /\ \A i \in 1..Len(rest) : i + 1 \in 1..Len(first) /\ i + 1 \in 1 + 1..Len(first)
  BY <1>1
<1>3. /\ Fresh(first[1]) /\ \A m \in Reach(first[1]) : m <= top
      /\ \A j \in 1 + 1..Len(first) : Precedes(first[1], first[j])
      /\ \A j \in 1..Len(last) : Precedes(first[1], last[j])
  BY <1>2 DEF Line
<1>4. ASSUME NEW m \in N
      PROVE  /\ m <= top
             /\ \A i \in 1..Len(rest) : From(rest[i], m)
             /\ \A i \in 1..Len(last) : From(last[i], m)
<2>1. CASE m \in M
<3>1. /\ m <= top /\ \A i \in 1..Len(first) : From(first[i], m)
      /\ \A i \in 1..Len(last) : From(last[i], m)
  BY <2>1 DEF Line
<3>2. QED BY <1>1, <1>2, <3>1
<2>2. CASE m \in Reach(first[1])
  BY <1>1, <1>2, <1>3, <2>2 DEF Precedes
<2>3. QED BY <1>1, <2>1, <2>2
<1>5. ASSUME NEW i \in 1..Len(rest)
      PROVE  /\ Fresh(rest[i]) /\ \A m \in Reach(rest[i]) : m <= top
             /\ \A j \in i + 1..Len(rest) : Precedes(rest[i], rest[j])
             /\ \A j \in 1..Len(last) : Precedes(rest[i], last[j])
<2>1. i + 1 \in 1..Len(first) /\ rest[i] = first[i + 1]
  BY <1>1, <1>2
<2>2. /\ Fresh(first[i + 1]) /\ \A m \in Reach(first[i + 1]) : m <= top
      /\ \A j \in (i + 1) + 1..Len(first) : Precedes(first[i + 1], first[j])
      /\ \A j \in 1..Len(last) : Precedes(first[i + 1], last[j])
  BY <2>1 DEF Line
<2>3. ASSUME NEW j \in i + 1..Len(rest) PROVE Precedes(rest[i], rest[j])
<3>1. j + 1 \in (i + 1) + 1..Len(first) /\ rest[j] = first[j + 1]
  BY <1>1
<3>2. QED BY <2>1, <2>2, <3>1
<2>4. QED BY <2>1, <2>2, <2>3
<1>6. Line(N, rest, last, top)
<2>1. \A i \in 1..Len(last) :
          /\ Fresh(last[i]) /\ \A m \in Reach(last[i]) : m <= top
          /\ \A j \in i + 1..Len(last) : Precedes(last[i], last[j])
  BY DEF Line
<2>2. QED BY <1>4, <1>5, <2>1 DEF Line
<1>7. \A m \in M : From(Head(first), m)
  BY <1>1, <1>2 DEF Line
<1>8. Carried(first) = Elements(Head(first)) \cup Carried(rest)
<2>1. ASSUME NEW a \in Carried(first) PROVE a \in Elements(Head(first)) \cup Carried(rest)
<3>1. PICK i \in 1..Len(first) : a \in Elements(first[i])
  BY DEF Carried
<3>2. CASE i = 1
  BY <1>1, <3>1, <3>2
<3>3. CASE i # 1
<4>1. i - 1 \in 1..Len(rest) /\ (i - 1) + 1 = i
  BY <1>1, <3>3
<4>2. rest[i - 1] = first[i]
  BY <1>1, <4>1
<4>3. QED BY <3>1, <4>1, <4>2 DEF Carried
<3>4. QED BY <3>2, <3>3
<2>2. ASSUME NEW a \in Carried(rest) PROVE a \in Carried(first)
<3>1. PICK i \in 1..Len(rest) : a \in Elements(rest[i])
  BY DEF Carried
<3>2. QED BY <1>1, <1>2, <3>1 DEF Carried
<2>3. Elements(Head(first)) \subseteq Carried(first)
  BY <1>1, <1>2 DEF Carried
<2>4. QED BY <2>1, <2>2, <2>3
<1>9. QED BY <1>1, <1>3, <1>6, <1>7, <1>8 DEF rest

\* The sink begins to send n elements, and before them any labels.
LEMMA LineOfWork ==
    ASSUME NEW first \in Seq(Packet), NEW M \in SUBSET Nat, taken \in Nat,
           NEW n \in 1..MaxBuffer, NEW queue \in Seq(taken + 1..MaxElements),
           Line(M, first, <<>>, taken)
    PROVE  /\ Line(M, first, Packets(n, queue), taken + n)
           /\ Carried(Packets(n, queue)) = taken + 1..taken + n
<1> DEFINE label(i) == [type |-> "Label", index |-> queue[i] - 1, payload |-> <<queue[i]>>]
           buffer == [type |-> "Buffer", index |-> taken, payload |-> [i \in 1..n |-> taken + i]]
           items == Packets(n, queue)
           numbers == [i \in 1..n |-> taken + i]
           last == Len(queue) + 1
<1>0. n \in Nat /\ n > 0 /\ Len(queue) \in Nat
  BY StreamAssumption
<1>1. /\ numbers \in Seq(Nat) /\ Len(numbers) = n /\ numbers # <<>>
      /\ \A k \in 1..Len(numbers) : numbers[k] = taken + k
      /\ Range(numbers) = taken + 1..taken + n
<2>1. numbers \in Seq(Nat) /\ Len(numbers) = n /\ \A k \in 1..Len(numbers) : numbers[k] = taken + k
  OBVIOUS
<2>2. numbers # <<>>
  BY <2>1
<2>3. Range(numbers) = {taken + i : i \in 1..n}
  BY DEF Range
<2>4. {taken + i : i \in 1..n} = taken + 1..taken + n
<3>1. ASSUME NEW a \in taken + 1..taken + n PROVE \E i \in 1..n : a = taken + i
  <4>1. a - taken \in 1..n /\ a = taken + (a - taken)
    OBVIOUS
  <4>2. QED BY <4>1
<3>2. QED BY <3>1
<2>5. QED BY <2>1, <2>2, <2>3, <2>4
<1> HIDE DEF numbers
<1>2. /\ Fresh(buffer) /\ Reach(buffer) = taken + 1..taken + n
      /\ Elements(buffer) = taken + 1..taken + n
      /\ \A m \in Nat : m <= taken => From(buffer, m)
<2>1. buffer.type = "Buffer" /\ buffer.index = taken /\ buffer.payload = numbers
  BY DEF numbers
<2> HIDE DEF buffer
<2>2. Fresh(buffer)
  BY <1>1, <2>1 DEF Fresh
<2>3. Reach(buffer) = {taken + n} \cup Range(numbers)
  BY <1>1, <2>1 DEF Reach
<2>4. QED BY <1>1, <2>1, <2>2, <2>3 DEF Elements, From
<1>3. /\ Len(items) = last /\ items[last] = buffer
      /\ \A i \in 1..Len(queue) : items[i] = label(i)
  BY PacketsFacts
<1>4. ASSUME NEW i \in 1..Len(queue)
      PROVE  /\ Fresh(label(i)) /\ Reach(label(i)) = {} /\ Elements(label(i)) = {}
             /\ \A m \in Nat : m <= taken => From(label(i), m)
<2>1. queue[i] \in Nat /\ taken <= queue[i] - 1 /\ queue[i] = (queue[i] - 1) + 1
<3>1. queue[i] \in Nat /\ taken < queue[i]
  BY PacketsFacts, Zenon
<3>2. QED BY <3>1
<2>2. /\ label(i).type = "Label" /\ label(i).index = queue[i] - 1
      /\ label(i).payload = <<queue[i]>>
  OBVIOUS
<2> HIDE DEF label
<2>3. QED BY <2>1, <2>2 DEF Fresh, Reach, Elements, From
<1> HIDE DEF label, buffer, items
<1>5. ASSUME NEW i \in 1..Len(items)
      PROVE  \/ i \in 1..Len(queue) /\ items[i] = label(i)
             \/ i = Len(items) /\ i = last /\ items[i] = buffer
<2>1. i \in 1..Len(queue) \/ i = last
  BY <1>0, <1>3
<2>2. QED BY <1>3, <2>1
<1>6. ASSUME NEW i \in 1..Len(items)
      PROVE  /\ Fresh(items[i]) /\ \A m \in Reach(items[i]) : m <= taken + n
             /\ \A m \in Nat : m <= taken => From(items[i], m)
             /\ \A j \in i + 1..Len(items) : Precedes(items[i], items[j])
<2>1. CASE i \in 1..Len(queue) /\ items[i] = label(i)
  BY <1>4, <2>1 DEF Precedes
<2>2. CASE i = Len(items) /\ items[i] = buffer
<3>1. i + 1..Len(items) = {}
  BY <2>2
<3>2. QED BY <1>0, <1>2, <2>2, <3>1
<2>3. QED BY <1>5, <2>1, <2>2
<1>7. ASSUME NEW m \in M
      PROVE  /\ m <= taken + n
             /\ \A i \in 1..Len(first) : From(first[i], m)
             /\ \A i \in 1..Len(items) : From(items[i], m)
<2>1. m \in Nat /\ m <= taken /\ \A i \in 1..Len(first) : From(first[i], m)
  BY DEF Line
<2>2. QED BY <1>6, <2>1
<1>8. ASSUME NEW i \in 1..Len(first)
      PROVE  /\ Fresh(first[i]) /\ \A m \in Reach(first[i]) : m <= taken + n
             /\ \A j \in i + 1..Len(first) : Precedes(first[i], first[j])
             /\ \A j \in 1..Len(items) : Precedes(first[i], items[j])
<2>1. /\ Fresh(first[i]) /\ \A m \in Reach(first[i]) : m <= taken
      /\ \A j \in i + 1..Len(first) : Precedes(first[i], first[j])
  BY DEF Line
<2>2. Reach(first[i]) \subseteq Nat
<3>1. first[i] \in Packet
  OBVIOUS
<3>2. first[i].index \in Nat /\ first[i].payload \in Seq(Nat)
  BY <3>1 DEF Packet
<3>3. QED BY <3>2, ReachIsNumbers
<2>3. \A m \in Reach(first[i]) : m \in Nat /\ m <= taken /\ m <= taken + n
  BY <2>1, <2>2
<2>4. \A j \in 1..Len(items) : Precedes(first[i], items[j])
  BY <1>6, <2>3 DEF Precedes
<2>5. QED BY <2>1, <2>3, <2>4
<1>9. Line(M, first, items, taken + n)
  BY <1>6, <1>7, <1>8 DEF Line
<1>10. Carried(items) = taken + 1..taken + n
<2>1. ASSUME NEW i \in 1..Len(items) PROVE Elements(items[i]) \subseteq taken + 1..taken + n
  BY <1>2, <1>4, <1>5
<2>2. last \in 1..Len(items) /\ Elements(items[last]) = taken + 1..taken + n
  BY <1>0, <1>2, <1>3
<2>3. QED BY <2>1, <2>2 DEF Carried
<1>11. QED BY <1>9, <1>10 DEF items

\* A part of a packet, and what it leaves
LEMMA PartFacts ==
    ASSUME NEW p, p.index \in Nat, p.payload \in Seq(Nat), NEW n \in 0..Len(p.payload),
           p.type # "Buffer" => n = Len(p.payload),
           p.type = "Buffer" => \A k \in 1..Len(p.payload) :
                p.payload[k] = p.payload[1] + k - 1 /\ p.index < p.payload[1]
    PROVE  LET data == SubSeq(p.payload, 1, n)
               left == [type |-> p.type, index |-> p.index,
                        payload |-> SubSeq(p.payload, n + 1, Len(p.payload))]
           IN  /\ left.payload \in Seq(Nat) /\ Begun(left)
               /\ data \in Seq(Nat) /\ Len(data) = n
               /\ \A m \in Reach(left) : \E k \in Reach(p) : m <= k
               /\ p.type # "Buffer" => left.payload = <<>>
               /\ p.type = "Buffer" =>
                    /\ \A k \in 1..n : data[k] = p.payload[1] + k - 1
                    /\ Range(data) \subseteq Reach(p)
                    /\ p.index + n <= p.index + Len(p.payload)
                    /\ p.index + Len(p.payload) \in Reach(p)
                    /\ Range(data) \cup Elements(left) = Elements(p)
                    /\ \A a \in Range(data) : \A b \in Elements(left) : a < b
<1> DEFINE size == Len(p.payload)
           data == SubSeq(p.payload, 1, n)
           rest == SubSeq(p.payload, n + 1, size)
           left == [type |-> p.type, index |-> p.index, payload |-> rest]
<1>1. size \in Nat /\ n \in Nat /\ n <= size
  OBVIOUS
<1>2. data \in Seq(Nat) /\ Len(data) = n /\ \A k \in 1..n : data[k] = p.payload[k]
  BY <1>1
<1>3. rest \in Seq(Nat) /\ Len(rest) = size - n /\ \A k \in 1..Len(rest) : rest[k] = p.payload[n + k]
  BY <1>1
<1>4. left.type = p.type /\ left.index = p.index /\ left.payload = rest
  OBVIOUS
<1> HIDE DEF left, data, rest
<1>5. p.type # "Buffer" => rest = <<>>
  BY <1>1, <1>3
<1>6. ASSUME p.type = "Buffer", NEW k \in 1..size
      PROVE  p.payload[k] = p.payload[1] + k - 1 /\ p.index < p.payload[1] /\ p.payload[1] \in Nat
             /\ p.payload[k] \in Nat
<2>1. 1 \in 1..size
  BY <1>1
<2>2. p.payload[1] \in Nat /\ p.payload[k] \in Nat
<3>1. \A s \in Seq(Nat) : \A i \in 1..Len(s) : s[i] \in Nat
  OBVIOUS
<3>2. QED BY <2>1, <3>1
<2>3. p.payload[k] = p.payload[1] + k - 1 /\ p.index < p.payload[1]
  BY <1>6
<2>4. QED BY <2>2, <2>3
<1>7. ASSUME p.type = "Buffer", NEW k \in 1..Len(rest)
      PROVE  rest[k] = p.payload[1] + n + k - 1 /\ p.index < rest[1] /\ rest[k] = rest[1] + k - 1
<2>1. n + k \in 1..size /\ n + 1 \in 1..size /\ 1 \in 1..Len(rest)
<3>1. Len(rest) = size - n /\ k \in 1..Len(rest) /\ size \in Nat /\ n \in 0..size
  BY <1>1, <1>3
<3>2. QED BY <3>1
<2>2. p.payload[n + k] = p.payload[1] + (n + k) - 1 /\ p.payload[n + 1] = p.payload[1] + (n + 1) - 1
      /\ p.index < p.payload[1] /\ p.payload[1] \in Nat
  BY <1>6, <1>7, <2>1
<2>3. rest[k] = p.payload[n + k] /\ rest[1] = p.payload[n + 1]
  BY <1>3, <2>1
<2> DEFINE b == p.payload[1]
           i == p.index
<2>4. rest[k] = b + (n + k) - 1 /\ rest[1] = b + (n + 1) - 1 /\ i < b /\ b \in Nat /\ i \in Nat
      /\ k \in Nat
  BY <1>3, <2>2, <2>3
<2> HIDE DEF b, i
<2>5. rest[k] = b + n + k - 1 /\ i < rest[1] /\ rest[k] = rest[1] + k - 1
<3> DEFINE u == rest[k]
           v == rest[1]
<3>1. u = b + (n + k) - 1 /\ v = b + (n + 1) - 1 /\ i < b /\ b \in Nat /\ i \in Nat /\ k \in Nat /\ n \in Nat
  BY <1>1, <2>4
<3> HIDE DEF u, v
<3>2. u = b + n + k - 1 /\ i < v /\ u = v + k - 1
  BY <3>1
<3>3. QED BY <3>2 DEF u, v
<2>6. QED BY <2>5 DEF b, i
<1>8. Begun(left)
<2>1. CASE p.type = "Buffer"
  BY <1>4, <1>7, <2>1 DEF Begun
<2>2. CASE p.type # "Buffer"
  BY <1>4, <1>5, <2>2 DEF Begun
<2>3. QED BY <2>1, <2>2
<1>9. Range(data) = {data[k] : k \in 1..n} /\ Range(rest) = {rest[k] : k \in 1..Len(rest)}
      /\ Range(p.payload) = {p.payload[k] : k \in 1..size}
<2>1. DOMAIN data = 1..n /\ DOMAIN rest = 1..Len(rest) /\ DOMAIN p.payload = 1..size
  BY <1>2, <1>3
<2>2. QED BY <2>1 DEF Range
<1>10. Range(data) \cup Range(rest) = Range(p.payload)
<2>1. ASSUME NEW k \in 1..n PROVE data[k] \in Range(p.payload)
<3>1. k \in 1..size
  BY <1>1
<3>2. QED BY <1>2, <1>9, <3>1
<2>2. ASSUME NEW k \in 1..Len(rest) PROVE rest[k] \in Range(p.payload)
<3>1. n + k \in 1..size
  BY <1>1, <1>3
<3>2. QED BY <1>3, <1>9, <3>1
<2>3. ASSUME NEW k \in 1..size PROVE p.payload[k] \in Range(data) \cup Range(rest)
<3>1. CASE k <= n
  BY <1>1, <1>2, <1>9, <3>1
<3>2. CASE n < k
<4>1. k - n \in 1..Len(rest) /\ n + (k - n) = k
  BY <1>1, <1>3, <3>2
<4>2. rest[k - n] = p.payload[k]
  BY <1>3, <4>1
<4>3. QED BY <1>9, <4>1, <4>2
<3>3. QED BY <1>1, <3>1, <3>2
<2>4. Range(data) \subseteq Range(p.payload)
  BY ONLY <1>9, <2>1
<2>5. Range(rest) \subseteq Range(p.payload)
  BY ONLY <1>9, <2>2
<2>6. Range(p.payload) \subseteq Range(data) \cup Range(rest)
  BY ONLY <1>9, <2>3
<2>7. QED BY ONLY <2>4, <2>5, <2>6
<1>11. ASSUME NEW m \in Reach(left) PROVE \E k \in Reach(p) : m <= k
<2>1. p.type = "Buffer" /\ m \in {p.index + Len(rest)} \cup Range(rest)
  BY <1>4 DEF Reach
<2>2. CASE m = p.index + Len(rest)
<3>1. p.index + size \in Reach(p) /\ m <= p.index + size
  BY <1>1, <1>3, <2>1, <2>2 DEF Reach
<3>2. QED BY <3>1
<2>3. CASE m \in Range(rest)
<3>1. m \in Reach(p)
  BY <1>10, <2>1, <2>3 DEF Reach
<3>2. m \in Nat
  BY <3>1, ReachIsNumbers
<3>3. QED BY <3>1, <3>2
<2>4. QED BY <2>1, <2>2, <2>3
<1>12. ASSUME p.type = "Buffer"
       PROVE  /\ \A k \in 1..n : data[k] = p.payload[1] + k - 1
              /\ Range(data) \subseteq Reach(p)
              /\ p.index + n <= p.index + Len(p.payload)
              /\ p.index + Len(p.payload) \in Reach(p)
              /\ Range(data) \cup Elements(left) = Elements(p)
              /\ \A a \in Range(data) : \A b \in Elements(left) : a < b
<2>1. \A k \in 1..n : k \in 1..size
  BY <1>1
<2>2. \A k \in 1..n : data[k] = p.payload[1] + k - 1
  BY <1>2, <1>6, <1>12, <2>1
<2>3. Elements(left) = Range(rest) /\ Elements(p) = Range(p.payload)
  BY <1>4, <1>12 DEF Elements
<2>4. ASSUME NEW k \in 1..n, NEW j \in 1..Len(rest) PROVE data[k] < rest[j]
<3>1. k \in 1..size
  BY <1>1
<3>2. p.payload[1] \in Nat
  BY <1>6, <1>12, <3>1
<3>3. rest[j] = p.payload[1] + n + j - 1
  BY <1>7, <1>12
<3> DEFINE b == p.payload[1]
<3>4. data[k] = b + k - 1 /\ rest[j] = b + n + j - 1 /\ b \in Nat /\ j \in Nat \ {0}
<4>1. data[k] = b + k - 1
  BY <2>2
<4>2. j \in Nat \ {0}
<5>1. Len(rest) \in Nat
  BY <1>3
<5>2. QED BY <5>1
<4>3. QED BY <3>2, <3>3, <4>1, <4>2
<3> HIDE DEF b
<3>5. QED BY <1>1, <3>4
<2>5. \A a \in Range(data) : \A b \in Range(rest) : a < b
  BY <1>9, <2>4
<2>6. QED BY <1>1, <1>10, <1>12, <2>2, <2>3, <2>5 DEF Reach
<1>13. QED BY <1>2, <1>3, <1>4, <1>5, <1>8, <1>11, <1>12 DEF left, data, rest

\* The packet that the source takes from next, whole or what is left of it
Taking ==
    LET part == Packaged(end["source"], net["source"])
    IN  [type |-> part.type, index |-> part.index, payload |-> part.rest]

\* What the source has behind it when it takes from p
Behind(p) == Range(output) \cup {nextExpectedIndex} \cup Reach(p)

LEMMA HandTypes ==
    ASSUME Counted
    PROVE  /\ InHand.type = end["source"].part.type /\ InHand.index = end["source"].part.index
           /\ InHand.payload = end["source"].part.rest
           /\ InHand.type \in Kinds /\ InHand.index \in Nat /\ InHand.payload \in Seq(Nat)
           /\ net["source"] \in Seq(Packet) /\ todo \in Seq(Item) /\ taken \in Nat
           /\ output \in Seq(Nat) /\ nextExpectedIndex \in Nat
           /\ Range(output) \subseteq Nat /\ Behind(InHand) \subseteq Nat
<1>1. /\ InHand.type = end["source"].part.type /\ InHand.index = end["source"].part.index
      /\ InHand.payload = end["source"].part.rest
  BY DEF InHand
<1>2. end["source"] \in Endpoint /\ net["source"] \in Seq(Packet)
  BY DEF Counted, Types, Ends
<1>3. end["source"].part \in [type : Kinds, index : Nat, rest : Seq(Nat)]
  BY <1>2 DEF Endpoint
<1>4. InHand.type \in Kinds /\ InHand.index \in Nat /\ InHand.payload \in Seq(Nat)
  BY <1>1, <1>3
<1>5. todo \in Seq(Item) /\ taken \in Nat /\ output \in Seq(Nat) /\ nextExpectedIndex \in Nat
  BY DEF Counted, Types
<1>6. Range(output) \subseteq Nat /\ Reach(InHand) \subseteq Nat
  BY <1>4, <1>5, ReachIsNumbers DEF Range
<1>7. QED BY <1>1, <1>2, <1>4, <1>5, <1>6 DEF Behind

LEMMA SourceTakes ==
    ASSUME Counted, InOrder, isRecvReady("source"), NEW room \in Nat,
           Receives("source", recv(end["source"], net["source"], room))
    PROVE  LET x == recv(end["source"], net["source"], room)
               p == Taking
               isNew == InHand.payload = <<>>
           IN  /\ p.type \in Kinds /\ p.index \in Nat /\ p.payload \in Seq(Nat)
               /\ x.length \in 0..Len(p.payload)
               /\ p.type # "Buffer" => x.length = Len(p.payload)
               /\ x.type = p.type /\ x.index = p.index /\ x.data = SubSeq(p.payload, 1, x.length)
               /\ InHand' = [type |-> p.type, index |-> p.index,
                             payload |-> SubSeq(p.payload, x.length + 1, Len(p.payload))]
               /\ x.end.part.rest = SubSeq(p.payload, x.length + 1, Len(p.payload))
               /\ Line(Behind(p), net'["source"], todo, taken)
               /\ p.type = "Buffer" => \A k \in 1..Len(p.payload) :
                     p.payload[k] = p.payload[1] + k - 1 /\ p.index < p.payload[1]
               /\ \A a \in Range(output) : \A b \in Elements(p) : a < b
               /\ Coming = Elements(p) \cup Carried(net'["source"]) \cup Carried(todo)
               /\ ~isNew => p.type = "Buffer"
               /\ isNew => Fresh(p) /\ From(p, nextExpectedIndex)
<1> DEFINE e == end["source"]
           n == net["source"]
           x == recv(e, n, room)
           part == Packaged(e, n)
           isNew == InHand.payload = <<>>
<1>1. /\ "source" \in Ends /\ "sink" \in Ends /\ Peer("source") = "sink"
      /\ end \in [Ends -> Endpoint] /\ net \in [Ends -> Seq(Packet)]
      /\ e \in Endpoint /\ n \in Seq(Packet)
  BY DEF Counted, Types, Ends, Peer
<1>2. n # <<>> \/ e.part.rest # <<>>
  BY DEF isRecvReady
<1> HIDE DEF e, n
<1>3. /\ x.end \in Endpoint
      /\ x.packets = IF e.part.rest = <<>> THEN Tail(n) ELSE n
      /\ x.type = part.type /\ x.index = part.index
      /\ x.length \in 0..Len(part.rest) /\ (part.type # "Buffer" => x.length = Len(part.rest))
      /\ x.data = SubSeq(part.rest, 1, x.length)
      /\ x.end.part = [type |-> part.type, index |-> part.index,
                       rest |-> SubSeq(part.rest, x.length + 1, Len(part.rest))]
  BY <1>1, <1>2, ReceiveFacts
<1> HIDE DEF x, part
<1>4. /\ Taking.type = part.type /\ Taking.index = part.index /\ Taking.payload = part.rest
  BY DEF Taking, part, e, n
<1>5. /\ end'["source"] = x.end /\ net'["source"] = x.packets
<2>1. /\ end' = [end EXCEPT !["source"] = x.end]
      /\ net' = [net EXCEPT !["sink"] = @ \o x.out, !["source"] = x.packets]
  BY <1>1 DEF Receives, x, e, n
<2>2. QED BY <1>1, <2>1
<1>6. /\ InHand' = [type |-> Taking.type, index |-> Taking.index,
                    payload |-> SubSeq(Taking.payload, x.length + 1, Len(Taking.payload))]
      /\ x.end.part.rest = SubSeq(Taking.payload, x.length + 1, Len(Taking.payload))
<2>1. InHand' = [type |-> x.end.part.type, index |-> x.end.part.index, payload |-> x.end.part.rest]
  BY <1>5 DEF InHand
<2> DEFINE rest == SubSeq(part.rest, x.length + 1, Len(part.rest))
           type == part.type
           index == part.index
<2>2. x.end.part = [type |-> type, index |-> index, rest |-> rest]
  BY <1>3
<2> HIDE DEF rest, type, index
<2>3. x.end.part.type = type /\ x.end.part.index = index /\ x.end.part.rest = rest
  BY <2>2
<2>4. QED BY <1>4, <2>1, <2>3 DEF rest, type, index
<1>7. /\ InHand.type = e.part.type /\ InHand.index = e.part.index /\ InHand.payload = e.part.rest
      /\ InHand.type \in Kinds /\ InHand.index \in Nat /\ InHand.payload \in Seq(Nat)
      /\ todo \in Seq(Item) /\ nextExpectedIndex \in Nat /\ Range(output) \subseteq Nat
      /\ taken \in Nat /\ Behind(InHand) \subseteq Nat
  BY HandTypes DEF e
<1>8. Line(Behind(InHand), n, todo, taken) /\ Begun(InHand)
      /\ \A a \in Range(output) : \A b \in Elements(InHand) : a < b
  BY DEF InOrder, Behind, n
<1> DEFINE p == Taking
           queue == net'["source"]
           Place ==
               /\ p.type \in Kinds /\ p.index \in Nat /\ p.payload \in Seq(Nat)
               /\ Line(Behind(p), queue, todo, taken)
               /\ p.type = "Buffer" => \A k \in 1..Len(p.payload) :
                     p.payload[k] = p.payload[1] + k - 1 /\ p.index < p.payload[1]
               /\ \A a \in Range(output) : \A b \in Elements(p) : a < b
               /\ Coming = Elements(p) \cup Carried(queue) \cup Carried(todo)
               /\ ~isNew => p.type = "Buffer"
               /\ isNew => Fresh(p) /\ From(p, nextExpectedIndex)
<1>9. ASSUME isNew PROVE Place
<2>1. n # <<>> /\ Head(n) \in Packet /\ x.packets = Tail(n)
  BY <1>1, <1>2, <1>3, <1>7, <1>9
<2>2. p.type = Head(n).type /\ p.index = Head(n).index /\ p.payload = Head(n).payload
  BY <1>4, <1>7, <1>9 DEF Packaged, part
<2>3. p.type \in Kinds /\ p.index \in Nat /\ p.payload \in Seq(Nat)
  BY <2>1, <2>2 DEF Packet
<2>4. /\ Reach(p) = Reach(Head(n)) /\ Elements(p) = Elements(Head(n))
      /\ Fresh(p) = Fresh(Head(n)) /\ \A m : From(p, m) = From(Head(n), m)
  BY <2>2 DEF Reach, Elements, Fresh, From
<2> HIDE DEF p
<2>5. /\ Line(Behind(InHand) \cup Reach(Head(n)), Tail(n), todo, taken)
      /\ Fresh(Head(n)) /\ \A m \in Behind(InHand) : From(Head(n), m)
      /\ Carried(n) = Elements(Head(n)) \cup Carried(Tail(n))
  BY <1>1, <1>7, <1>8, <2>1, LineOfTail
<2>6. Line(Behind(p), queue, todo, taken)
<3>1. Reach(p) \subseteq Nat /\ Behind(p) \subseteq Behind(InHand) \cup Reach(p)
  BY <2>3, ReachIsNumbers DEF Behind
<3>2. Tail(n) \in Seq(Packet)
  BY <1>1, <2>1
<3>3. \A m \in Behind(p) : \E k \in Behind(InHand) \cup Reach(p) : m <= k
<4>1. \A m \in Behind(p) : m <= m
  BY <1>7, <3>1
<4>2. QED BY <3>1, <4>1
<3> DEFINE M == Behind(InHand) \cup Reach(p)
           N == Behind(p)
<3>4. M \in SUBSET Nat /\ N \in SUBSET Nat /\ Line(M, Tail(n), todo, taken)
  BY <1>7, <2>4, <2>5, <3>1
<3> HIDE DEF M, N
<3>5. \A m \in N : \E k \in M : m <= k
  BY <3>3 DEF M, N
<3>6. Line(N, Tail(n), todo, taken)
  BY <1>7, <3>2, <3>4, <3>5, LineAfterLess
<3>7. QED BY <1>5, <2>1, <3>6 DEF N
<2>7. p.type = "Buffer" => \A k \in 1..Len(p.payload) :
          p.payload[k] = p.payload[1] + k - 1 /\ p.index < p.payload[1]
<3>1. ASSUME p.type = "Buffer", NEW k \in 1..Len(p.payload)
      PROVE  p.payload[k] = p.payload[1] + k - 1 /\ p.index < p.payload[1]
<4>1. p.payload # <<>> /\ \A i \in 1..Len(p.payload) : p.payload[i] = p.index + i
  BY <2>4, <2>5, <3>1 DEF Fresh
<4>2. 1 \in 1..Len(p.payload)
  BY <2>3, <4>1
<4>3. p.payload[k] = p.index + k /\ p.payload[1] = p.index + 1
  BY <4>1, <4>2
<4> DEFINE i == p.index
<4>4. i \in Nat /\ k \in Nat /\ p.payload[k] = i + k /\ p.payload[1] = i + 1
  BY <2>3, <4>3
<4> HIDE DEF i
<4>5. i + k = (i + 1) + k - 1 /\ i < i + 1
  BY <4>4
<4>6. QED BY <4>4, <4>5 DEF i
<3>2. QED BY <3>1
<2>8. \A a \in Range(output) : \A b \in Elements(p) : a < b
<3>1. ASSUME NEW a \in Range(output), NEW b \in Elements(p) PROVE a < b
<4>1. p.type = "Buffer" /\ b \in Range(p.payload)
  BY DEF Elements
<4>2. \A i \in 1..Len(p.payload) : p.payload[i] = p.index + i
  BY <2>4, <2>5, <4>1 DEF Fresh
<4>3. PICK i \in 1..Len(p.payload) : b = p.payload[i]
  BY <2>3, <4>1 DEF Range
<4>4. a <= p.index
  BY <2>4, <2>5, <4>1 DEF From, Behind
<4>5. a \in Nat /\ b = p.index + i /\ i \in Nat \ {0}
  BY <1>7, <4>2, <4>3
<4>6. QED BY <2>3, <4>4, <4>5
<3>2. QED BY <3>1
<2>9. Coming = Elements(p) \cup Carried(queue) \cup Carried(todo)
<3>1. Elements(InHand) = {}
  BY <1>9 DEF Elements, Range
<3>2. QED BY <1>5, <2>1, <2>4, <2>5, <3>1 DEF Coming, n
<2>10. From(p, nextExpectedIndex)
  BY <2>4, <2>5 DEF Behind
<2>11. QED BY <1>9, <2>3, <2>4, <2>5, <2>6, <2>7, <2>8, <2>9, <2>10
<1>10. ASSUME ~isNew PROVE Place
<2>1. x.packets = n /\ queue = n
  BY <1>3, <1>5, <1>7, <1>10
<2>2. p.type = InHand.type /\ p.index = InHand.index /\ p.payload = InHand.payload
  BY <1>4, <1>7, <1>10 DEF Packaged, part
<2>3. /\ Reach(p) = Reach(InHand) /\ Elements(p) = Elements(InHand)
  BY <2>2 DEF Reach, Elements
<2> HIDE DEF p
<2>4. p.type = "Buffer" /\ \A k \in 1..Len(p.payload) :
          p.payload[k] = p.payload[1] + k - 1 /\ p.index < p.payload[1]
  BY <1>8, <1>10, <2>2 DEF Begun
<2>5. Line(Behind(p), queue, todo, taken)
  BY <1>8, <2>1, <2>3 DEF Behind
<2>6. Coming = Elements(p) \cup Carried(queue) \cup Carried(todo)
  BY <2>1, <2>3 DEF Coming, n
<2>7. QED BY <1>7, <1>8, <1>10, <2>2, <2>3, <2>4, <2>5, <2>6
<1>11. Place
  BY <1>9, <1>10
<1>12. /\ x.length \in 0..Len(p.payload)
       /\ p.type # "Buffer" => x.length = Len(p.payload)
       /\ x.type = p.type /\ x.index = p.index /\ x.data = SubSeq(p.payload, 1, x.length)
  BY <1>3, <1>4
<1> HIDE DEF p
<1>13. QED BY <1>6, <1>11, <1>12 DEF p, x, e, n

LEMMA ConcatFacts ==
    ASSUME NEW s \in Seq(Nat), NEW t \in Seq(Nat)
    PROVE  /\ s \o t \in Seq(Nat) /\ Len(s \o t) = Len(s) + Len(t)
           /\ Len(s) \in Nat /\ Len(t) \in Nat
           /\ \A i \in 1..Len(s) : (s \o t)[i] = s[i]
           /\ \A i \in 1..Len(t) : (s \o t)[Len(s) + i] = t[i]
  OBVIOUS

LEMMA ElementsOfSeq ==
    ASSUME NEW s \in Seq(Nat)
    PROVE  /\ \A i \in 1..Len(s) : s[i] \in Range(s)
           /\ \A a \in Range(s) : \E i \in 1..Len(s) : a = s[i]
<1>1. DOMAIN s = 1..Len(s)
  OBVIOUS
<1>2. QED BY Zenon, <1>1 DEF Range

\* The elements on the way lie beyond what lies before their packets.
LEMMA CarriedIsBeyond ==
    ASSUME NEW first \in Seq(Packet), NEW last \in Seq(Item), NEW top, NEW M \in SUBSET Nat,
           Line(M, first, last, top), NEW m \in M, NEW c \in Carried(first) \cup Carried(last)
    PROVE  c \in Nat /\ m < c
<1>1. ASSUME NEW q, q.index \in Nat, q.payload \in Seq(Nat), Fresh(q), From(q, m), c \in Elements(q)
      PROVE  c \in Nat /\ m < c
<2>1. q.type = "Buffer" /\ c \in Range(q.payload)
  BY <1>1 DEF Elements
<2>2. PICK k \in 1..Len(q.payload) : c = q.payload[k]
  BY <1>1, <2>1 DEF Range
<2>3. c = q.index + k /\ m <= q.index
  BY <1>1, <2>1, <2>2 DEF Fresh, From
<2>4. m \in Nat /\ k \in Nat \ {0}
  BY <2>2
<2>5. QED BY <1>1, <2>3, <2>4
<1>2. CASE c \in Carried(first)
<2>1. PICK i \in 1..Len(first) : c \in Elements(first[i])
  BY <1>2 DEF Carried
<2>2. first[i] \in Packet /\ Fresh(first[i]) /\ From(first[i], m)
  BY DEF Line
<2>3. first[i].index \in Nat /\ first[i].payload \in Seq(Nat)
  BY <2>2 DEF Packet
<2>4. QED BY <1>1, <2>1, <2>2, <2>3
<1>3. CASE c \in Carried(last)
<2>1. PICK i \in 1..Len(last) : c \in Elements(last[i])
  BY <1>3 DEF Carried
<2>2. last[i] \in Item /\ Fresh(last[i]) /\ From(last[i], m)
  BY DEF Line
<2>3. last[i].index \in Nat /\ last[i].payload \in Seq(Nat)
  BY <2>2, ShortIsWhole DEF Item
<2>4. QED BY <1>1, <2>1, <2>2, <2>3
<1>4. QED BY <1>2, <1>3

\* If nothing was dropped then the next element that the source takes is the one
\* after its output.
LEMMA NextElement ==
    ASSUME Counted, NEW p, NEW queue \in Seq(Packet),
           p.type = "Buffer", p.index \in Nat, p.payload \in Seq(Nat), p.payload # <<>>,
           \A k \in 1..Len(p.payload) : p.payload[k] = p.payload[1] + k - 1 /\ p.index < p.payload[1],
           Line(Behind(p), queue, todo, taken),
           \A a \in Range(output) : \A b \in Elements(p) : a < b,
           \A i \in 1..Len(output) : output[i] = i,
           Range(output) \cup Elements(p) \cup Carried(queue) \cup Carried(todo) = 1..taken
    PROVE  p.payload[1] = Len(output) + 1
<1> DEFINE b == p.payload[1]
           size == Len(output)
<1>1. /\ todo \in Seq(Item) /\ taken \in Nat /\ output \in Seq(Nat) /\ Range(output) \subseteq Nat
      /\ nextExpectedIndex \in Nat /\ size \in Nat
  BY HandTypes
<1>2. 1 \in 1..Len(p.payload) /\ Len(p.payload) \in Nat
  OBVIOUS
<1>3. b \in Nat /\ Elements(p) = {p.payload[k] : k \in 1..Len(p.payload)} /\ b \in Elements(p)
<2>1. Elements(p) = {p.payload[k] : k \in 1..Len(p.payload)}
  BY DEF Elements, Range
<2>2. \A s \in Seq(Nat) : \A i \in 1..Len(s) : s[i] \in Nat
  OBVIOUS
<2>3. QED BY <1>2, <2>1, <2>2
<1>4. Range(output) = 1..size
<2>1. DOMAIN output = 1..size
  BY <1>1
<2>2. QED BY <2>1 DEF Range
<1>5. \A k \in 1..Len(p.payload) : p.payload[k] = b + k - 1
  OBVIOUS
<1>6. Behind(p) \in SUBSET Nat /\ b \in Behind(p)
<2>1. Reach(p) \subseteq Nat
  BY ReachIsNumbers
<2>2. b \in Reach(p)
  BY <1>3 DEF Reach, Elements
<2>3. QED BY <1>1, <2>1, <2>2 DEF Behind
<1> HIDE DEF b, size
<1>7. b \in 1..taken
  BY <1>3
<1>8. size < b
<2>1. CASE size = 0
  BY <1>7, <2>1
<2>2. CASE size # 0
<3>1. size \in Range(output)
  BY <1>1, <1>4, <2>2
<3>2. QED BY <1>3, <3>1
<2>3. QED BY <2>1, <2>2
<1>9. ASSUME size + 1 < b PROVE FALSE
<2>1. size + 1 \in 1..taken
  BY <1>1, <1>7, <1>9
<2>2. size + 1 \notin Range(output)
  BY <1>1, <1>4
<2>3. size + 1 \notin Elements(p)
<3>1. ASSUME NEW k \in 1..Len(p.payload) PROVE size + 1 # p.payload[k]
<4>1. p.payload[k] = b + k - 1 /\ k \in Nat \ {0}
  BY <1>5
<4>2. QED BY <1>1, <1>3, <1>9, <4>1
<3>2. QED BY <1>3, <3>1
<2>4. size + 1 \in Carried(queue) \cup Carried(todo)
  BY <2>1, <2>2, <2>3
<2>5. b < size + 1
  BY <1>1, <1>6, <2>4, CarriedIsBeyond
<2>6. QED BY <1>1, <1>3, <1>9, <2>5
<1>10. QED BY <1>1, <1>3, <1>8, <1>9 DEF b, size

\* The source posts what it takes, or else a handshake drops it.
LEMMA SourceWorkKeepsStream ==
    ASSUME Streaming, SourceWork PROVE InOrder' /\ Complete' /\ LabelsKeepTheirElement'
<1>1. PICK room \in 1..MaxBuffer :
          LET x == recv(end["source"], net["source"], room)
          IN  /\ Receives("source", x)
              /\ output' = IF x.type = "Buffer" THEN output \o x.data ELSE output
              /\ nextExpectedIndex' = IF x.type = "Buffer" THEN NextIndex(x) ELSE nextExpectedIndex
              /\ labels' = IF x.type = "Label"
                    THEN LET index == x.index - nextExpectedIndex
                         IN  labels \cup {[of |-> x.data[1], index |-> index, at |-> Len(output) + index]}
                    ELSE labels
              /\ parted' = (parted \/ x.end.part.rest # <<>>)
  BY DEF SourceWork
<1> DEFINE x == recv(end["source"], net["source"], room)
           p == Taking
           isNew == InHand.payload = <<>>
           queue == net'["source"]
           n == x.length
           rest == SubSeq(p.payload, n + 1, Len(p.payload))
           left == [type |-> p.type, index |-> p.index, payload |-> rest]
           data == SubSeq(p.payload, 1, n)
<1>2. /\ Counted /\ InOrder /\ Complete /\ LabelsKeepTheirElement /\ isRecvReady("source") /\ room \in Nat
      /\ UNCHANGED <<todo, taken, dropped>>
  BY DEF Receivable, Streaming, SourceWork
<1>3. Receives("source", recv(end["source"], net["source"], room))
  BY <1>1
<1>4. /\ p.type \in Kinds /\ p.index \in Nat /\ p.payload \in Seq(Nat)
      /\ n \in 0..Len(p.payload)
      /\ p.type # "Buffer" => n = Len(p.payload)
      /\ x.type = p.type /\ x.index = p.index /\ x.data = data
      /\ InHand' = left /\ x.end.part.rest = rest
      /\ Line(Behind(p), queue, todo, taken)
      /\ p.type = "Buffer" => \A k \in 1..Len(p.payload) :
            p.payload[k] = p.payload[1] + k - 1 /\ p.index < p.payload[1]
      /\ \A a \in Range(output) : \A b \in Elements(p) : a < b
      /\ Coming = Elements(p) \cup Carried(queue) \cup Carried(todo)
      /\ ~isNew => p.type = "Buffer"
      /\ isNew => Fresh(p) /\ From(p, nextExpectedIndex)
  BY <1>2, <1>3, SourceTakes
<1>5. /\ todo \in Seq(Item) /\ taken \in Nat /\ output \in Seq(Nat) /\ Range(output) \subseteq Nat
      /\ nextExpectedIndex \in Nat /\ Len(output) \in Nat
  BY <1>2, HandTypes
<1>6. queue \in Seq(Packet) /\ Counted'
  BY <1>2, SourceWorkKeepsCounts DEF Counted, Types, Ends
<1> HIDE DEF p, x
<1>7. /\ left.payload \in Seq(Nat) /\ Begun(left)
      /\ data \in Seq(Nat) /\ Len(data) = n
      /\ \A m \in Reach(left) : \E k \in Reach(p) : m <= k
      /\ p.type # "Buffer" => left.payload = <<>>
      /\ p.type = "Buffer" =>
           /\ \A k \in 1..n : data[k] = p.payload[1] + k - 1
           /\ Range(data) \subseteq Reach(p)
           /\ p.index + n <= p.index + Len(p.payload)
           /\ p.index + Len(p.payload) \in Reach(p)
           /\ Range(data) \cup Elements(left) = Elements(p)
           /\ \A a \in Range(data) : \A b \in Elements(left) : a < b
  BY <1>4, PartFacts
<1>8. /\ output' = IF p.type = "Buffer" THEN output \o data ELSE output
      /\ nextExpectedIndex' = IF p.type = "Buffer" THEN p.index + n ELSE nextExpectedIndex
      /\ parted' = (parted \/ rest # <<>>)
  BY <1>1, <1>4 DEF NextIndex, x
<1>9. labels' = IF p.type = "Label"
                  THEN LET index == p.index - nextExpectedIndex
                       IN  labels \cup {[of |-> data[1], index |-> index, at |-> Len(output) + index]}
                  ELSE labels
  BY <1>1, <1>4 DEF x
<1>10. left.type = p.type /\ left.index = p.index /\ left.payload = rest
  OBVIOUS
<1>11. n \in Nat /\ Len(p.payload) \in Nat /\ n <= Len(p.payload)
  BY <1>4
<1> HIDE DEF left, data, rest, queue, n
<1>12. Range(output') = IF p.type = "Buffer" THEN Range(output) \cup Range(data) ELSE Range(output)
<2>1. CASE p.type = "Buffer"
<3> DEFINE longer == output \o data
<3>1. /\ Len(longer) = Len(output) + Len(data) /\ Len(data) \in Nat /\ longer \in Seq(Nat)
      /\ \A i \in 1..Len(output) : longer[i] = output[i]
      /\ \A i \in 1..Len(data) : longer[Len(output) + i] = data[i]
  BY <1>5, <1>7, ConcatFacts
<3> HIDE DEF longer
<3>2. /\ \A i \in 1..Len(longer) : longer[i] \in Range(longer)
      /\ \A a \in Range(longer) : \E i \in 1..Len(longer) : a = longer[i]
      /\ \A i \in 1..Len(output) : output[i] \in Range(output)
      /\ \A a \in Range(output) : \E i \in 1..Len(output) : a = output[i]
      /\ \A i \in 1..Len(data) : data[i] \in Range(data)
      /\ \A a \in Range(data) : \E i \in 1..Len(data) : a = data[i]
<4>1. /\ \A i \in 1..Len(longer) : longer[i] \in Range(longer)
      /\ \A a \in Range(longer) : \E i \in 1..Len(longer) : a = longer[i]
  BY <3>1, ElementsOfSeq
<4>2. /\ \A i \in 1..Len(output) : output[i] \in Range(output)
      /\ \A a \in Range(output) : \E i \in 1..Len(output) : a = output[i]
  BY <1>5, ElementsOfSeq
<4>3. /\ \A i \in 1..Len(data) : data[i] \in Range(data)
      /\ \A a \in Range(data) : \E i \in 1..Len(data) : a = data[i]
  BY <1>7, ElementsOfSeq
<4>4. QED BY <4>1, <4>2, <4>3
<3>3. ASSUME NEW i \in 1..Len(longer) PROVE longer[i] \in Range(output) \cup Range(data)
<4>1. CASE i \in 1..Len(output)
  BY <3>1, <3>2, <4>1
<4>2. CASE i \notin 1..Len(output)
<5>1. i - Len(output) \in 1..Len(data) /\ i = Len(output) + (i - Len(output))
  BY <1>5, <3>1, <4>2
<5>2. longer[i] = data[i - Len(output)]
  BY <3>1, <5>1
<5>3. QED BY <3>2, <5>1, <5>2
<4>3. QED BY <4>1, <4>2
<3>4. ASSUME NEW i \in 1..Len(output) PROVE output[i] \in Range(longer)
<4>1. i \in 1..Len(longer)
  BY <1>5, <3>1
<4>2. QED BY <3>1, <3>2, <4>1
<3>5. ASSUME NEW i \in 1..Len(data) PROVE data[i] \in Range(longer)
<4>1. Len(output) + i \in 1..Len(longer)
  BY <1>5, <3>1
<4>2. QED BY <3>1, <3>2, <4>1
<3>6. Range(longer) = Range(output) \cup Range(data)
  BY <3>2, <3>3, <3>4, <3>5
<3>7. QED BY <1>8, <2>1, <3>6 DEF longer
<2>2. CASE p.type # "Buffer"
  BY <1>8, <2>2
<2>3. QED BY <2>1, <2>2
<1>13. Line(Range(output') \cup {nextExpectedIndex'} \cup Reach(left), queue, todo, taken)
<2> DEFINE N == Range(output') \cup {nextExpectedIndex'} \cup Reach(left)
<2>1. Reach(p) \subseteq Nat /\ Reach(left) \subseteq Nat
  BY <1>4, <1>7, <1>10, ReachIsNumbers
<2>2. N \in SUBSET Nat /\ Behind(p) \in SUBSET Nat
<3>1. Range(data) \subseteq Nat
  BY <1>7 DEF Range
<3>2. nextExpectedIndex' \in Nat
  BY <1>4, <1>5, <1>8, <1>11
<3>3. QED BY <1>5, <1>12, <2>1, <3>1, <3>2 DEF Behind
<2>3. ASSUME NEW m \in N PROVE \E k \in Behind(p) : m <= k
<3>1. CASE m \in Reach(left)
  BY <1>7, <3>1 DEF Behind
<3>2. CASE m \in Range(output')
<4>1. m \in Behind(p) /\ m <= m
  BY <1>7, <1>12, <2>2, <3>2 DEF Behind
<4>2. QED BY <4>1
<3>3. CASE m = nextExpectedIndex'
<4>1. CASE p.type = "Buffer"
<5>1. p.index + Len(p.payload) \in Behind(p) /\ m <= p.index + Len(p.payload)
  BY <1>7, <1>8, <3>3, <4>1 DEF Behind
<5>2. QED BY <5>1
<4>2. CASE p.type # "Buffer"
<5>1. m \in Behind(p) /\ m <= m
  BY <1>5, <1>8, <3>3, <4>2 DEF Behind
<5>2. QED BY <5>1
<4>3. QED BY <4>1, <4>2
<3>4. QED BY <3>1, <3>2, <3>3
<2> HIDE DEF N
<2>4. Line(N, queue, todo, taken)
  BY <1>4, <1>5, <1>6, <2>2, <2>3, LineAfterLess
<2>5. QED BY <2>4 DEF N
<1>14. \A i \in 1..Len(output') : \A j \in i + 1..Len(output') : output'[i] < output'[j]
<2>1. \A i \in 1..Len(output) : \A j \in i + 1..Len(output) : output[i] < output[j]
  BY <1>2 DEF InOrder
<2>2. CASE p.type # "Buffer"
  BY <1>8, <2>1, <2>2
<2>3. CASE p.type = "Buffer"
<3> DEFINE longer == output \o data
           b == p.payload[1]
           size == Len(output)
<3>1. /\ Len(longer) = size + n /\ size \in Nat
      /\ \A i \in 1..size : longer[i] = output[i]
      /\ \A k \in 1..n : longer[size + k] = data[k]
  BY <1>5, <1>7, ConcatFacts
<3>2. n > 0 => b \in Nat
<4>1. \A s \in Seq(Nat) : \A i \in 1..Len(s) : s[i] \in Nat
  OBVIOUS
<4>2. n > 0 => 1 \in 1..Len(p.payload)
  BY <1>11
<4>3. QED BY <1>4, <4>1, <4>2
<3>3. \A k \in 1..n : longer[size + k] = b + k - 1
  BY <1>7, <2>3, <3>1
<3>4. \A i \in 1..size : \A k \in 1..n : output[i] < longer[size + k]
<4>1. \A i \in 1..size : output[i] \in Range(output)
  BY <1>5 DEF Range
<4>2. \A k \in 1..n : data[k] \in Range(data)
  BY <1>7 DEF Range
<4>3. Range(data) \subseteq Elements(p)
  BY <1>7, <2>3
<4>4. QED BY <1>4, <3>1, <4>1, <4>2, <4>3
<3> HIDE DEF longer, b, size
<3>5. ASSUME NEW i \in 1..Len(longer), NEW j \in i + 1..Len(longer) PROVE longer[i] < longer[j]
<4>1. CASE j \in 1..size
<5>1. i \in 1..size /\ j \in i + 1..size
  BY <3>1, <4>1
<5>2. QED BY <2>1, <3>1, <4>1, <5>1 DEF size
<4>2. CASE i \in 1..size /\ j \notin 1..size
<5>1. j - size \in 1..n /\ j = size + (j - size)
  BY <1>11, <3>1, <4>2
<5>2. QED BY <3>1, <3>4, <4>2, <5>1
<4>3. CASE i \notin 1..size
<5>1. /\ i - size \in 1..n /\ i = size + (i - size) /\ j - size \in 1..n /\ j = size + (j - size) /\ n > 0
      /\ i \in Nat /\ j \in Nat /\ i < j
  BY <1>11, <3>1, <4>3
<5>2. longer[i] = b + (i - size) - 1 /\ longer[j] = b + (j - size) - 1
  BY <3>3, <5>1
<5>3. QED BY <3>1, <3>2, <5>1, <5>2
<4>4. QED BY <3>1, <4>1, <4>2, <4>3
<3>6. QED BY <1>8, <2>3, <3>5 DEF longer
<2>4. QED BY <2>2, <2>3
<1>15. \A a \in Range(output') : \A b \in Elements(left) : a < b
<2>1. CASE p.type = "Buffer"
  BY <1>4, <1>7, <1>12, <2>1
<2>2. CASE p.type # "Buffer"
  BY <1>10, <2>2 DEF Elements
<2>3. QED BY <2>1, <2>2
<1>16. InOrder'
<2>1. Line(Range(output') \cup {nextExpectedIndex'} \cup Reach(InHand'), net'["source"], todo', taken')
  BY <1>2, <1>4, <1>13 DEF queue
<2>2. Begun(InHand') /\ \A a \in Range(output') : \A b \in Elements(InHand') : a < b
  BY <1>4, <1>7, <1>15
<2>3. QED BY <1>14, <2>1, <2>2 DEF InOrder
<1>17. ASSUME ~dropped', p.type = "Buffer", n > 0 PROVE p.payload[1] = Len(output) + 1
<2>1. /\ \A i \in 1..Len(output) : output[i] = i
      /\ Range(output) \cup Coming = 1..taken
  BY <1>2, <1>17 DEF Complete
<2>2. Range(output) \cup Elements(p) \cup Carried(queue) \cup Carried(todo) = 1..taken
  BY <1>4, <2>1
<2>3. p.payload # <<>>
  BY <1>11, <1>17
<2>4. QED BY <1>2, <1>4, <1>6, <1>17, <2>1, <2>2, <2>3, NextElement
<1>18. ASSUME ~dropped'
       PROVE  /\ \A i \in 1..Len(output') : output'[i] = i
              /\ Range(output') \cup Coming' = 1..taken'
<2>1. /\ \A i \in 1..Len(output) : output[i] = i
      /\ Range(output) \cup Coming = 1..taken
  BY <1>2, <1>18 DEF Complete
<2>2. Coming' = Elements(left) \cup Carried(queue) \cup Carried(todo)
  BY <1>2, <1>4 DEF Coming, queue
<2>3. CASE p.type # "Buffer"
<3>1. Elements(left) = {} /\ Elements(p) = {} /\ output' = output
  BY <1>8, <1>10, <2>3 DEF Elements
<3>2. QED BY <1>2, <1>4, <2>1, <2>2, <3>1
<2>4. CASE p.type = "Buffer"
<3>1. Range(output') \cup Coming' = 1..taken'
  BY <1>2, <1>4, <1>7, <1>12, <2>1, <2>2, <2>4
<3> DEFINE longer == output \o data
           size == Len(output)
<3>2. /\ Len(longer) = size + n /\ size \in Nat
      /\ \A i \in 1..size : longer[i] = output[i]
      /\ \A k \in 1..n : longer[size + k] = data[k]
  BY <1>5, <1>7, ConcatFacts
<3>3. \A k \in 1..n : data[k] = p.payload[1] + k - 1
  BY <1>7, <2>4
<3>4. n > 0 => p.payload[1] = size + 1
  BY <1>17, <1>18, <2>4
<3> HIDE DEF longer, size
<3>5. ASSUME NEW i \in 1..Len(longer) PROVE longer[i] = i
<4>1. CASE i \in 1..size
  BY <2>1, <3>2, <4>1 DEF size
<4>2. CASE i \notin 1..size
<5>1. i - size \in 1..n /\ i = size + (i - size) /\ n > 0
  BY <1>11, <3>2, <4>2
<5>2. longer[i] = (size + 1) + (i - size) - 1
  BY <3>2, <3>3, <3>4, <5>1
<5>3. QED BY <3>2, <5>2
<4>3. QED BY <4>1, <4>2
<3>6. QED BY <1>8, <2>4, <3>1, <3>5 DEF longer
<2>5. QED BY <2>3, <2>4
<1>19. ASSUME ~dropped', ~parted'
       PROVE  InHand'.payload = <<>> /\ nextExpectedIndex' = Len(output')
<2>1. rest = <<>> /\ ~parted /\ ~dropped
  BY <1>2, <1>8, <1>19
<2>2. InHand.payload = <<>> /\ nextExpectedIndex = Len(output)
  BY <1>2, <2>1 DEF Complete
<2>3. Fresh(p)
  BY <1>4, <2>2
<2>4. CASE p.type # "Buffer"
  BY <1>4, <1>8, <1>10, <2>1, <2>2, <2>4
<2>5. CASE p.type = "Buffer"
<3>1. p.payload # <<>> /\ \A k \in 1..Len(p.payload) : p.payload[k] = p.index + k
  BY <2>3, <2>5 DEF Fresh
<3>2. 1 \in 1..Len(p.payload)
  BY <1>4, <3>1
<3>3. n = Len(p.payload)
<4>1. Len(rest) = Len(p.payload) - n
  BY <1>4, <1>11 DEF rest
<4>2. QED BY <1>11, <2>1, <4>1
<3>4. p.payload[1] = Len(output) + 1 /\ p.payload[1] = p.index + 1
  BY <1>17, <1>19, <2>5, <3>1, <3>2, <3>3
<3>5. Len(output') = Len(output) + n
  BY <1>5, <1>7, <1>8, <2>5, ConcatFacts
<3>6. p.index = Len(output)
  BY <1>4, <1>5, <3>4
<3>7. QED BY <1>4, <1>8, <1>10, <2>1, <2>5, <3>5, <3>6
<2>6. QED BY <2>4, <2>5
<1>20. LabelsKeepTheirElement'
<2>1. CASE p.type # "Label"
  BY <1>2, <1>8, <1>9, <2>1 DEF LabelsKeepTheirElement
<2>2. CASE p.type = "Label"
<3> DEFINE index == p.index - nextExpectedIndex
           new == [of |-> data[1], index |-> index, at |-> Len(output) + index]
<3>1. labels' = labels \cup {new}
  BY <1>9, <2>2
<3>2. Fresh(p) /\ From(p, nextExpectedIndex)
  BY <1>4, <2>2
<3>3. nextExpectedIndex <= p.index /\ p.payload = <<p.index + 1>> /\ n = Len(p.payload)
  BY <1>4, <2>2, <3>2 DEF Fresh, From
<3>4. data[1] = p.index + 1
  BY <1>4, <1>11, <3>3 DEF data
<3>5. new.index >= 0
  BY <1>4, <1>5, <3>3
<3>6. ~dropped' /\ ~parted' => new.at + 1 = new.of
<4>1. ~dropped' /\ ~parted' => nextExpectedIndex = Len(output)
  BY <1>2, <1>8 DEF Complete
<4>2. QED BY <1>4, <1>5, <3>4, <4>1
<3> HIDE DEF new
<3>7. QED BY <1>2, <1>8, <3>1, <3>5, <3>6 DEF LabelsKeepTheirElement
<2>3. QED BY <2>1, <2>2
<1>21. QED BY <1>16, <1>18, <1>19, <1>20 DEF Complete

LEMMA SourceDropKeepsStream ==
    ASSUME Streaming, HandshakeRecv("source")
    PROVE  InOrder' /\ Complete' /\ LabelsKeepTheirElement'
<1> DEFINE x == recv(end["source"], net["source"], length["source"])
           p == Taking
           isNew == InHand.payload = <<>>
           queue == net'["source"]
           n == x.length
           rest == SubSeq(p.payload, n + 1, Len(p.payload))
           left == [type |-> p.type, index |-> p.index, payload |-> rest]
           data == SubSeq(p.payload, 1, n)
<1>1. /\ Counted /\ InOrder /\ Complete /\ LabelsKeepTheirElement /\ isRecvReady("source")
      /\ UNCHANGED <<todo, taken, output, labels, nextExpectedIndex, parted>>
      /\ dropped' = (dropped \/ x.type # "none")
      /\ Receives("source", x)
  BY DEF Receivable, Streaming, HandshakeRecv, blocks
<1>2. length["source"] \in Nat
  BY <1>1 DEF Counted, Types, Ends
<1>3. /\ p.type \in Kinds /\ p.index \in Nat /\ p.payload \in Seq(Nat)
      /\ n \in 0..Len(p.payload)
      /\ p.type # "Buffer" => n = Len(p.payload)
      /\ x.type = p.type
      /\ InHand' = left
      /\ Line(Behind(p), queue, todo, taken)
      /\ p.type = "Buffer" => \A k \in 1..Len(p.payload) :
            p.payload[k] = p.payload[1] + k - 1 /\ p.index < p.payload[1]
      /\ \A a \in Range(output) : \A b \in Elements(p) : a < b
      /\ Coming = Elements(p) \cup Carried(queue) \cup Carried(todo)
      /\ ~isNew => p.type = "Buffer"
      /\ isNew => Fresh(p)
  BY <1>1, <1>2, SourceTakes
<1>4. /\ todo \in Seq(Item) /\ taken \in Nat /\ Range(output) \subseteq Nat /\ nextExpectedIndex \in Nat
  BY <1>1, HandTypes
<1>5. queue \in Seq(Packet)
<2>1. "source" \in Ends
  BY DEF Ends
<2>2. Counted'
  BY <1>1, <2>1, HandshakeRecvKeepsCounts
<2>3. QED BY <2>1, <2>2 DEF Counted, Types
<1> HIDE DEF p, x
<1>6. /\ left.payload \in Seq(Nat) /\ Begun(left)
      /\ \A m \in Reach(left) : \E k \in Reach(p) : m <= k
      /\ p.type = "Buffer" => Range(data) \cup Elements(left) = Elements(p)
  BY <1>3, PartFacts
<1>7. left.type = p.type /\ left.index = p.index /\ left.payload = rest
  OBVIOUS
<1> HIDE DEF left, data, rest, queue, n
<1>8. Line(Range(output) \cup {nextExpectedIndex} \cup Reach(left), queue, todo, taken)
<2> DEFINE N == Range(output) \cup {nextExpectedIndex} \cup Reach(left)
<2>1. Reach(p) \subseteq Nat /\ Reach(left) \subseteq Nat
  BY <1>3, <1>6, <1>7, ReachIsNumbers
<2>2. N \in SUBSET Nat /\ Behind(p) \in SUBSET Nat
  BY <1>4, <2>1 DEF Behind
<2>3. ASSUME NEW m \in N PROVE \E k \in Behind(p) : m <= k
<3>1. CASE m \in Reach(left)
  BY <1>6, <3>1 DEF Behind
<3>2. CASE m \notin Reach(left)
<4>1. m \in Behind(p) /\ m <= m
  BY <2>2, <3>2 DEF Behind
<4>2. QED BY <4>1
<3>3. QED BY <3>1, <3>2
<2> HIDE DEF N
<2>4. Line(N, queue, todo, taken)
  BY <1>3, <1>4, <1>5, <2>2, <2>3, LineAfterLess
<2>5. QED BY <2>4 DEF N
<1>9. Elements(left) \subseteq Elements(p)
<2>1. CASE p.type = "Buffer"
  BY <1>6, <2>1
<2>2. CASE p.type # "Buffer"
  BY <1>7, <2>2 DEF Elements
<2>3. QED BY <2>1, <2>2
<1>10. InOrder'
<2>1. Line(Range(output') \cup {nextExpectedIndex'} \cup Reach(InHand'), net'["source"], todo', taken')
  BY <1>1, <1>3, <1>8 DEF queue
<2>2. Begun(InHand') /\ \A a \in Range(output') : \A b \in Elements(InHand') : a < b
  BY <1>1, <1>3, <1>6, <1>9
<2>3. \A i \in 1..Len(output') : \A j \in i + 1..Len(output') : output'[i] < output'[j]
  BY <1>1 DEF InOrder
<2>4. QED BY <2>1, <2>2, <2>3 DEF InOrder
<1>11. ASSUME ~dropped' PROVE ~dropped /\ p.type = "none" /\ left.payload = <<>> /\ Coming' = Coming
<2>1. ~dropped /\ p.type = "none"
  BY <1>1, <1>3, <1>11
<2>2. Elements(left) = {} /\ Elements(p) = {}
  BY <1>7, <2>1 DEF Elements
<2>3. left.payload = <<>>
  BY <1>6, <1>7, <2>1 DEF Begun
<2>4. Coming' = Elements(left) \cup Carried(queue) \cup Carried(todo)
  BY <1>1, <1>3 DEF Coming, queue
<2>5. QED BY <1>3, <2>1, <2>2, <2>3, <2>4
<1>12. Complete'
<2>1. ~dropped' => InHand'.payload = <<>>
  BY <1>3, <1>11
<2>2. QED BY <1>1, <1>11, <2>1 DEF Complete
<1>13. LabelsKeepTheirElement'
  BY <1>1, <1>11 DEF LabelsKeepTheirElement
<1>14. QED BY <1>10, <1>12, <1>13

\* The source is sent packets without elements, and does nothing with its stream.
LEMMA BareKeepsStream ==
    ASSUME Streaming, NEW out \in Seq(Packet), Bare(out),
           net'["source"] = net["source"] \o out, end'["source"].part = end["source"].part,
           UNCHANGED <<todo, taken, output, labels, nextExpectedIndex, parted>>, dropped => dropped'
    PROVE  InOrder' /\ Complete' /\ LabelsKeepTheirElement'
<1>1. Counted /\ InOrder /\ Complete /\ LabelsKeepTheirElement
  BY DEF Streaming
<1>2. InHand' = InHand
  BY DEF InHand
<1>3. net["source"] \in Seq(Packet) /\ todo \in Seq(Item)
  BY <1>1, HandTypes
<1>4. /\ Line(Range(output) \cup {nextExpectedIndex} \cup Reach(InHand), net["source"] \o out, todo, taken)
      /\ Carried(net["source"] \o out) = Carried(net["source"])
<2> DEFINE M == Range(output) \cup {nextExpectedIndex} \cup Reach(InHand)
<2>1. Line(M, net["source"], todo, taken)
  BY <1>1 DEF InOrder
<2> HIDE DEF M
<2>2. /\ Line(M, net["source"] \o out, todo, taken)
      /\ Carried(net["source"] \o out) = Carried(net["source"])
<3>1. /\ net["source"] \in Seq(Packet) /\ todo \in Seq(Item) /\ out \in Seq(Packet)
      /\ Bare(out) /\ Line(M, net["source"], todo, taken)
  BY <1>3, <2>1
<3>2. QED BY ONLY <3>1, LineWithBare, ZenonT(30)
<2>3. QED BY <2>2 DEF M
<1>5. InOrder'
  BY <1>1, <1>2, <1>4 DEF InOrder
<1>6. Coming' = Coming
  BY <1>2, <1>4 DEF Coming
<1>7. Complete'
  BY <1>1, <1>2, <1>6 DEF Complete
<1>8. LabelsKeepTheirElement'
  BY <1>1 DEF LabelsKeepTheirElement
<1>9. QED BY <1>5, <1>7, <1>8

LEMMA SinkSendKeepsStream ==
    ASSUME Streaming, SinkSend PROVE InOrder' /\ Complete' /\ LabelsKeepTheirElement'
<1> DEFINE p == Head(todo)
           quiet == Quiet(end["sink"])
           x == Send(quiet, {"Psh"}, p.type, p.index, p.payload)
           sent == [flags |-> {"Psh"}, type |-> p.type, index |-> p.index, payload |-> p.payload,
                    packetCount |-> quiet.end.lastSentPacketCount]
<1>1. /\ Counted /\ InOrder /\ Complete /\ LabelsKeepTheirElement
      /\ todo # <<>> /\ Becomes("sink", x) /\ todo' = Tail(todo)
      /\ UNCHANGED <<taken, output, labels, nextExpectedIndex, dropped, parted>>
  BY DEF Streaming, SinkSend, history
<1>2. /\ net["source"] \in Seq(Packet) /\ todo \in Seq(Item)
      /\ end \in [Ends -> Endpoint] /\ net \in [Ends -> Seq(Packet)]
      /\ "sink" \in Ends /\ "source" \in Ends /\ Peer("sink") = "source"
  BY <1>1 DEF Counted, Types, Ends, Peer
<1>3. p.type \in Kinds /\ p.index \in Nat /\ p.payload \in Short
<2>1. p \in Item
  BY <1>1, <1>2
<2>2. QED BY <2>1 DEF Item
<1>4. quiet \in Sending /\ quiet.out = <<>>
  BY <1>2 DEF Quiet, Sending
<1> HIDE DEF p, quiet
<1>5. sent \in Packet /\ x.out = Append(quiet.out, sent)
<2>1. {"Psh"} \in SUBSET Flags
  BY DEF Flags
<2>2. QED BY <1>3, <1>4, <2>1, SendFacts
<1>6. sent.type = p.type /\ sent.index = p.index /\ sent.payload = p.payload
  OBVIOUS
<1> HIDE DEF x, sent
<1>7. net'["source"] = Append(net["source"], sent) /\ end'["source"] = end["source"]
<2>1. net'["source"] = net["source"] \o x.out /\ end'["source"] = end["source"]
  BY <1>1, <1>2 DEF Becomes
<2>2. net["source"] \o Append(<<>>, sent) = Append(net["source"], sent)
  BY <1>2, <1>5
<2>3. QED BY <1>4, <1>5, <2>1, <2>2
<1>8. InHand' = InHand
  BY <1>7 DEF InHand
<1>9. /\ Line(Range(output) \cup {nextExpectedIndex} \cup Reach(InHand), net'["source"], todo', taken)
      /\ Carried(net'["source"]) \cup Carried(todo') = Carried(net["source"]) \cup Carried(todo)
<2> DEFINE M == Range(output) \cup {nextExpectedIndex} \cup Reach(InHand)
<2>1. Line(M, net["source"], todo, taken)
  BY <1>1 DEF InOrder
<2> HIDE DEF M
<2> DEFINE first == net["source"]
           longer == net'["source"]
           rest == todo'
<2>2. Same(sent, Head(todo))
  BY <1>6 DEF p, Same
<2>3. Moves(M, first, todo, taken, sent) /\ longer = Append(first, sent) /\ rest = Tail(todo)
  BY <1>1, <1>2, <1>5, <1>7, <2>1, <2>2 DEF Moves
<2> HIDE DEF first, longer, rest
<2>4. InLine(M, Append(first, sent), Tail(todo), taken, first, todo)
  BY <2>3, LineOfSent
<2>5. InLine(M, longer, rest, taken, first, todo)
  BY <2>3, <2>4
<2>6. QED BY <2>5 DEF M, first, longer, rest, InLine
<1>10. InOrder'
  BY <1>1, <1>7, <1>8, <1>9 DEF InOrder
<1>11. Coming' = Coming
  BY <1>1, <1>7, <1>8, <1>9 DEF Coming
<1>12. Complete'
  BY <1>1, <1>8, <1>11 DEF Complete
<1>13. LabelsKeepTheirElement'
  BY <1>1 DEF LabelsKeepTheirElement
<1>14. QED BY <1>10, <1>12, <1>13

LEMMA SinkWorkKeepsStream ==
    ASSUME Streaming, SinkWork PROVE InOrder' /\ Complete' /\ LabelsKeepTheirElement'
<1>1. PICK n \in 1..MaxBuffer, queue \in Seq(taken + 1..MaxElements) :
          todo' = Packets(n, queue) /\ taken' = taken + n
  BY WorkFacts
<1>2. /\ Counted /\ InOrder /\ Complete /\ LabelsKeepTheirElement /\ todo = <<>>
      /\ UNCHANGED <<end, net, output, labels, nextExpectedIndex, dropped, parted>>
  BY DEF Streaming, SinkWork, history
<1>3. net["source"] \in Seq(Packet) /\ taken \in Nat /\ Behind(InHand) \in SUBSET Nat /\ n \in Nat /\ n > 0
  BY <1>2, HandTypes
<1>4. /\ Line(Behind(InHand), net["source"], todo', taken + n)
      /\ Carried(todo') = taken + 1..taken + n
<2>1. Line(Behind(InHand), net["source"], <<>>, taken)
  BY <1>2 DEF InOrder, Behind
<2>2. QED BY <1>1, <1>3, <2>1, LineOfWork
<1>5. InHand' = InHand
  BY <1>2 DEF InHand
<1>6. InOrder'
  BY <1>1, <1>2, <1>4, <1>5 DEF InOrder, Behind
<1>7. Coming' = Coming \cup (taken + 1..taken + n)
<2>1. Carried(todo) = {}
  BY <1>2 DEF Carried
<2>2. QED BY <1>2, <1>4, <1>5, <2>1 DEF Coming
<1>8. Complete'
<2>1. (1..taken) \cup (taken + 1..taken + n) = 1..taken + n
  BY <1>3
<2>2. Range(output) \cup Coming = 1..taken => Range(output') \cup Coming' = 1..taken'
  BY <1>1, <1>2, <1>7, <2>1
<2>3. QED BY <1>2, <1>5, <2>2 DEF Complete
<1>9. LabelsKeepTheirElement'
  BY <1>2 DEF LabelsKeepTheirElement
<1>10. QED BY <1>6, <1>8, <1>9

\* What end e sends or receives, and does not belong to the stream
LEMMA OthersKeepStream ==
    ASSUME Streaming, NEW e \in Ends,
           \/ Activate(e) \/ Deactivate(e)
           \/ OpenEnds(e) \/ CloseEnds(e) \/ OpenTimesOut(e) \/ CloseTimesOut(e)
           \/ e = "sink" /\ (HandshakeRecv(e) \/ SinkHandleState)
    PROVE  InOrder' /\ Complete' /\ LabelsKeepTheirElement'
<1>1. /\ Counted /\ end \in [Ends -> Endpoint] /\ net \in [Ends -> Seq(Packet)]
      /\ "sink" \in Ends /\ "source" \in Ends /\ Peer("sink") = "source" /\ Peer("source") = "sink"
      /\ (e = "sink" \/ e = "source") /\ length \in [Ends -> Nat]
      /\ <<>> \in Seq(Packet) /\ Bare(<<>>) /\ net["source"] \o <<>> = net["source"]
<2>1. Counted /\ end \in [Ends -> Endpoint] /\ net \in [Ends -> Seq(Packet)] /\ length \in [Ends -> Nat]
  BY DEF Streaming, Counted, Types
<2>2. /\ "sink" \in Ends /\ "source" \in Ends /\ Peer("sink") = "source" /\ Peer("source") = "sink"
      /\ e = "sink" \/ e = "source"
  BY DEF Ends, Peer
<2>3. net["source"] \in Seq(Packet)
  BY <2>1, <2>2
<2>4. <<>> \in Seq(Packet) /\ Bare(<<>>) /\ net["source"] \o <<>> = net["source"]
  BY <2>3 DEF Bare
<2>5. QED BY <2>1, <2>2, <2>4
<1>2. ASSUME NEW x, Becomes(e, x), x.end.part = end[e].part, x.end \in Endpoint,
             x.out \in Seq(Packet), Bare(x.out),
             UNCHANGED <<todo, taken, output, labels, nextExpectedIndex, parted, dropped>>
      PROVE  InOrder' /\ Complete' /\ LabelsKeepTheirElement'
<2>1. end'["source"].part = end["source"].part
  BY <1>1, <1>2 DEF Becomes
<2>2. CASE e = "sink"
<3>1. net'["source"] = net["source"] \o x.out
  BY <1>1, <1>2, <2>2 DEF Becomes
<3>2. QED BY <1>2, <2>1, <3>1, BareKeepsStream
<2>3. CASE e = "source"
<3>1. net'["source"] = net["source"] \o <<>>
  BY <1>1, <1>2, <2>3 DEF Becomes
<3>2. QED BY <1>1, <1>2, <2>1, <3>1, BareKeepsStream
<2>4. QED BY <1>1, <2>2, <2>3
<1>3. CASE Activate(e)
<2>1. PICK start \in Starts : Becomes(e, openComms(end[e], start))
  BY <1>3 DEF Activate
<2> DEFINE x == openComms(end[e], start)
<2>2. start \in Counts /\ end[e] \in Endpoint
  BY <1>1, SocketAssumption DEF Counts
<2>3. x.end \in Endpoint /\ x.out \in Seq(Packet) /\ Bare(x.out) /\ x.end.part = end[e].part
  BY <2>2, OpenFacts
<2>4. UNCHANGED <<todo, taken, output, labels, nextExpectedIndex, parted, dropped>>
  BY <1>3 DEF Activate, blocks
<2>5. QED BY <1>2, <2>1, <2>3, <2>4
<1>4. CASE Deactivate(e)
<2> DEFINE x == closeComms(end[e])
<2>1. Becomes(e, x) /\ UNCHANGED <<todo, taken, output, labels, nextExpectedIndex, parted, dropped>>
  BY <1>4 DEF Deactivate, blocks, history
<2>2. end[e] \in Endpoint /\ end[e].state \in {"ESTABLISHED", "CLOSE_WAIT"}
  BY <1>1, <1>4 DEF Deactivate, Counted, Sessions, Possible
<2>3. x.end \in Endpoint /\ x.out \in Seq(Packet) /\ Bare(x.out) /\ x.end.part = end[e].part
  BY <2>2, CloseFacts
<2>4. QED BY <1>2, <2>1, <2>3
<1>5. CASE OpenEnds(e) \/ CloseEnds(e) \/ OpenTimesOut(e) \/ CloseTimesOut(e)
<2> DEFINE new == [end[e] EXCEPT !.state = "CLOSED"]
<2>1. /\ net' = net
      /\ end' = end \/ end' = [end EXCEPT ![e] = new]
      /\ UNCHANGED <<todo, taken, output, labels, nextExpectedIndex, parted, dropped>>
  BY <1>5 DEF OpenEnds, CloseEnds, OpenTimesOut, CloseTimesOut, blocks, history
<2>2. end'["source"].part = end["source"].part
<3>1. end[e] \in Endpoint
  BY <1>1
<3>2. new.part = end[e].part
  BY <3>1 DEF Endpoint
<3> HIDE DEF new
<3>3. QED BY <1>1, <2>1, <3>2
<2>3. net'["source"] = net["source"] \o <<>>
  BY <1>1, <2>1
<2>4. QED BY <1>1, <2>1, <2>2, <2>3, BareKeepsStream
<1>6. CASE e = "sink" /\ (HandshakeRecv(e) \/ SinkHandleState)
<2>1. PICK room \in Nat : Receives("sink", recv(end["sink"], net["sink"], room)) /\ isRecvReady("sink")
<3>1. HandshakeRecv("sink") => Receives("sink", recv(end["sink"], net["sink"], length["sink"]))
                               /\ isRecvReady("sink")
  BY DEF Receivable, HandshakeRecv
<3>2. SinkHandleState => Receives("sink", recv(end["sink"], net["sink"], 0)) /\ isRecvReady("sink")
  BY DEF Receivable, SinkHandleState
<3>3. length["sink"] \in Nat /\ 0 \in Nat
  BY <1>1
<3>4. QED BY <1>6, <3>1, <3>2, <3>3
<2> DEFINE x == recv(end["sink"], net["sink"], room)
<2>2. /\ end["sink"] \in Endpoint /\ net["sink"] \in Seq(Packet)
      /\ net["sink"] # <<>> \/ end["sink"].part.rest # <<>>
  BY <1>1, <2>1 DEF isRecvReady
<2>3. x.out \in Seq(Packet) /\ Bare(x.out)
  BY <2>2, ReceiveFacts
<2>4. /\ UNCHANGED <<todo, taken, output, labels, nextExpectedIndex, parted>>
      /\ dropped => dropped'
<3>1. HandshakeRecv(e) => UNCHANGED <<todo, taken, output, labels, nextExpectedIndex, parted>>
  BY DEF HandshakeRecv, blocks
<3>2. HandshakeRecv(e) => (dropped => dropped')
  BY DEF HandshakeRecv
<3>3. SinkHandleState => UNCHANGED <<todo, taken, output, labels, nextExpectedIndex, parted, dropped>>
  BY DEF SinkHandleState, blocks, history
<3>4. QED BY <1>6, <3>1, <3>2, <3>3
<2>5. /\ end' = [end EXCEPT !["sink"] = x.end]
      /\ net' = [net EXCEPT !["source"] = @ \o x.out, !["sink"] = x.packets]
  BY <1>1, <2>1 DEF Receives
<2> HIDE DEF x
<2>6. end'["source"].part = end["source"].part /\ net'["source"] = net["source"] \o x.out
  BY <1>1, <2>5
<2>7. QED BY <2>3, <2>4, <2>6, BareKeepsStream
<1>7. QED BY <1>3, <1>4, <1>5, <1>6

LEMMA InitStream == Init => Streaming
<1> SUFFICES ASSUME Init PROVE Streaming
  OBVIOUS
<1>1. Counted
  BY InitCounts
<1>2. /\ output = <<>> /\ labels = {} /\ nextExpectedIndex = 0 /\ taken = 0 /\ todo = <<>>
      /\ net["source"] = <<>> /\ ~dropped /\ ~parted
  BY DEF Init, Ends
<1>3. InHand = [type |-> "none", index |-> 0, payload |-> <<>>]
<2>1. end["source"].part = NoPart
  BY DEF Init, Ends, NewEnd
<2>2. QED BY <2>1 DEF InHand, NoPart
<1>4. Reach(InHand) = {} /\ Begun(InHand) /\ Elements(InHand) = {} /\ InHand.payload = <<>>
<2>1. InHand.type = "none" /\ InHand.payload = <<>>
  BY <1>3
<2>2. QED BY <2>1, BareIsNeutral DEF Begun
<1>5. Range(<<>>) = {} /\ Len(<<>>) = 0 /\ 1..0 = {} /\ 0 <= 0
  BY DEF Range
<1>6. InOrder
<2>1. Line({0}, <<>>, <<>>, 0)
  BY <1>5 DEF Line
<2>2. Line(Range(output) \cup {nextExpectedIndex} \cup Reach(InHand), net["source"], todo, taken)
  BY <1>2, <1>4, <1>5, <2>1
<2>3. QED BY <1>2, <1>4, <1>5, <2>2 DEF InOrder
<1>7. Complete
<2>1. Coming = {}
  BY <1>2, <1>4, <1>5 DEF Coming, Carried
<2>2. QED BY <1>2, <1>4, <1>5, <2>1 DEF Complete
<1>8. QED BY <1>1, <1>2, <1>6, <1>7 DEF Streaming, LabelsKeepTheirElement

LEMMA StepKeepsStream == Streaming /\ [Next]_vars => Streaming'
<1> SUFFICES ASSUME Streaming, [Next]_vars PROVE Streaming'
  OBVIOUS
<1>1. Counted'
  BY StepKeepsCounts DEF Streaming
<1>2. InOrder' /\ Complete' /\ LabelsKeepTheirElement'
<2>1. CASE UNCHANGED vars
<3>1. UNCHANGED <<InHand, Coming>>
  BY <2>1 DEF vars, blocks, history, InHand, Coming
<3>2. QED BY <2>1, <3>1 DEF vars, blocks, history, Streaming, InOrder, Complete, LabelsKeepTheirElement
<2>2. ASSUME NEW e \in Ends,
             \/ Activate(e) \/ OpenEnds(e) \/ OpenTimesOut(e)
             \/ Deactivate(e) \/ CloseEnds(e) \/ CloseTimesOut(e)
             \/ HandshakeRecv(e)
      PROVE  InOrder' /\ Complete' /\ LabelsKeepTheirElement'
<3>1. e = "sink" \/ e = "source"
  BY DEF Ends
<3>2. QED BY <2>2, <3>1, OthersKeepStream, SourceDropKeepsStream
<2>3. "sink" \in Ends
  BY DEF Ends
<2>4. QED BY <2>1, <2>2, <2>3, OthersKeepStream, SinkWorkKeepsStream, SinkSendKeepsStream,
             SourceWorkKeepsStream DEF Next
<1>3. QED BY <1>1, <1>2 DEF Streaming

\* In every state each end can tell which elements are still to come, in which
\* order and after which index: the packet in the source's hands, those on the
\* way and those that work() has not sent yet line up without a gap behind the
\* output (Streaming).  As everything in this module it rests on ShortAssumption:
\* no buffer or label is longer than its header can say.
THEOREM AlwaysStreaming == Spec => []Streaming
<1>1. QED BY InitStream, StepKeepsStream, PTL DEF Spec

\* States, packet counts and the expected index have their types (TypeOK).
THEOREM TypesHold == Spec => []TypeOK
<1>1. Streaming => TypeOK
<2> SUFFICES ASSUME Streaming PROVE TypeOK
  OBVIOUS
<2>1. Counted /\ InOrder
  BY DEF Streaming
<2>2. ASSUME NEW e \in Ends
      PROVE  /\ end[e].state \in States
             /\ {end[e].lastSentPacketCount, end[e].nextRecvPacketCount} \subseteq 0..CountMod - 1
             /\ phase[e] = "off" => end[e].state \in {"LISTEN", "CLOSED"}
             /\ phase[e] = "on" => end[e].state \in {"ESTABLISHED", "CLOSE_WAIT"}
             /\ \A i \in DOMAIN net[e] : net[e][i].type \in {"none", "Buffer", "Label"}
<3>1. end[e] \in Endpoint /\ net[e] \in Seq(Packet)
  BY <2>1 DEF Counted, Types
<3>2. /\ end[e].state \in States
      /\ {end[e].lastSentPacketCount, end[e].nextRecvPacketCount} \subseteq 0..CountMod - 1
  BY <3>1 DEF Endpoint, Counts
<3>3. \A i \in DOMAIN net[e] : net[e][i] \in Packet
  BY <3>1
<3>4. \A i \in DOMAIN net[e] : net[e][i].type \in {"none", "Buffer", "Label"}
  BY <3>3 DEF Packet, Kinds
<3>5. Possible(e)
  BY <2>1 DEF Counted, Sessions
<3>6. QED BY <3>2, <3>4, <3>5 DEF Possible
<2>3. nextExpectedIndex \in 0..taken
<3>1. nextExpectedIndex \in Nat /\ taken \in Nat
  BY <2>1, HandTypes
<3>2. nextExpectedIndex <= taken
  BY <2>1 DEF InOrder, Line
<3>3. QED BY <3>1, <3>2
<2>4. QED BY <2>1, <2>2, <2>3 DEF TypeOK, Counted, Sessions
<1>2. QED BY <1>1, AlwaysStreaming, PTL

\* A label is never posted behind its element, and at its element as long as
\* buffers come whole and no handshake drops anything (LabelsKeepTheirElement).
THEOREM LabelsStayWithTheirElement == Spec => []LabelsKeepTheirElement
<1>1. Streaming => LabelsKeepTheirElement
  BY DEF Streaming
<1>2. QED BY <1>1, AlwaysStreaming, PTL

\* The elements of a packet lie beyond what it does not lie before.
LEMMA FreshIsBeyond ==
    ASSUME NEW q, q.index \in Nat, q.payload \in Seq(Nat), Fresh(q),
           NEW m \in Nat, From(q, m), NEW c \in Elements(q)
    PROVE  m < c
<1>1. q.type = "Buffer" /\ c \in Range(q.payload)
  BY DEF Elements
<1>2. PICK k \in 1..Len(q.payload) : c = q.payload[k]
  BY <1>1 DEF Range
<1>3. c = q.index + k /\ m <= q.index
  BY <1>1, <1>2 DEF Fresh, From
<1>4. k \in Nat \ {0}
  BY <1>2
<1>5. QED BY <1>3, <1>4

\* The three parts of what is on the way
LEMMA ThreeParts ==
    ASSUME NEW S, NEW p \in S, NEW first \in Seq(S), NEW last \in Seq(S)
    PROVE  LET all == <<p>> \o first \o last
           IN  /\ DOMAIN all = 1..1 + Len(first) + Len(last)
               /\ Len(first) \in Nat /\ Len(last) \in Nat
               /\ all[1] = p
               /\ \A k \in 1..Len(first) : all[1 + k] = first[k]
               /\ \A k \in 1..Len(last) : all[1 + Len(first) + k] = last[k]
<1> DEFINE front == <<p>> \o first
<1>1. /\ front \in Seq(S) /\ Len(front) = 1 + Len(first) /\ Len(first) \in Nat
      /\ front[1] = p /\ \A k \in 1..Len(first) : front[1 + k] = first[k]
<2>1. <<p>> \in Seq(S) /\ Len(<<p>>) = 1 /\ <<p>>[1] = p
  OBVIOUS
<2> DEFINE h == <<p>>
<2> HIDE DEF h
<2>2. h \in Seq(S) /\ Len(h) = 1 /\ h[1] = p
  BY <2>1 DEF h
<2>3. /\ h \o first \in Seq(S) /\ Len(h \o first) = Len(h) + Len(first) /\ Len(first) \in Nat
      /\ \A k \in 1..Len(h) : (h \o first)[k] = h[k]
      /\ \A k \in 1..Len(first) : (h \o first)[Len(h) + k] = first[k]
<3>1. h \in Seq(S)
  BY <2>2
<3>2. h \o first \in Seq(S) /\ Len(h \o first) = Len(h) + Len(first) /\ Len(first) \in Nat
  BY <3>1
<3>3. \A k \in 1..Len(h) : (h \o first)[k] = h[k]
  BY <3>1
<3>4. \A k \in 1..Len(first) : (h \o first)[Len(h) + k] = first[k]
  BY <3>1
<3>5. QED BY <3>2, <3>3, <3>4
<2>4. (h \o first)[1] = p
  BY <2>2, <2>3
<2>5. \A k \in 1..Len(first) : (h \o first)[1 + k] = first[k]
  BY <2>2, <2>3
<2>6. QED BY <2>2, <2>3, <2>4, <2>5 DEF h
<1> HIDE DEF front
<1>2. /\ front \o last \in Seq(S) /\ Len(front \o last) = Len(front) + Len(last) /\ Len(last) \in Nat
      /\ \A k \in 1..Len(front) : (front \o last)[k] = front[k]
      /\ \A k \in 1..Len(last) : (front \o last)[Len(front) + k] = last[k]
<2>1. front \in Seq(S)
  BY <1>1
<2>2. front \o last \in Seq(S) /\ Len(front \o last) = Len(front) + Len(last) /\ Len(last) \in Nat
  BY <2>1
<2>3. \A k \in 1..Len(front) : (front \o last)[k] = front[k]
  BY <2>1
<2>4. \A k \in 1..Len(last) : (front \o last)[Len(front) + k] = last[k]
  BY <2>1
<2>5. QED BY <2>2, <2>3, <2>4
<1> DEFINE all == front \o last
<1> HIDE DEF all
<1>3. /\ all \in Seq(S) /\ Len(all) = Len(front) + Len(last) /\ Len(last) \in Nat
      /\ \A k \in 1..Len(front) : all[k] = front[k]
      /\ \A k \in 1..Len(last) : all[Len(front) + k] = last[k]
  BY <1>2 DEF all
<1>4. DOMAIN all = 1..1 + Len(first) + Len(last)
  BY <1>1, <1>3
<1>5. all[1] = p
<2>1. 1 \in 1..Len(front)
  BY <1>1
<2>2. QED BY <1>1, <1>3, <2>1
<1>6. ASSUME NEW k \in 1..Len(first) PROVE all[1 + k] = first[k]
<2>1. 1 + k \in 1..Len(front)
  BY <1>1
<2>2. QED BY <1>1, <1>3, <2>1
<1>7. \A k \in 1..Len(last) : all[1 + Len(first) + k] = last[k]
  BY <1>1, <1>3
<1>8. QED BY <1>1, <1>3, <1>4, <1>5, <1>6, <1>7 DEF all, front

LEMMA WayFacts ==
    ASSUME Counted
    PROVE  /\ DOMAIN OnTheWay = 1..1 + Len(net["source"]) + Len(todo)
           /\ Len(net["source"]) \in Nat /\ Len(todo) \in Nat
           /\ OnTheWay[1] = InHand
           /\ \A k \in 1..Len(net["source"]) : OnTheWay[1 + k] = net["source"][k]
           /\ \A k \in 1..Len(todo) : OnTheWay[1 + Len(net["source"]) + k] = todo[k]
<1> DEFINE S == Packet \cup Item \cup {InHand}
           p == InHand
           first == net["source"]
           last == todo
<1>1. \A T, U : T \subseteq U => Seq(T) \subseteq Seq(U)
  OBVIOUS
<1>2. first \in Seq(Packet) /\ last \in Seq(Item)
  BY HandTypes
<1>3. Packet \subseteq S /\ Item \subseteq S /\ p \in S
  OBVIOUS
<1> HIDE DEF S, p, first, last
<1>4. first \in Seq(S) /\ last \in Seq(S)
  BY <1>1, <1>2, <1>3
<1>5. OnTheWay = <<p>> \o first \o last
  BY DEF OnTheWay, p, first, last
<1>6. /\ DOMAIN (<<p>> \o first \o last) = 1..1 + Len(first) + Len(last)
      /\ Len(first) \in Nat /\ Len(last) \in Nat
      /\ (<<p>> \o first \o last)[1] = p
      /\ \A k \in 1..Len(first) : (<<p>> \o first \o last)[1 + k] = first[k]
      /\ \A k \in 1..Len(last) : (<<p>> \o first \o last)[1 + Len(first) + k] = last[k]
  BY <1>3, <1>4, ThreeParts
<1>7. QED BY <1>5, <1>6 DEF p, first, last

\* Each packet on the way but the first was not touched yet, and lies behind what
\* has come out and behind those before it.
LEMMA WayIsOrdered ==
    ASSUME Counted, InOrder, NEW i \in DOMAIN OnTheWay, i # 1
    PROVE  LET q == OnTheWay[i]
           IN  /\ Fresh(q) /\ q.index \in Nat /\ q.payload \in Seq(Nat)
               /\ \A m \in Behind(InHand) : From(q, m)
               /\ \A j \in 1..i - 1 : j # 1 => \A m \in Reach(OnTheWay[j]) : From(q, m)
<1> DEFINE first == net["source"]
           q == OnTheWay[i]
<1>1. Line(Behind(InHand), first, todo, taken) /\ first \in Seq(Packet) /\ todo \in Seq(Item)
  BY HandTypes DEF InOrder, Behind
<1>2. /\ i \in 1..1 + Len(first) + Len(todo) /\ Len(first) \in Nat /\ Len(todo) \in Nat
      /\ \A k \in 1..Len(first) : OnTheWay[1 + k] = first[k]
      /\ \A k \in 1..Len(todo) : OnTheWay[1 + Len(first) + k] = todo[k]
  BY WayFacts
<1> HIDE DEF first
<1>3. CASE i - 1 \in 1..Len(first)
<2> DEFINE k == i - 1
<2>1. k \in 1..Len(first) /\ q = first[k]
<3>1. k \in 1..Len(first) /\ 1 + k = i
  BY <1>2, <1>3
<3>2. QED BY <1>2, <3>1
<2>2. ASSUME NEW j \in 1..i - 1, j # 1 PROVE Precedes(OnTheWay[j], first[k])
<3>1. j - 1 \in 1..Len(first) /\ 1 + (j - 1) = j /\ k \in (j - 1) + 1..Len(first)
  BY <1>2, <1>3, <2>2
<3>2. OnTheWay[j] = first[j - 1]
  BY <1>2, <3>1
<3>3. Precedes(first[j - 1], first[k])
  BY <1>1, <3>1 DEF Line
<3>4. QED BY <3>2, <3>3
<2> HIDE DEF k
<2>3. first[k] \in Packet /\ Fresh(first[k]) /\ \A m \in Behind(InHand) : From(first[k], m)
  BY <1>1, <2>1 DEF Line
<2>4. first[k].index \in Nat /\ first[k].payload \in Seq(Nat)
  BY <2>3 DEF Packet
<2>5. QED BY <2>1, <2>2, <2>3, <2>4 DEF Precedes
<1>4. CASE i - 1 \notin 1..Len(first)
<2> DEFINE k == i - 1 - Len(first)
<2>1. k \in 1..Len(todo) /\ q = todo[k]
<3>1. k \in 1..Len(todo) /\ 1 + Len(first) + k = i
  BY <1>2, <1>4
<3>2. QED BY <1>2, <3>1
<2>2. ASSUME NEW j \in 1..i - 1, j # 1 PROVE Precedes(OnTheWay[j], todo[k])
<3>1. CASE j - 1 \in 1..Len(first)
<4>1. 1 + (j - 1) = j
  BY <3>1
<4>2. OnTheWay[j] = first[j - 1]
  BY <1>2, <3>1, <4>1
<4>3. Precedes(first[j - 1], todo[k])
  BY <1>1, <2>1, <3>1 DEF Line
<4>4. QED BY <4>2, <4>3
<3>2. CASE j - 1 \notin 1..Len(first)
<4> DEFINE l == j - 1 - Len(first)
<4>1. l \in 1..Len(todo) /\ 1 + Len(first) + l = j /\ k \in l + 1..Len(todo)
<5>1. j \in 1..i - 1 /\ j # 1 /\ i \in Nat /\ j - 1 \notin 1..Len(first)
  BY <1>2, <2>2, <3>2
<5>2. l \in Int /\ l >= 1 /\ 1 + Len(first) + l = j
  BY <1>2, <5>1
<5>3. l + 1 <= k /\ k <= Len(todo)
  BY <1>2, <5>1
<5>4. QED BY <1>2, <5>2, <5>3
<4> HIDE DEF l
<4>2. OnTheWay[j] = todo[l]
  BY <1>2, <4>1
<4>3. Precedes(todo[l], todo[k])
  BY <1>1, <4>1 DEF Line
<4>4. QED BY <4>2, <4>3
<3>3. QED BY <3>1, <3>2
<2> HIDE DEF k
<2>3. todo[k] \in Item /\ Fresh(todo[k]) /\ \A m \in Behind(InHand) : From(todo[k], m)
  BY <1>1, <2>1 DEF Line
<2>4. todo[k].index \in Nat /\ todo[k].payload \in Seq(Nat)
  BY <2>3, ShortIsWhole DEF Item
<2>5. QED BY <2>1, <2>2, <2>3, <2>4 DEF Precedes
<1>5. QED BY <1>3, <1>4

LEMMA ComingIsOnTheWay ==
    ASSUME Counted
    PROVE  (UNION {Elements(OnTheWay[i]) : i \in DOMAIN OnTheWay}) = Coming
<1> DEFINE first == net["source"]
<1>1. /\ DOMAIN OnTheWay = 1..1 + Len(first) + Len(todo) /\ Len(first) \in Nat /\ Len(todo) \in Nat
      /\ OnTheWay[1] = InHand
      /\ \A k \in 1..Len(first) : OnTheWay[1 + k] = first[k]
      /\ \A k \in 1..Len(todo) : OnTheWay[1 + Len(first) + k] = todo[k]
  BY WayFacts
<1>2. Coming = Elements(InHand) \cup Carried(first) \cup Carried(todo)
  BY DEF Coming
<1> HIDE DEF first
<1>3. ASSUME NEW i \in DOMAIN OnTheWay, NEW a \in Elements(OnTheWay[i]) PROVE a \in Coming
<2>1. CASE i = 1
  BY <1>1, <1>2, <1>3, <2>1
<2>2. CASE i - 1 \in 1..Len(first)
<3>1. OnTheWay[i] = first[i - 1]
<4>1. 1 + (i - 1) = i
  BY <2>2
<4>2. QED BY <1>1, <2>2, <4>1
<3>2. a \in Carried(first)
  BY <1>3, <2>2, <3>1 DEF Carried
<3>3. QED BY <1>2, <3>2
<2>3. CASE i # 1 /\ i - 1 \notin 1..Len(first)
<3> DEFINE k == i - 1 - Len(first)
<3>1. k \in 1..Len(todo) /\ 1 + Len(first) + k = i
  BY <1>1, <2>3
<3> HIDE DEF k
<3>2. OnTheWay[i] = todo[k]
  BY <1>1, <3>1
<3>3. a \in Carried(todo)
  BY <1>3, <3>1, <3>2 DEF Carried
<3>4. QED BY <1>2, <3>3
<2>4. QED BY <2>1, <2>2, <2>3
<1>4. ASSUME NEW a \in Coming PROVE \E i \in DOMAIN OnTheWay : a \in Elements(OnTheWay[i])
<2>1. CASE a \in Elements(InHand)
<3>1. 1 \in DOMAIN OnTheWay
  BY <1>1
<3>2. QED BY <1>1, <2>1, <3>1
<2>2. CASE a \in Carried(first)
<3>1. PICK k \in 1..Len(first) : a \in Elements(first[k])
  BY <2>2 DEF Carried
<3>2. 1 + k \in DOMAIN OnTheWay /\ OnTheWay[1 + k] = first[k]
  BY <1>1
<3>3. QED BY <3>1, <3>2
<2>3. CASE a \in Carried(todo)
<3>1. PICK k \in 1..Len(todo) : a \in Elements(todo[k])
  BY <2>3 DEF Carried
<3>2. 1 + Len(first) + k \in DOMAIN OnTheWay /\ OnTheWay[1 + Len(first) + k] = todo[k]
  BY <1>1
<3>3. QED BY <3>1, <3>2
<2>4. QED BY <1>2, <1>4, <2>1, <2>2, <2>3
<1>5. QED BY <1>3, <1>4

\* Elements come out in order and at most once, whatever handshakes come between;
\* if none dropped anything, they come out without a gap and all the others are
\* on their way (StreamInOrder).  This holds for any number of buffers of any
\* length below LengthMod, 2^16 in the code, with any labels before them
\* (ShortAssumption); a longer one breaks the stream.
THEOREM StreamStaysInOrder == Spec => []StreamInOrder
<1>1. Streaming => StreamInOrder
<2> SUFFICES ASSUME Streaming PROVE StreamInOrder
  OBVIOUS
<2>1. Counted /\ InOrder /\ Complete
  BY DEF Streaming
<2>2. output \in Seq(Nat) /\ Len(output) \in Nat /\ Behind(InHand) \subseteq Nat /\ DOMAIN output = 1..Len(output)
<3>1. output \in Seq(Nat) /\ Behind(InHand) \subseteq Nat
  BY <2>1, HandTypes
<3>2. QED BY <3>1
<2>3. ASSUME NEW i \in 1..Len(output) - 1 PROVE output[i] < output[i + 1]
<3>1. i \in 1..Len(output) /\ i + 1 \in i + 1..Len(output)
  BY <2>2
<3>2. QED BY <2>1, <3>1 DEF InOrder
<2>4. ASSUME NEW i \in DOMAIN OnTheWay, NEW b \in Elements(OnTheWay[i])
      PROVE  /\ \A a \in Range(output) : a < b
             /\ \A j \in 1..i - 1 : \A a \in Elements(OnTheWay[j]) : a < b
<3>1. CASE i = 1
<4>1. OnTheWay[1] = InHand /\ 1..1 - 1 = {}
  BY <2>1, WayFacts
<4>2. QED BY <2>1, <2>4, <3>1, <4>1 DEF InOrder
<3>2. CASE i # 1
<4> DEFINE q == OnTheWay[i]
<4>1. /\ Fresh(q) /\ q.index \in Nat /\ q.payload \in Seq(Nat)
      /\ \A m \in Behind(InHand) : From(q, m)
      /\ \A j \in 1..i - 1 : j # 1 => \A m \in Reach(OnTheWay[j]) : From(q, m)
  BY <2>1, <3>2, WayIsOrdered
<4>2. b \in Elements(q)
  BY <2>4
<4> HIDE DEF q
<4>3. \A p : Elements(p) \subseteq Reach(p)
  BY DEF Elements, Reach
<4>4. ASSUME NEW a \in Behind(InHand) PROVE a < b
<5>1. a \in Nat /\ From(q, a)
  BY <2>2, <4>1
<5>2. QED BY <4>1, <4>2, <5>1, FreshIsBeyond
<4>5. ASSUME NEW j \in 1..i - 1, NEW a \in Elements(OnTheWay[j]) PROVE a < b
<5>1. CASE j = 1
<6>1. a \in Behind(InHand)
<7>1. OnTheWay[1] = InHand
  BY <2>1, WayFacts
<7>2. QED BY <4>3, <4>5, <5>1, <7>1 DEF Behind
<6>2. QED BY <4>4, <6>1
<5>2. CASE j # 1
<6>1. j \in DOMAIN OnTheWay
<7>1. DOMAIN OnTheWay = 1..1 + Len(net["source"]) + Len(todo)
      /\ Len(net["source"]) \in Nat /\ Len(todo) \in Nat
  BY <2>1, WayFacts
<7>2. QED BY <7>1
<6>2. OnTheWay[j].index \in Nat /\ OnTheWay[j].payload \in Seq(Nat)
  BY <2>1, <5>2, <6>1, WayIsOrdered
<6>3. a \in Reach(OnTheWay[j])
  BY <4>3, <4>5
<6>4. a \in Nat
  BY <6>2, <6>3, ReachIsNumbers
<6>5. From(q, a)
  BY <4>1, <5>2, <6>3
<6>6. QED BY <4>1, <4>2, <6>4, <6>5, FreshIsBeyond
<5>3. QED BY <5>1, <5>2
<4>6. Range(output) \subseteq Behind(InHand)
  BY DEF Behind
<4>7. QED BY <4>4, <4>5, <4>6
<3>3. QED BY <3>1, <3>2
<2>5. ASSUME ~dropped
      PROVE  /\ output = [i \in 1..Len(output) |-> i]
             /\ Range(output) \cup (UNION {Elements(OnTheWay[i]) : i \in DOMAIN OnTheWay}) = 1..taken
<3>1. (\A i \in 1..Len(output) : output[i] = i) /\ Range(output) \cup Coming = 1..taken
  BY <2>1, <2>5 DEF Complete
<3>2. output = [i \in 1..Len(output) |-> output[i]]
  BY <2>2
<3>3. QED BY <2>1, <3>1, <3>2, ComingIsOnTheWay
<2>6. QED BY <2>3, <2>4, <2>5 DEF StreamInOrder
<1>2. QED BY <1>1, AlwaysStreaming, PTL

(***************************************************************************)
(* Flow control                                                            *)
(***************************************************************************)

\* at[i] is the number of bytes that had been sent when the i-th packet was.
Spaced(at, packets) ==
    /\ at \in [1..Len(packets) + 1 -> Int]
    /\ \A i \in 1..Len(packets) : at[i + 1] = at[i] + Size(packets[i])
    /\ \A i \in 1..Len(packets) + 1 : at[i] <= at[Len(packets) + 1]

\* The packets are what was sent after the first `sent` bytes and up to `total`.
Paid(sent, packets, total) ==
    \E at \in [1..Len(packets) + 1 -> Int] :
        Spaced(at, packets) /\ at[1] = sent /\ at[Len(packets) + 1] = total

\* Packets that take an end that opens into a session
Answers(packet) == packet.flags \cap {"Syn", "Ack"} # {}

Reports(packet) == "Flo" \in packet.flags

LEMMA SizeIsNumber == \A p \in Packet : Len(p.payload) \in Nat /\ Size(p) = Header + Len(p.payload) /\ Size(p) \in Nat
<1> SUFFICES ASSUME NEW p \in Packet
             PROVE  Len(p.payload) \in Nat /\ Size(p) = Header + Len(p.payload) /\ Size(p) \in Nat
  OBVIOUS
<1>1. p.payload \in Seq(Nat)
  BY DEF Packet
<1>2. Len(p.payload) \in Nat
  BY <1>1
<1>3. QED BY <1>2, SocketAssumption DEF Size

LEMMA NothingPaid == \A sent \in Int : Paid(sent, <<>>, sent)
<1> SUFFICES ASSUME NEW sent \in Int PROVE Paid(sent, <<>>, sent)
  OBVIOUS
<1> DEFINE at == [i \in 1..1 |-> sent]
<1>1. Len(<<>>) = 0 /\ at \in [1..Len(<<>>) + 1 -> Int] /\ at[1] = sent
  OBVIOUS
<1>2. Spaced(at, <<>>)
  BY <1>1 DEF Spaced
<1>3. QED BY <1>1, <1>2 DEF Paid

LEMMA OnePaid == \A sent \in Int : \A p \in Packet : Paid(sent, <<p>>, sent + Size(p))
<1> SUFFICES ASSUME NEW sent \in Int, NEW p \in Packet PROVE Paid(sent, <<p>>, sent + Size(p))
  OBVIOUS
<1> DEFINE at == [i \in 1..2 |-> IF i = 1 THEN sent ELSE sent + Size(p)]
<1>1. Size(p) \in Nat
  BY SizeIsNumber
<1>2. Len(<<p>>) = 1 /\ <<p>>[1] = p
  OBVIOUS
<1>3. at \in [1..2 -> Int] /\ at[1] = sent /\ at[2] = sent + Size(p)
  BY <1>1
<1> HIDE DEF at
<1>4. Spaced(at, <<p>>)
  BY <1>1, <1>2, <1>3 DEF Spaced
<1>5. QED BY <1>2, <1>3, <1>4 DEF Paid

\* The positions bt go on where at ends.
Continues(bt, at, first, more, total) ==
    /\ Spaced(bt, first \o more)
    /\ bt[Len(first \o more) + 1] = total /\ bt[1] = at[1]
    /\ \A i \in 1..Len(first) : bt[i] = at[i]
    /\ more # <<>> => bt[Len(first) + 1] = at[Len(first) + 1]

\* Packets behind others have their positions behind them.
LEMMA SpacedOn ==
    ASSUME NEW first \in Seq(Packet), NEW more \in Seq(Packet), NEW total,
           NEW at \in [1..Len(first) + 1 -> Int], Spaced(at, first),
           Paid(at[Len(first) + 1], more, total)
    PROVE  \E bt \in [1..Len(first \o more) + 1 -> Int] : Continues(bt, at, first, more, total)
<1>1. PICK ct \in [1..Len(more) + 1 -> Int] :
          Spaced(ct, more) /\ ct[1] = at[Len(first) + 1] /\ ct[Len(more) + 1] = total
  BY DEF Paid
<1> DEFINE longer == first \o more
           n == Len(first)
           m == Len(more)
           bt == [i \in 1..Len(longer) + 1 |-> IF i <= n + 1 THEN at[i] ELSE ct[i - n]]
<1>2. /\ n \in Nat /\ m \in Nat /\ Len(longer) = n + m
      /\ \A i \in 1..n : longer[i] = first[i]
      /\ \A i \in 1..m : longer[n + i] = more[i]
      /\ more # <<>> => m > 0
  OBVIOUS
<1> HIDE DEF longer, n, m
<1>3. /\ at \in [1..n + 1 -> Int] /\ ct \in [1..m + 1 -> Int] /\ ct[1] = at[n + 1] /\ ct[m + 1] = total
      /\ \A i \in 1..n : at[i + 1] = at[i] + Size(first[i])
      /\ \A i \in 1..n + 1 : at[i] <= at[n + 1]
      /\ \A i \in 1..m : ct[i + 1] = ct[i] + Size(more[i])
      /\ \A i \in 1..m + 1 : ct[i] <= ct[m + 1]
  BY <1>1 DEF Spaced, n, m
<1>4. bt \in [1..Len(longer) + 1 -> Int]
<2>1. ASSUME NEW i \in 1..Len(longer) + 1 PROVE (IF i <= n + 1 THEN at[i] ELSE ct[i - n]) \in Int
<3>1. CASE i <= n + 1
<4>1. i \in 1..n + 1
  BY <1>2, <3>1
<4>2. QED BY <1>3, <3>1, <4>1
<3>2. CASE ~(i <= n + 1)
<4>1. i - n \in 1..m + 1
  BY <1>2, <3>2
<4>2. QED BY <1>3, <3>2, <4>1
<3>3. QED BY <3>1, <3>2
<2>2. QED BY <2>1
<1>5. /\ \A i \in 1..n + 1 : bt[i] = at[i]
      /\ \A i \in 1..m + 1 : bt[n + i] = ct[i]
<2>1. ASSUME NEW i \in 1..n + 1 PROVE bt[i] = at[i]
<3>1. i \in 1..Len(longer) + 1 /\ i <= n + 1
  BY <1>2
<3>2. QED BY <3>1
<2>2. ASSUME NEW i \in 1..m + 1 PROVE bt[n + i] = ct[i]
<3>1. n + i \in 1..Len(longer) + 1 /\ (n + i) - n = i
  BY <1>2
<3>2. CASE i = 1
  BY <1>2, <1>3, <3>1, <3>2
<3>3. CASE i # 1
<4>1. ~(n + i <= n + 1)
  BY <1>2, <3>3
<4>2. QED BY <3>1, <4>1
<3>4. QED BY <3>2, <3>3
<2>3. QED BY <2>1, <2>2
<1> HIDE DEF bt
<1>6. Len(longer) + 1 = n + (m + 1) /\ m + 1 \in 1..m + 1 /\ n + 1 \in 1..n + 1 /\ 1 \in 1..n + 1 /\ 1 \in 1..m + 1
  BY <1>2
<1>7. bt[Len(longer) + 1] = total /\ bt[1] = at[1] /\ total \in Int
  BY <1>3, <1>5, <1>6
<1>8. ASSUME NEW i \in 1..Len(longer) PROVE bt[i + 1] = bt[i] + Size(longer[i])
<2>1. CASE i \in 1..n
<3>1. i \in 1..n + 1 /\ i + 1 \in 1..n + 1
  BY <1>2, <2>1
<3>2. QED BY <1>2, <1>3, <1>5, <2>1, <3>1
<2>2. CASE i \notin 1..n
<3> DEFINE j == i - n
<3>1. j \in 1..m /\ j \in 1..m + 1 /\ j + 1 \in 1..m + 1 /\ i = n + j /\ i + 1 = n + (j + 1)
  BY <1>2, <2>2
<3> HIDE DEF j
<3>2. longer[i] = more[j] /\ bt[i] = ct[j] /\ bt[i + 1] = ct[j + 1]
  BY <1>2, <1>5, <3>1
<3>3. QED BY <1>3, <3>1, <3>2
<2>3. QED BY <2>1, <2>2
<1>9. ASSUME NEW i \in 1..Len(longer) + 1 PROVE bt[i] <= bt[Len(longer) + 1]
<2>1. ct[1] <= total /\ ct[1] \in Int
  BY <1>3, <1>6
<2>2. CASE i \in 1..n + 1
<3>1. bt[i] <= ct[1] /\ bt[i] \in Int
  BY <1>3, <1>5, <2>2
<3>2. QED BY <1>7, <2>1, <3>1
<2>3. CASE i \notin 1..n + 1
<3> DEFINE j == i - n
<3>1. j \in 1..m + 1 /\ i = n + j
  BY <1>2, <2>3
<3> HIDE DEF j
<3>2. QED BY <1>3, <1>5, <1>7, <3>1
<2>4. QED BY <2>2, <2>3
<1>10. \A i \in 1..n : bt[i] = at[i]
<2>1. \A i \in 1..n : i \in 1..n + 1
  BY <1>2
<2>2. QED BY <1>5, <2>1
<1>11. bt[n + 1] = at[n + 1]
  BY <1>5, <1>6
<1>12. Spaced(bt, longer)
  BY <1>4, <1>8, <1>9 DEF Spaced
<1>13. QED BY <1>4, <1>7, <1>10, <1>11, <1>12 DEF Continues, longer, n

\* Packets that are paid for one after the other
LEMMA PaidOn ==
    ASSUME NEW sent, NEW between, NEW total, NEW first \in Seq(Packet), NEW more \in Seq(Packet),
           Paid(sent, first, between), Paid(between, more, total)
    PROVE  Paid(sent, first \o more, total)
<1>1. PICK at \in [1..Len(first) + 1 -> Int] :
          Spaced(at, first) /\ at[1] = sent /\ at[Len(first) + 1] = between
  BY DEF Paid
<1>2. Paid(at[Len(first) + 1], more, total)
  BY <1>1
<1>3. \E bt \in [1..Len(first \o more) + 1 -> Int] : Continues(bt, at, first, more, total)
  BY <1>1, <1>2, SpacedOn
<1>4. QED BY <1>1, <1>3 DEF Paid, Continues

\* The positions without the first packet
LEMMA SpacedTail ==
    ASSUME NEW packets \in Seq(Packet), packets # <<>>,
           NEW at \in [1..Len(packets) + 1 -> Int], Spaced(at, packets)
    PROVE  \E bt \in [1..Len(Tail(packets)) + 1 -> Int] :
              /\ Spaced(bt, Tail(packets))
              /\ bt[Len(Tail(packets)) + 1] = at[Len(packets) + 1]
              /\ bt[1] = at[1] + Size(Head(packets))
              /\ \A i \in 1..Len(Tail(packets)) : bt[i] = at[i + 1]
<1> DEFINE rest == Tail(packets)
           n == Len(packets)
           bt == [i \in 1..n |-> at[i + 1]]
<1>1. /\ n \in Nat \ {0} /\ Len(rest) = n - 1 /\ Head(packets) = packets[1]
      /\ \A i \in 1..n - 1 : rest[i] = packets[i + 1]
  OBVIOUS
<1> HIDE DEF rest, n
<1>2. /\ at \in [1..n + 1 -> Int]
      /\ \A i \in 1..n : at[i + 1] = at[i] + Size(packets[i])
      /\ \A i \in 1..n + 1 : at[i] <= at[n + 1]
  BY DEF Spaced, n
<1>3. \A i \in 1..n : i + 1 \in 1..n + 1
  BY <1>1
<1>4. /\ bt \in [1..n -> Int] /\ \A i \in 1..n : bt[i] = at[i + 1]
  BY <1>2, <1>3
<1> HIDE DEF bt
<1>5. Len(rest) + 1 = n /\ n \in 1..n /\ 1 \in 1..n
  BY <1>1
<1>6. bt[n] = at[n + 1] /\ bt[1] = at[1] + Size(packets[1])
<2>1. 1 + 1 = 2
  OBVIOUS
<2>2. QED BY <1>2, <1>4, <1>5
<1>7. ASSUME NEW i \in 1..n - 1 PROVE bt[i + 1] = bt[i] + Size(rest[i]) /\ bt[i] = at[i + 1]
<2>1. i \in 1..n /\ i + 1 \in 1..n
  BY <1>1
<2>2. QED BY <1>1, <1>2, <1>4, <2>1
<1>8. ASSUME NEW i \in 1..n PROVE bt[i] <= bt[n]
  BY <1>2, <1>3, <1>4, <1>6, <1>8
<1>9. Len(rest) = n - 1
  BY <1>1
<1>10. Spaced(bt, rest)
  BY <1>4, <1>5, <1>7, <1>8, <1>9 DEF Spaced
<1>11. QED BY <1>1, <1>4, <1>5, <1>6, <1>7, <1>9, <1>10 DEF rest, n

\* Send() counts the bytes of the packet, and nothing else.
LEMMA SendCounters ==
    ASSUME NEW x \in Sending, NEW flags \in SUBSET Flags, NEW type \in Kinds,
           NEW index \in Nat, NEW payload \in Short
    PROVE  LET y == Send(x, flags, type, index, payload)
               packet == [flags |-> flags, type |-> type, index |-> index, payload |-> payload,
                          packetCount |-> x.end.lastSentPacketCount]
           IN  /\ y.end.totalBytesSent = x.end.totalBytesSent + Size(packet)
               /\ y.end.lastFlowMsgRecv = x.end.lastFlowMsgRecv
               /\ y.end.lastFlowMsgSent = x.end.lastFlowMsgSent
<1> DEFINE packet == [flags |-> flags, type |-> type, index |-> index, payload |-> payload,
                      packetCount |-> x.end.lastSentPacketCount]
           e == [x.end EXCEPT !.lastSentPacketCount = (@ + 1) % CountMod,
                              !.totalBytesSent = @ + Size(packet)]
           y == Send(x, flags, type, index, payload)
<1>1. x.end \in Endpoint
  BY DEF Sending
<1>2. y = [end |-> e, out |-> Append(x.out, packet)]
<2>1. Announced(payload) = payload /\ Len(payload) < LengthMod
  BY ShortIsWhole
<2>2. Size(packet) = Header + Len(payload)
  BY DEF Size
<2>3. QED BY <2>1, <2>2 DEF Send
<1> HIDE DEF packet
<1>3. /\ e.totalBytesSent = x.end.totalBytesSent + Size(packet)
      /\ e.lastFlowMsgRecv = x.end.lastFlowMsgRecv
      /\ e.lastFlowMsgSent = x.end.lastFlowMsgSent
  BY <1>1 DEF Endpoint
<1> HIDE DEF e, y
<1>4. y.end = e
  BY <1>2
<1>5. QED BY <1>3, <1>4 DEF y, packet

\* The packet with these flags, paid for behind `sent` bytes; none without flags
One(sent, packets, flags, total) ==
    \/ packets = <<>> /\ flags = {} /\ total = sent
    \/ /\ flags # {}
       /\ \E p \in Packet : packets = <<p>> /\ p.flags = flags /\ total = sent + Size(p)

\* A bare packet is the only one that is sent.
LEMMA SendFirst ==
    ASSUME NEW x \in Sending, x.out = <<>>, NEW flags \in SUBSET Flags, flags # {}
    PROVE  LET y == SendFlags(x, flags)
           IN  /\ y \in Sending /\ One(x.end.totalBytesSent, y.out, flags, y.end.totalBytesSent)
               /\ y.end.totalBytesRecv = x.end.totalBytesRecv
               /\ y.end.lastFlowMsgRecv = x.end.lastFlowMsgRecv
               /\ y.end.lastFlowMsgSent = x.end.lastFlowMsgSent
<1> DEFINE y == Send(x, flags, "none", 0, <<>>)
           packet == [flags |-> flags, type |-> "none", index |-> 0, payload |-> <<>>,
                      packetCount |-> x.end.lastSentPacketCount]
<1>1. "none" \in Kinds /\ 0 \in Nat /\ <<>> \in Short
  BY ShortIsWhole DEF Kinds
<1>2. /\ y \in Sending /\ packet \in Packet /\ y.out = Append(x.out, packet)
      /\ y.end.totalBytesRecv = x.end.totalBytesRecv
  BY <1>1, SendFacts
<1>3. /\ y.end.totalBytesSent = x.end.totalBytesSent + Size(packet)
      /\ y.end.lastFlowMsgRecv = x.end.lastFlowMsgRecv
      /\ y.end.lastFlowMsgSent = x.end.lastFlowMsgSent
  BY <1>1, SendCounters
<1>4. packet.flags = flags
  OBVIOUS
<1>5. y = SendFlags(x, flags)
  BY DEF SendFlags
<1> HIDE DEF y, packet
<1>6. y.out = <<packet>>
  BY <1>2
<1>7. One(x.end.totalBytesSent, y.out, flags, y.end.totalBytesSent)
  BY <1>2, <1>3, <1>4, <1>6 DEF One
<1>8. QED BY <1>2, <1>3, <1>5, <1>7

LEMMA StateCounters ==
    ASSUME NEW x \in Sending, x.out = <<>>, NEW flags \in SUBSET Flags
    PROVE  LET y == handleState(x, flags)
           IN  /\ One(x.end.totalBytesSent, y.out, Transition(x.end.state, flags)[1], y.end.totalBytesSent)
               /\ y.end.lastFlowMsgRecv = x.end.lastFlowMsgRecv
               /\ y.end.lastFlowMsgSent = x.end.lastFlowMsgSent
<1> DEFINE to == Transition(x.end.state, flags)
           sent == IF to[1] = {} THEN x ELSE SendFlags(x, to[1])
           y == handleState(x, flags)
<1>1. x.end \in Endpoint /\ x.end.state \in States
  BY DEF Sending, Endpoint
<1>2. to[1] \in SUBSET Flags
  BY <1>1, TransitionFacts
<1> HIDE DEF to
<1>3. /\ sent \in Sending /\ One(x.end.totalBytesSent, sent.out, to[1], sent.end.totalBytesSent)
      /\ sent.end.lastFlowMsgRecv = x.end.lastFlowMsgRecv
      /\ sent.end.lastFlowMsgSent = x.end.lastFlowMsgSent
<2>1. CASE to[1] = {}
  BY <2>1 DEF One
<2>2. CASE to[1] # {}
  BY <1>2, <2>2, SendFirst
<2>3. QED BY <2>1, <2>2
<1>4. y = [sent EXCEPT !.end.state = to[2]]
  BY DEF handleState, to
<1> HIDE DEF sent, y
<1>5. y.end = [sent.end EXCEPT !.state = to[2]] /\ y.out = sent.out /\ sent.end \in Endpoint
  BY <1>3, <1>4 DEF Sending
<1>6. /\ y.end.totalBytesSent = sent.end.totalBytesSent
      /\ y.end.lastFlowMsgRecv = sent.end.lastFlowMsgRecv
      /\ y.end.lastFlowMsgSent = sent.end.lastFlowMsgSent
  BY <1>5 DEF Endpoint
<1>7. QED BY <1>3, <1>5, <1>6 DEF y, to

LEMMA HeaderCounters ==
    ASSUME NEW e \in Endpoint, NEW packet \in Packet
    PROVE  LET y == unpackHeader(e, packet)
           IN  /\ One(e.totalBytesSent, y.out, Transition(e.state, packet.flags)[1], y.end.totalBytesSent)
               /\ y.end.totalBytesRecv = e.totalBytesRecv + Header
               /\ y.end.lastFlowMsgRecv = e.lastFlowMsgRecv
               /\ y.end.lastFlowMsgSent = e.lastFlowMsgSent
<1> DEFINE part == [type |-> packet.type, index |-> packet.index, rest |-> packet.payload]
           next == (Expected(e, packet) + 1) % CountMod
           read == [e EXCEPT !.nextRecvPacketCount = next, !.part = part, !.totalBytesRecv = @ + Header]
<1>1. packet.flags \in SUBSET Flags /\ part \in [type : Kinds, index : Nat, rest : Seq(Nat)]
  BY DEF Packet
<1>2. Expected(e, packet) \in Nat
  BY SocketAssumption DEF Expected, Endpoint, Packet, Counts
<1>3. next \in Counts
  BY <1>2, SuccIsCount DEF Succ
<1>4. e.totalBytesRecv + Header \in Nat
  BY SocketAssumption DEF Endpoint
<1> HIDE DEF part, next
<1>5. /\ read \in Endpoint /\ read.state = e.state
      /\ read.totalBytesRecv = e.totalBytesRecv + Header
      /\ read.totalBytesSent = e.totalBytesSent
      /\ read.lastFlowMsgRecv = e.lastFlowMsgRecv
      /\ read.lastFlowMsgSent = e.lastFlowMsgSent
  BY <1>1, <1>3, <1>4 DEF Endpoint
<1>6. unpackHeader(e, packet) = handleState(Quiet(read), packet.flags)
  BY DEF unpackHeader, part, next
<1> HIDE DEF read
<1>7. Quiet(read) \in Sending /\ Quiet(read).out = <<>> /\ Quiet(read).end = read
  BY <1>5 DEF Quiet, Sending
<1> DEFINE y == handleState(Quiet(read), packet.flags)
<1>8. /\ One(read.totalBytesSent, y.out, Transition(read.state, packet.flags)[1], y.end.totalBytesSent)
      /\ y.end.lastFlowMsgRecv = read.lastFlowMsgRecv
      /\ y.end.lastFlowMsgSent = read.lastFlowMsgSent
  BY <1>1, <1>7, StateCounters
<1>9. y.end.totalBytesRecv = read.totalBytesRecv
  BY <1>1, <1>7, StateFacts
<1> HIDE DEF y
<1>10. y = unpackHeader(e, packet)
  BY <1>6 DEF y
<1>11. QED BY <1>5, <1>8, <1>9, <1>10

\* The last of the packets that reports has this index.
LastReport(packets, index) ==
    \E i \in 1..Len(packets) :
        /\ Reports(packets[i]) /\ packets[i].index = index
        /\ \A j \in i + 1..Len(packets) : ~Reports(packets[j])

Unreported(packets) == \A i \in 1..Len(packets) : ~Reports(packets[i])

\* flowControl() reports the whole of what was received, or is a step behind.
Reported(sent, before, end2, packets) ==
    \/ /\ end2.lastFlowMsgSent = before /\ end2.totalBytesRecv <= before + FlowStep
       /\ packets = <<>> /\ end2.totalBytesSent = sent
    \/ /\ end2.lastFlowMsgSent = end2.totalBytesRecv /\ end2.totalBytesRecv > before + FlowStep
       /\ \E p \in Packet : /\ packets = <<p>> /\ p.flags = {"Flo"} /\ p.index = end2.totalBytesRecv
                            /\ end2.totalBytesSent = sent + Size(p)

LEMMA FlowCounters ==
    ASSUME NEW x \in Sending
    PROVE  LET y == flowControl(x)
           IN  /\ y.end.totalBytesRecv = x.end.totalBytesRecv
               /\ y.end.lastFlowMsgRecv = x.end.lastFlowMsgRecv
               /\ \E report \in Seq(Packet) :
                     /\ y.out = x.out \o report
                     /\ Reported(x.end.totalBytesSent, x.end.lastFlowMsgSent, y.end, report)
<1> DEFINE sent == Send(x, {"Flo"}, "none", Report(x.end), <<>>)
           packet == [flags |-> {"Flo"}, type |-> "none", index |-> Report(x.end), payload |-> <<>>,
                      packetCount |-> x.end.lastSentPacketCount]
           y == flowControl(x)
<1>1. /\ x.end \in Endpoint /\ x.out \in Seq(Packet)
      /\ x.end.totalBytesRecv \in Nat /\ x.end.lastFlowMsgSent \in Nat
  BY DEF Sending, Endpoint
<1>2. CASE x.end.totalBytesRecv <= x.end.lastFlowMsgSent + FlowStep
<2>1. y = x
  BY <1>2 DEF flowControl
<2>2. x.out = x.out \o <<>> /\ <<>> \in Seq(Packet)
  BY <1>1
<2>3. QED BY <1>2, <2>1, <2>2 DEF Reported
<1>3. CASE ~(x.end.totalBytesRecv <= x.end.lastFlowMsgSent + FlowStep)
<2>1. Report(x.end) \in Nat /\ Report(x.end) = x.end.totalBytesRecv
  BY <1>1 DEF Report
<2>2. {"Flo"} \in SUBSET Flags /\ "none" \in Kinds /\ <<>> \in Short
  BY ShortIsWhole DEF Flags, Kinds
<2>3. /\ sent \in Sending /\ packet \in Packet /\ sent.out = Append(x.out, packet)
      /\ sent.end.totalBytesRecv = x.end.totalBytesRecv
  BY <2>1, <2>2, SendFacts
<2>4. /\ sent.end.totalBytesSent = x.end.totalBytesSent + Size(packet)
      /\ sent.end.lastFlowMsgRecv = x.end.lastFlowMsgRecv
  BY <2>1, <2>2, SendCounters
<2>5. y = [sent EXCEPT !.end.lastFlowMsgSent = x.end.totalBytesRecv]
  BY <1>3 DEF flowControl
<2>6. packet.flags = {"Flo"} /\ packet.index = x.end.totalBytesRecv
  BY <2>1
<2> HIDE DEF sent, y, packet
<2>7. y.end = [sent.end EXCEPT !.lastFlowMsgSent = x.end.totalBytesRecv] /\ y.out = sent.out
      /\ sent.end \in Endpoint
  BY <2>3, <2>5 DEF Sending
<2>8. /\ y.end.totalBytesRecv = x.end.totalBytesRecv /\ y.end.lastFlowMsgSent = x.end.totalBytesRecv
      /\ y.end.lastFlowMsgRecv = x.end.lastFlowMsgRecv
      /\ y.end.totalBytesSent = x.end.totalBytesSent + Size(packet)
  BY <2>3, <2>4, <2>7 DEF Endpoint
<2>9. y.out = x.out \o <<packet>> /\ <<packet>> \in Seq(Packet)
  BY <1>1, <2>3, <2>7
<2>10. x.end.totalBytesRecv > x.end.lastFlowMsgSent + FlowStep
  BY <1>1, <1>3, SocketAssumption
<2>11. Reported(x.end.totalBytesSent, x.end.lastFlowMsgSent, y.end, <<packet>>)
  BY <2>3, <2>6, <2>8, <2>10 DEF Reported
<2>12. QED BY <2>8, <2>9, <2>11 DEF y
<1>4. QED BY <1>2, <1>3

LEMMA ReceiveCounters ==
    ASSUME NEW e \in Endpoint, NEW packets \in Seq(Packet), NEW room \in Nat,
           packets # <<>> \/ e.part.rest # <<>>
    PROVE  LET x == recv(e, packets, room)
               isNew == e.part.rest = <<>>
           IN  /\ x.end.totalBytesRecv = e.totalBytesRecv + (IF isNew THEN Header ELSE 0) + x.length
               /\ x.end.lastFlowMsgRecv = IF isNew /\ "Flo" \in Head(packets).flags
                                            THEN Head(packets).index ELSE e.lastFlowMsgRecv
               /\ \E between \in Nat : \E answer \in Seq(Packet), report \in Seq(Packet) :
                     /\ x.out = answer \o report
                     /\ IF isNew THEN One(e.totalBytesSent, answer, Transition(e.state, Head(packets).flags)[1], between)
                                 ELSE answer = <<>> /\ between = e.totalBytesSent
                     /\ Reported(between, e.lastFlowMsgSent, x.end, report)
<1> DEFINE isNew == e.part.rest = <<>>
           x == IF isNew THEN unpackHeader(e, Head(packets)) ELSE Quiet(e)
           part == x.end.part
           taken0 == IF part.type = "Buffer" THEN Min({room, Len(part.rest)}) ELSE Len(part.rest)
           y == [x EXCEPT !.end.part.rest = Left(part, taken0), !.end.totalBytesRecv = @ + taken0]
           z == IF isNew /\ "Flo" \in Head(packets).flags
                  THEN [y EXCEPT !.end.lastFlowMsgRecv = part.index] ELSE y
           done == flowControl(z)
           r == recv(e, packets, room)
<1>1. /\ x \in Sending
      /\ x.end.totalBytesRecv = e.totalBytesRecv + (IF isNew THEN Header ELSE 0)
      /\ x.end.lastFlowMsgRecv = e.lastFlowMsgRecv
      /\ x.end.lastFlowMsgSent = e.lastFlowMsgSent
      /\ IF isNew THEN One(e.totalBytesSent, x.out, Transition(e.state, Head(packets).flags)[1], x.end.totalBytesSent)
                  ELSE x.out = <<>> /\ x.end.totalBytesSent = e.totalBytesSent
      /\ isNew => part.index = Head(packets).index
<2>1. CASE isNew
<3>1. Head(packets) \in Packet
  BY <2>1
<3>2. /\ x \in Sending
      /\ part = [type |-> Head(packets).type, index |-> Head(packets).index, rest |-> Head(packets).payload]
  BY <2>1, <3>1, HeaderFacts
<3>3. /\ One(e.totalBytesSent, x.out, Transition(e.state, Head(packets).flags)[1], x.end.totalBytesSent)
      /\ x.end.totalBytesRecv = e.totalBytesRecv + Header
      /\ x.end.lastFlowMsgRecv = e.lastFlowMsgRecv
      /\ x.end.lastFlowMsgSent = e.lastFlowMsgSent
  BY <2>1, <3>1, HeaderCounters
<3> HIDE DEF x
<3>4. QED BY <2>1, <3>2, <3>3
<2>2. CASE ~isNew
<3>1. x = Quiet(e)
  BY <2>2
<3>2. Quiet(e) \in Sending /\ Quiet(e).end = e /\ Quiet(e).out = <<>>
  BY DEF Quiet, Sending
<3>3. e.totalBytesRecv \in Nat
  BY DEF Endpoint
<3> HIDE DEF x
<3>4. QED BY <2>2, <3>1, <3>2, <3>3
<2>3. QED BY <2>1, <2>2
<1>2. r.end = done.end /\ r.out = done.out /\ r.length = taken0
<2>1. recv(e, packets, room) =
         [end |-> done.end, out |-> done.out,
          packets |-> IF isNew THEN Tail(packets) ELSE packets,
          type |-> part.type, index |-> part.index,
          data |-> SubSeq(part.rest, 1, taken0), length |-> taken0]
  BY DEF recv, isNew, x, y, z, taken0
<2> DEFINE queue == IF isNew THEN Tail(packets) ELSE packets
           data == SubSeq(part.rest, 1, taken0)
<2> HIDE DEF done, part, queue, data, taken0
<2>2. r = [end |-> done.end, out |-> done.out, packets |-> queue, type |-> part.type,
           index |-> part.index, data |-> data, length |-> taken0]
  BY <2>1 DEF queue, data
<2> HIDE DEF r
<2>3. QED BY <2>2
<1>3. r.end \in Endpoint /\ r.length \in Nat /\ r.end.part.rest = Left(part, taken0)
<2>1. /\ r.end \in Endpoint /\ r.length \in 0..Len(Packaged(e, packets).rest)
      /\ r.end.part = [type |-> Packaged(e, packets).type, index |-> Packaged(e, packets).index,
                       rest |-> SubSeq(Packaged(e, packets).rest, r.length + 1, Len(Packaged(e, packets).rest))]
  BY ReceiveFacts
<2>2. part = Packaged(e, packets)
<3>1. CASE isNew
<4>1. Head(packets) \in Packet
  BY <3>1
<4>2. part = [type |-> Head(packets).type, index |-> Head(packets).index, rest |-> Head(packets).payload]
  BY <3>1, <4>1, HeaderFacts
<4> HIDE DEF x
<4>3. QED BY <3>1, <4>2 DEF Packaged
<3>2. CASE ~isNew
  BY <3>2 DEF Quiet, Packaged
<3>3. QED BY <3>1, <3>2
<2> HIDE DEF part, taken0, r
<2>3. r.end.part.rest = SubSeq(part.rest, r.length + 1, Len(part.rest))
<3> DEFINE left == SubSeq(Packaged(e, packets).rest, r.length + 1, Len(Packaged(e, packets).rest))
<3>1. r.end.part = [type |-> Packaged(e, packets).type, index |-> Packaged(e, packets).index, rest |-> left]
  BY <2>1
<3>2. left = SubSeq(part.rest, r.length + 1, Len(part.rest))
  BY ONLY <2>2
<3> HIDE DEF left
<3>3. r.end.part.rest = left
  BY ONLY <3>1
<3>4. QED BY ONLY <3>2, <3>3
<2>4. Left(part, taken0) = SubSeq(part.rest, taken0 + 1, Len(part.rest))
  BY DEF Left
<2>5. r.length \in Nat
<3>1. part.rest \in Seq(Nat)
<4>1. Packaged(e, packets).rest \in Seq(Nat)
<5>1. CASE isNew
<6>1. Head(packets) \in Packet
  BY <5>1
<6>2. QED BY <5>1, <6>1 DEF Packaged, Packet
<5>2. CASE ~isNew
  BY <5>2 DEF Packaged, Endpoint
<5>3. QED BY <5>1, <5>2
<4>2. QED BY <2>2, <4>1
<3>2. Len(part.rest) \in Nat
  BY <3>1
<3>3. QED BY <2>1, <2>2, <3>2
<2>6. QED BY <1>2, <2>1, <2>3, <2>4, <2>5
<1> HIDE DEF isNew, x, part, r, taken0
<1> DEFINE left == Left(part, taken0)
           total == x.end.totalBytesRecv + taken0
           e1 == [x.end EXCEPT !.part.rest = left]
<1>4. left \in Seq(Nat) /\ taken0 \in Nat /\ part \in [type : Kinds, index : Nat, rest : Seq(Nat)]
      /\ x = [end |-> x.end, out |-> x.out] /\ x.end \in Endpoint /\ x.end.totalBytesRecv \in Nat
<2>1. r.end.part.rest \in Seq(Nat)
  BY <1>3 DEF Endpoint
<2>2. x = [end |-> x.end, out |-> x.out] /\ x.end \in Endpoint
  BY <1>1 DEF Sending
<2>3. QED BY <1>2, <1>3, <2>1, <2>2 DEF part, Endpoint
<1>5. total \in Nat
  BY <1>4
<1>6. y = [x EXCEPT !.end.part.rest = left, !.end.totalBytesRecv = @ + taken0]
  OBVIOUS
<1> HIDE DEF left, y
<1>7. y.end = [e1 EXCEPT !.totalBytesRecv = total] /\ y.out = x.out /\ y = [end |-> y.end, out |-> y.out]
<2>1. e1.totalBytesRecv = x.end.totalBytesRecv
  BY <1>4 DEF Endpoint
<2>2. [x EXCEPT !.end.part.rest = left] = [end |-> e1, out |-> x.out]
<3>1. x = [end |-> x.end, out |-> x.out] /\ x.end \in Endpoint
  BY <1>4
<3>2. QED BY ONLY <3>1
<2> HIDE DEF e1
<2>3. y = [[end |-> e1, out |-> x.out] EXCEPT !.end.totalBytesRecv = total]
  BY <1>6, <2>1, <2>2
<2>4. QED BY <2>3
<1>8. /\ e1 \in Endpoint /\ e1.totalBytesSent = x.end.totalBytesSent
      /\ e1.lastFlowMsgRecv = x.end.lastFlowMsgRecv /\ e1.lastFlowMsgSent = x.end.lastFlowMsgSent
<2>1. [part EXCEPT !.rest = left] \in [type : Kinds, index : Nat, rest : Seq(Nat)]
  BY <1>4
<2>2. e1 = [x.end EXCEPT !.part = [part EXCEPT !.rest = left]]
  BY <1>4 DEF part, Endpoint
<2> DEFINE new == [part EXCEPT !.rest = left]
<2> HIDE DEF new, e1
<2>3. e1 = [x.end EXCEPT !.part = new] /\ new \in [type : Kinds, index : Nat, rest : Seq(Nat)]
  BY <2>1, <2>2 DEF new
<2>4. QED BY <1>4, <2>3 DEF Endpoint
<1> HIDE DEF e1, total
<1>9. /\ y.end \in Endpoint /\ y.end.totalBytesRecv = total /\ y.end.totalBytesSent = x.end.totalBytesSent
      /\ y.end.lastFlowMsgRecv = x.end.lastFlowMsgRecv /\ y.end.lastFlowMsgSent = x.end.lastFlowMsgSent
  BY <1>5, <1>7, <1>8 DEF Endpoint
<1>10. /\ z \in Sending /\ z.out = x.out /\ z.end.totalBytesRecv = total
       /\ z.end.totalBytesSent = x.end.totalBytesSent
       /\ z.end.lastFlowMsgSent = x.end.lastFlowMsgSent
       /\ z.end.lastFlowMsgRecv = IF isNew /\ "Flo" \in Head(packets).flags
                                    THEN Head(packets).index ELSE e.lastFlowMsgRecv
<2>1. y \in Sending
  BY <1>1, <1>7, <1>9 DEF Sending
<2>2. CASE isNew /\ "Flo" \in Head(packets).flags
<3> DEFINE index == part.index
<3>1. z = [y EXCEPT !.end.lastFlowMsgRecv = index] /\ index \in Nat
  BY <1>4, <2>2
<3> HIDE DEF index, z, y
<3>2. z.end = [y.end EXCEPT !.lastFlowMsgRecv = index] /\ z.out = y.out /\ z = [end |-> z.end, out |-> z.out]
  BY <2>1, <3>1 DEF Sending
<3>3. /\ z.end \in Endpoint /\ z.end.totalBytesRecv = y.end.totalBytesRecv
      /\ z.end.totalBytesSent = y.end.totalBytesSent
      /\ z.end.lastFlowMsgSent = y.end.lastFlowMsgSent /\ z.end.lastFlowMsgRecv = index
<4>1. PICK f \in Endpoint : f = y.end
  BY ONLY <1>9
<4>2. PICK g \in Endpoint : g = [f EXCEPT !.lastFlowMsgRecv = index]
  BY ONLY <3>1 DEF Endpoint
<4>3. g.lastFlowMsgRecv = index
  BY ONLY <4>2 DEF Endpoint
<4>4. /\ g.totalBytesRecv = f.totalBytesRecv /\ g.totalBytesSent = f.totalBytesSent
      /\ g.lastFlowMsgSent = f.lastFlowMsgSent
  BY ONLY <4>2 DEF Endpoint
<4>5. z.end = g
  BY ONLY <3>2, <4>1, <4>2
<4>6. QED BY ONLY <4>1, <4>3, <4>4, <4>5
<3>4. z \in Sending
  BY <1>1, <1>7, <3>2, <3>3 DEF Sending
<3>5. index = Head(packets).index
  BY <1>1, <2>2 DEF index
<3>6. QED BY <1>7, <1>9, <2>2, <3>2, <3>3, <3>4, <3>5
<2>3. CASE ~(isNew /\ "Flo" \in Head(packets).flags)
  BY <1>1, <1>7, <1>9, <2>1, <2>3
<2>4. QED BY <2>2, <2>3
<1> HIDE DEF z
<1>11. /\ done.end.totalBytesRecv = z.end.totalBytesRecv
       /\ done.end.lastFlowMsgRecv = z.end.lastFlowMsgRecv
       /\ \E report \in Seq(Packet) :
             /\ done.out = z.out \o report
             /\ Reported(z.end.totalBytesSent, z.end.lastFlowMsgSent, done.end, report)
  BY <1>10, FlowCounters
<1> HIDE DEF done
<1>12. PICK report \in Seq(Packet) :
          /\ done.out = z.out \o report
          /\ Reported(z.end.totalBytesSent, z.end.lastFlowMsgSent, done.end, report)
  BY <1>11
<1>13. /\ r.out = x.out \o report /\ x.out \in Seq(Packet)
       /\ Reported(x.end.totalBytesSent, e.lastFlowMsgSent, r.end, report)
       /\ x.end.totalBytesSent \in Nat
  BY <1>1, <1>2, <1>4, <1>10, <1>12 DEF Sending, Endpoint
<1>14. r.end.totalBytesRecv = e.totalBytesRecv + (IF isNew THEN Header ELSE 0) + r.length
  BY <1>1, <1>2, <1>10, <1>11 DEF total
<1>15. r.end.lastFlowMsgRecv = IF isNew /\ "Flo" \in Head(packets).flags
                                 THEN Head(packets).index ELSE e.lastFlowMsgRecv
  BY <1>2, <1>10, <1>11
<1>16. QED BY <1>1, <1>13, <1>14, <1>15 DEF r, isNew

\* The states of an end that takes part in a session and has not begun to leave it
Up == {"SYN_RECEIVED", "ESTABLISHED"}

\* What takes an end into a session, and what it sends then
LEMMA AnswerFacts ==
    ASSUME NEW state \in States, NEW flags \in SUBSET Flags
    PROVE  LET to == Transition(state, flags)
           IN  /\ "Flo" \notin to[1]
               /\ to[2] \in Up => state \in Up \cup {"LISTEN", "SYN_SENT"}
               /\ state \in Up /\ to[2] \in Up => to[1] = {}
               /\ to[2] = "ESTABLISHED" /\ state # "ESTABLISHED" => flags \cap {"Syn", "Ack"} # {}
<1>1. CASE state = "LISTEN"
  BY <1>1 DEF Transition, States, Flags, Up
<1>2. CASE state = "SYN_SENT"
  BY <1>2 DEF Transition, States, Flags, Up
<1>3. CASE state = "SYN_RECEIVED"
  BY <1>3 DEF Transition, States, Flags, Up
<1>4. CASE state = "ESTABLISHED"
  BY <1>4 DEF Transition, States, Flags, Up
<1>5. CASE state = "FIN_WAIT_1"
  BY <1>5 DEF Transition, States, Flags, Up
<1>6. CASE state = "FIN_WAIT_2"
  BY <1>6 DEF Transition, States, Flags, Up
<1>7. CASE state = "CLOSING"
  BY <1>7 DEF Transition, States, Flags, Up
<1>8. CASE state = "LAST_ACK"
  BY <1>8 DEF Transition, States, Flags, Up
<1>9. CASE state \in {"CLOSE_WAIT", "TIME_WAIT", "CLOSED"}
  BY <1>9 DEF Transition, States, Flags, Up
<1>10. QED BY <1>1, <1>2, <1>3, <1>4, <1>5, <1>6, <1>7, <1>8, <1>9 DEF States

\* What recv() sends: at most an answer, and then at most a report
LEMMA ReceiveSends ==
    ASSUME NEW e \in Endpoint, NEW packets \in Seq(Packet), NEW room \in Nat,
           packets # <<>> \/ e.part.rest # <<>>
    PROVE  LET x == recv(e, packets, room)
           IN  /\ Paid(e.totalBytesSent, x.out, x.end.totalBytesSent)
               /\ \A k \in 1..Len(x.out) : Answers(x.out[k]) => k = 1
               /\ e.state \in Up /\ x.end.state \in Up => \A k \in 1..Len(x.out) : ~Answers(x.out[k])
               /\ \/ /\ x.end.lastFlowMsgSent = e.lastFlowMsgSent
                     /\ x.end.totalBytesRecv <= e.lastFlowMsgSent + FlowStep
                     /\ Unreported(x.out)
                  \/ /\ x.end.lastFlowMsgSent = x.end.totalBytesRecv
                     /\ LastReport(x.out, x.end.totalBytesRecv)
<1> DEFINE x == recv(e, packets, room)
           isNew == e.part.rest = <<>>
           to == Transition(e.state, Head(packets).flags)
<1>1. PICK between \in Nat : \E answer \in Seq(Packet), report \in Seq(Packet) :
          /\ x.out = answer \o report
          /\ IF isNew THEN One(e.totalBytesSent, answer, to[1], between)
                      ELSE answer = <<>> /\ between = e.totalBytesSent
          /\ Reported(between, e.lastFlowMsgSent, x.end, report)
  BY ReceiveCounters
<1>2. PICK answer \in Seq(Packet), report \in Seq(Packet) :
          /\ x.out = answer \o report
          /\ IF isNew THEN One(e.totalBytesSent, answer, to[1], between)
                      ELSE answer = <<>> /\ between = e.totalBytesSent
          /\ Reported(between, e.lastFlowMsgSent, x.end, report)
  BY <1>1
<1>3. /\ x.end.state = IF isNew THEN to[2] ELSE e.state
      /\ x.end \in Endpoint
  BY ReceiveFacts
<1>4. isNew => Head(packets).flags \in SUBSET Flags
<2>1. isNew => Head(packets) \in Packet
  OBVIOUS
<2>2. QED BY <2>1 DEF Packet
<1>5. isNew => /\ "Flo" \notin to[1]
               /\ e.state \in Up /\ to[2] \in Up => to[1] = {}
<2>1. e.state \in States
  BY DEF Endpoint
<2>2. QED BY <1>4, <2>1, AnswerFacts
<1> HIDE DEF x, to
<1>6. e.totalBytesSent \in Int /\ between \in Int
  BY DEF Endpoint
<1>7. /\ Paid(e.totalBytesSent, answer, between)
      /\ \/ answer = <<>>
         \/ isNew /\ \E p \in Packet : answer = <<p>> /\ p.flags = to[1]
<2>1. CASE answer = <<>> /\ between = e.totalBytesSent
<3>1. Paid(e.totalBytesSent, <<>>, e.totalBytesSent)
  BY <1>6, NothingPaid
<3>2. QED BY <2>1, <3>1
<2>2. CASE ~(answer = <<>> /\ between = e.totalBytesSent)
<3>1. isNew /\ \E p \in Packet : answer = <<p>> /\ p.flags = to[1] /\ between = e.totalBytesSent + Size(p)
  BY <1>2, <2>2 DEF One
<3>2. PICK p \in Packet : answer = <<p>> /\ p.flags = to[1] /\ between = e.totalBytesSent + Size(p)
  BY <3>1
<3>3. Paid(e.totalBytesSent, <<p>>, e.totalBytesSent + Size(p))
  BY <1>6, OnePaid
<3>4. QED BY <3>1, <3>2, <3>3
<2>3. QED BY <2>1, <2>2
<1>8. /\ Paid(between, report, x.end.totalBytesSent)
      /\ \/ /\ x.end.lastFlowMsgSent = e.lastFlowMsgSent
            /\ x.end.totalBytesRecv <= e.lastFlowMsgSent + FlowStep
            /\ report = <<>>
         \/ /\ x.end.lastFlowMsgSent = x.end.totalBytesRecv
            /\ \E p \in Packet : report = <<p>> /\ p.flags = {"Flo"} /\ p.index = x.end.totalBytesRecv
<2>1. CASE /\ x.end.lastFlowMsgSent = e.lastFlowMsgSent
           /\ x.end.totalBytesRecv <= e.lastFlowMsgSent + FlowStep
           /\ report = <<>> /\ x.end.totalBytesSent = between
<3>1. Paid(between, <<>>, between)
  BY <1>6, NothingPaid
<3>2. QED BY <2>1, <3>1
<2>2. CASE /\ x.end.lastFlowMsgSent = x.end.totalBytesRecv
           /\ \E p \in Packet : /\ report = <<p>> /\ p.flags = {"Flo"} /\ p.index = x.end.totalBytesRecv
                                /\ x.end.totalBytesSent = between + Size(p)
<3>1. PICK p \in Packet : /\ report = <<p>> /\ p.flags = {"Flo"} /\ p.index = x.end.totalBytesRecv
                          /\ x.end.totalBytesSent = between + Size(p)
  BY <2>2
<3>2. Paid(between, <<p>>, between + Size(p))
  BY <1>6, OnePaid
<3>3. QED BY <2>2, <3>1, <3>2
<2>3. QED BY <1>2, <2>1, <2>2 DEF Reported
<1>9. Paid(e.totalBytesSent, x.out, x.end.totalBytesSent)
<2>1. Paid(e.totalBytesSent, answer \o report, x.end.totalBytesSent)
  BY <1>7, <1>8, PaidOn
<2>2. QED BY <1>2, <2>1
<1>10. /\ Len(answer) \in {0, 1} /\ Len(report) \in {0, 1} /\ Len(x.out) = Len(answer) + Len(report)
       /\ \A k \in 1..Len(answer) : x.out[k] = answer[k]
       /\ \A k \in 1..Len(report) : x.out[Len(answer) + k] = report[k]
<2>1. Len(answer) \in {0, 1}
  BY <1>7
<2>2. Len(report) \in {0, 1}
  BY <1>8
<2>3. QED BY <1>2, <2>1, <2>2
<1>11. /\ \A k \in 1..Len(answer) : k = 1 /\ isNew /\ x.out[k].flags = to[1]
       /\ \A k \in 1..Len(report) : k = 1 /\ x.out[Len(answer) + 1].flags = {"Flo"}
                                     /\ x.out[Len(answer) + 1].index = x.end.totalBytesRecv
                                     /\ x.end.lastFlowMsgSent = x.end.totalBytesRecv
<2>1. ASSUME NEW k \in 1..Len(answer) PROVE k = 1 /\ isNew /\ x.out[k].flags = to[1]
<3>1. k = 1 /\ answer # <<>>
  BY <1>10
<3>2. PICK p \in Packet : answer = <<p>> /\ p.flags = to[1]
  BY <1>7, <3>1
<3>3. QED BY <1>7, <1>10, <3>1, <3>2
<2>2. ASSUME NEW k \in 1..Len(report)
      PROVE  /\ k = 1 /\ x.out[Len(answer) + 1].flags = {"Flo"}
             /\ x.out[Len(answer) + 1].index = x.end.totalBytesRecv
             /\ x.end.lastFlowMsgSent = x.end.totalBytesRecv
<3>1. k = 1 /\ report # <<>>
  BY <1>10
<3>2. x.end.lastFlowMsgSent = x.end.totalBytesRecv /\
      \E p \in Packet : report = <<p>> /\ p.flags = {"Flo"} /\ p.index = x.end.totalBytesRecv
  BY <1>8, <3>1
<3>3. PICK p \in Packet : report = <<p>> /\ p.flags = {"Flo"} /\ p.index = x.end.totalBytesRecv
  BY <3>2
<3>4. x.out[Len(answer) + 1] = p
  BY <1>10, <3>1, <3>3
<3>5. QED BY <3>1, <3>2, <3>3, <3>4
<2>3. QED BY <2>1, <2>2
<1>12. ASSUME NEW k \in 1..Len(x.out) PROVE k \in 1..Len(answer) \/ (1 \in 1..Len(report) /\ k = Len(answer) + 1)
  BY <1>10
<1>13. ASSUME NEW k \in 1..Len(x.out), Answers(x.out[k])
       PROVE  k = 1 /\ ~(e.state \in Up /\ x.end.state \in Up)
<2>1. CASE k \in 1..Len(answer)
  BY <1>3, <1>5, <1>11, <1>13, <2>1 DEF Answers
<2>2. CASE 1 \in 1..Len(report) /\ k = Len(answer) + 1
<3>1. x.out[k].flags = {"Flo"}
  BY <1>11, <2>2
<3>2. QED BY <1>13, <3>1 DEF Answers
<2>3. QED BY <1>12, <2>1, <2>2
<1>14. \/ /\ x.end.lastFlowMsgSent = e.lastFlowMsgSent
          /\ x.end.totalBytesRecv <= e.lastFlowMsgSent + FlowStep
          /\ Unreported(x.out)
       \/ /\ x.end.lastFlowMsgSent = x.end.totalBytesRecv
          /\ LastReport(x.out, x.end.totalBytesRecv)
<2>1. CASE report = <<>>
<3>1. x.end.lastFlowMsgSent = e.lastFlowMsgSent /\ x.end.totalBytesRecv <= e.lastFlowMsgSent + FlowStep
<4>1. \A p \in Packet : report # <<p>>
  BY <2>1
<4>2. QED BY <1>8, <4>1
<3>2. Unreported(x.out)
<4>1. ASSUME NEW k \in 1..Len(x.out) PROVE ~Reports(x.out[k])
<5>1. Len(report) = 0
  BY <2>1
<5>2. k \in 1..Len(answer)
  BY <1>12, <5>1
<5>3. x.out[k].flags = to[1] /\ isNew
  BY <1>11, <5>2
<5>4. QED BY <1>5, <5>3 DEF Reports
<4>2. QED BY <4>1 DEF Unreported
<3>3. QED BY <3>1, <3>2
<2>2. CASE report # <<>>
<3>1. Len(report) = 1
  BY <1>10, <2>2
<3>2. 1 \in 1..Len(report) /\ Len(answer) + 1 \in 1..Len(x.out) /\ Len(x.out) = Len(answer) + 1
  BY <1>10, <3>1
<3>3. /\ x.out[Len(answer) + 1].flags = {"Flo"} /\ x.out[Len(answer) + 1].index = x.end.totalBytesRecv
      /\ x.end.lastFlowMsgSent = x.end.totalBytesRecv
  BY <1>11, <3>2
<3>4. \A j \in (Len(answer) + 1) + 1..Len(x.out) : ~Reports(x.out[j])
  BY <1>10, <3>2
<3>5. LastReport(x.out, x.end.totalBytesRecv)
  BY <3>2, <3>3, <3>4 DEF LastReport, Reports
<3>6. QED BY <3>3, <3>5
<2>3. QED BY <2>1, <2>2
<1>15. QED BY <1>9, <1>13, <1>14 DEF x

\* What a sink may have sent before it is in a session: its window, less what
\* the source reads without a report
Budget == Window - FlowStep - 1

\* How many of the sink's bytes the source has read
Consumed(source, at) == at[1] - Len(source.part.rest)

EarlyAnswers(sink, toSource, at) ==
    sink.state \in Up => \A i \in 1..Len(toSource) : Answers(toSource[i]) => at[i] <= Budget

Credited(sink, source, at) ==
    sink.state \in Up /\ source.state = "ESTABLISHED" =>
        Consumed(source, at) <= Budget + source.totalBytesRecv

\* The last report of the source is on its way or has come, unless the sink has
\* begun anew since.
ReportComes(sink, source, toSink, at) ==
    source.lastFlowMsgSent > 0 =>
        \/ LastReport(toSink, source.lastFlowMsgSent)
        \/ /\ Unreported(toSink)
           /\ \/ sink.lastFlowMsgRecv >= source.lastFlowMsgSent
              \/ Consumed(source, at) <= source.totalBytesRecv - source.lastFlowMsgSent

Punctual(source) ==
    /\ source.lastFlowMsgSent <= source.totalBytesRecv
    /\ source.totalBytesRecv <= source.lastFlowMsgSent + FlowStep

Owing(sink, source, toSink, toSource, at) ==
    /\ Spaced(at, toSource) /\ at[Len(toSource) + 1] = sink.totalBytesSent
    /\ Punctual(source)
    /\ EarlyAnswers(sink, toSource, at)
    /\ Credited(sink, source, at)
    /\ ReportComes(sink, source, toSink, at)

LEMMA ReportsOn ==
    ASSUME NEW first \in Seq(Packet), NEW more \in Seq(Packet)
    PROVE  /\ \A n : LastReport(more, n) => LastReport(first \o more, n)
           /\ \A n : LastReport(first, n) /\ Unreported(more) => LastReport(first \o more, n)
           /\ Unreported(first) /\ Unreported(more) => Unreported(first \o more)
<1> DEFINE longer == first \o more
           n == Len(first)
           m == Len(more)
<1>1. /\ n \in Nat /\ m \in Nat /\ Len(longer) = n + m
      /\ \A i \in 1..n : longer[i] = first[i]
      /\ \A i \in 1..m : longer[n + i] = more[i]
  OBVIOUS
<1> HIDE DEF longer, n, m
<1>2. ASSUME NEW k, LastReport(more, k) PROVE LastReport(longer, k)
<2>1. PICK i \in 1..m : /\ Reports(more[i]) /\ more[i].index = k
                        /\ \A j \in i + 1..m : ~Reports(more[j])
  BY <1>2 DEF LastReport, m
<2>2. n + i \in 1..Len(longer) /\ longer[n + i] = more[i]
  BY <1>1
<2>3. ASSUME NEW j \in (n + i) + 1..Len(longer) PROVE ~Reports(longer[j])
<3>1. j - n \in i + 1..m /\ j - n \in 1..m /\ j = n + (j - n)
  BY <1>1
<3>2. longer[j] = more[j - n]
  BY <1>1, <3>1
<3>3. QED BY <2>1, <3>1, <3>2
<2>4. QED BY <2>1, <2>2, <2>3 DEF LastReport
<1>3. ASSUME NEW k, LastReport(first, k), Unreported(more) PROVE LastReport(longer, k)
<2>1. PICK i \in 1..n : /\ Reports(first[i]) /\ first[i].index = k
                        /\ \A j \in i + 1..n : ~Reports(first[j])
  BY <1>3 DEF LastReport, n
<2>2. i \in 1..Len(longer) /\ longer[i] = first[i]
  BY <1>1
<2>3. ASSUME NEW j \in i + 1..Len(longer) PROVE ~Reports(longer[j])
<3>1. CASE j \in 1..n
  BY <1>1, <2>1, <3>1
<3>2. CASE j \notin 1..n
<4>1. j - n \in 1..m /\ j = n + (j - n)
  BY <1>1, <3>2
<4>2. longer[j] = more[j - n]
  BY <1>1, <4>1
<4>3. QED BY <1>3, <4>1, <4>2 DEF Unreported, m
<3>3. QED BY <3>1, <3>2
<2>4. QED BY <2>1, <2>2, <2>3 DEF LastReport
<1>4. ASSUME Unreported(first), Unreported(more) PROVE Unreported(longer)
<2>1. ASSUME NEW j \in 1..Len(longer) PROVE ~Reports(longer[j])
<3>1. CASE j \in 1..n
  BY <1>1, <1>4, <3>1 DEF Unreported, n
<3>2. CASE j \notin 1..n
<4>1. j - n \in 1..m /\ j = n + (j - n)
  BY <1>1, <3>2
<4>2. longer[j] = more[j - n]
  BY <1>1, <4>1
<4>3. QED BY <1>4, <4>1, <4>2 DEF Unreported, m
<3>3. QED BY <3>1, <3>2
<2>2. QED BY <2>1 DEF Unreported
<1>5. QED BY <1>2, <1>3, <1>4 DEF longer

LEMMA ReportsTail ==
    ASSUME NEW packets \in Seq(Packet), packets # <<>>
    PROVE  /\ Unreported(packets) => Unreported(Tail(packets)) /\ ~Reports(Head(packets))
           /\ \A n : LastReport(packets, n) =>
                 \/ LastReport(Tail(packets), n)
                 \/ Unreported(Tail(packets)) /\ Reports(Head(packets)) /\ Head(packets).index = n
<1> DEFINE rest == Tail(packets)
           n == Len(packets)
<1>1. /\ n \in Nat \ {0} /\ Len(rest) = n - 1 /\ Head(packets) = packets[1]
      /\ \A i \in 1..n - 1 : rest[i] = packets[i + 1]
  OBVIOUS
<1> HIDE DEF rest, n
<1>2. ASSUME Unreported(packets) PROVE Unreported(rest) /\ ~Reports(Head(packets))
<2>1. ~Reports(Head(packets))
<3>1. 1 \in 1..n
  BY <1>1
<3>2. QED BY <1>1, <1>2, <3>1 DEF Unreported, n
<2>2. ASSUME NEW i \in 1..Len(rest) PROVE ~Reports(rest[i])
<3>1. i \in 1..n - 1 /\ i + 1 \in 1..n
  BY <1>1
<3>2. QED BY <1>1, <1>2, <3>1 DEF Unreported, n
<2>3. QED BY <2>1, <2>2 DEF Unreported
<1>3. ASSUME NEW k, LastReport(packets, k)
      PROVE  \/ LastReport(rest, k)
             \/ Unreported(rest) /\ Reports(Head(packets)) /\ Head(packets).index = k
<2>1. PICK i \in 1..n : /\ Reports(packets[i]) /\ packets[i].index = k
                        /\ \A j \in i + 1..n : ~Reports(packets[j])
  BY <1>3 DEF LastReport, n
<2>2. CASE i = 1
<3>1. ASSUME NEW j \in 1..Len(rest) PROVE ~Reports(rest[j])
<4>1. j \in 1..n - 1 /\ j + 1 \in i + 1..n
  BY <1>1, <2>2
<4>2. QED BY <1>1, <2>1, <4>1
<3>2. QED BY <1>1, <2>1, <2>2, <3>1 DEF Unreported
<2>3. CASE i # 1
<3>1. i - 1 \in 1..n - 1 /\ i - 1 \in 1..Len(rest) /\ (i - 1) + 1 = i
  BY <1>1, <2>3
<3>2. rest[i - 1] = packets[i]
  BY <1>1, <3>1
<3>3. ASSUME NEW j \in (i - 1) + 1..Len(rest) PROVE ~Reports(rest[j])
<4>1. j \in 1..n - 1 /\ j + 1 \in i + 1..n
  BY <1>1, <2>3
<4>2. QED BY <1>1, <2>1, <4>1
<3>4. QED BY <2>1, <3>1, <3>2, <3>3 DEF LastReport
<2>4. QED BY <2>2, <2>3
<1>4. QED BY <1>2, <1>3 DEF rest

\* The source receives: what it reads and what it counts are the same bytes.
LEMMA SourceReads ==
    ASSUME NEW sink \in Endpoint, NEW source \in Endpoint, NEW toSink \in Seq(Packet),
           NEW toSource \in Seq(Packet), NEW room \in Nat,
           toSource # <<>> \/ source.part.rest # <<>>,
           NEW at \in [1..Len(toSource) + 1 -> Int], Owing(sink, source, toSink, toSource, at)
    PROVE  LET x == recv(source, toSource, room)
           IN  \E bt \in [1..Len(x.packets) + 1 -> Int] :
                  Owing(sink, x.end, toSink \o x.out, x.packets, bt)
<1> DEFINE x == recv(source, toSource, room)
           isNew == source.part.rest = <<>>
           part == Packaged(source, toSource)
           head == Head(toSource)
           to == Transition(source.state, head.flags)
           read == (IF isNew THEN Header ELSE 0) + x.length
<1>1. /\ x.end \in Endpoint /\ x.out \in Seq(Packet)
      /\ x.packets = IF isNew THEN Tail(toSource) ELSE toSource
      /\ x.end.state = IF isNew THEN to[2] ELSE source.state
      /\ x.length \in 0..Len(part.rest)
      /\ x.end.part = [type |-> part.type, index |-> part.index,
                       rest |-> SubSeq(part.rest, x.length + 1, Len(part.rest))]
  BY ReceiveFacts
<1>2. x.end.totalBytesRecv = source.totalBytesRecv + (IF isNew THEN Header ELSE 0) + x.length
  BY ReceiveCounters
<1>3. \/ /\ x.end.lastFlowMsgSent = source.lastFlowMsgSent
         /\ x.end.totalBytesRecv <= source.lastFlowMsgSent + FlowStep
         /\ Unreported(x.out)
      \/ /\ x.end.lastFlowMsgSent = x.end.totalBytesRecv
         /\ LastReport(x.out, x.end.totalBytesRecv)
  BY ReceiveSends
<1> HIDE DEF x
<1>4. isNew => /\ toSource # <<>> /\ head \in Packet /\ Len(head.payload) \in Nat
               /\ Size(head) = Header + Len(head.payload) /\ head.flags \in SUBSET Flags
<2>1. isNew => toSource # <<>> /\ head \in Packet
  OBVIOUS
<2> HIDE DEF head
<2>2. QED BY <2>1, SizeIsNumber DEF Packet
<1>5. /\ source.totalBytesRecv \in Nat /\ source.lastFlowMsgSent \in Nat /\ source.state \in States
      /\ Len(source.part.rest) \in Nat /\ sink.totalBytesSent \in Nat /\ sink.lastFlowMsgRecv \in Nat
<2>1. source.part.rest \in Seq(Nat)
  BY DEF Endpoint
<2>2. QED BY <2>1 DEF Endpoint
<1>6. /\ Header \in Nat /\ Window \in Nat /\ FlowStep \in Nat /\ Budget \in Int
  BY SocketAssumption DEF Budget
<1>7. part.rest \in Seq(Nat) /\ Len(part.rest) \in Nat
      /\ Len(part.rest) = IF isNew THEN Len(head.payload) ELSE Len(source.part.rest)
<2>1. CASE isNew
  BY <1>4, <2>1 DEF Packaged, Packet
<2>2. CASE ~isNew
  BY <1>5, <2>2 DEF Packaged, Endpoint
<2>3. QED BY <2>1, <2>2
<1> HIDE DEF part
<1>8. x.length \in Nat /\ x.length <= Len(part.rest) /\ Len(x.end.part.rest) = Len(part.rest) - x.length
<2>1. x.length \in Nat /\ x.length <= Len(part.rest)
  BY <1>1, <1>7
<2>2. x.end.part.rest = SubSeq(part.rest, x.length + 1, Len(part.rest))
<3> DEFINE left == SubSeq(part.rest, x.length + 1, Len(part.rest))
<3>1. x.end.part = [type |-> part.type, index |-> part.index, rest |-> left]
  BY <1>1
<3> HIDE DEF left
<3>2. x.end.part.rest = left
  BY <3>1
<3>3. QED BY <3>2 DEF left
<2>3. Len(SubSeq(part.rest, x.length + 1, Len(part.rest))) = Len(part.rest) - x.length
<3> DEFINE seq == part.rest
           k == x.length
<3>1. seq \in Seq(Nat) /\ k \in Nat /\ k <= Len(seq)
  BY <1>7, <2>1
<3> HIDE DEF seq, k
<3>2. Len(SubSeq(seq, k + 1, Len(seq))) = Len(seq) - k
  BY <3>1
<3>3. QED BY <3>2 DEF seq, k
<2>4. QED BY <2>1, <2>2, <2>3
<1>9. read \in Nat /\ x.end.totalBytesRecv = source.totalBytesRecv + read
  BY <1>2, <1>5, <1>6, <1>8
<1>10. \E bt \in [1..Len(x.packets) + 1 -> Int] :
          /\ Spaced(bt, x.packets) /\ bt[Len(x.packets) + 1] = sink.totalBytesSent
          /\ bt[1] = at[1] + (IF isNew THEN Size(head) ELSE 0)
          /\ \A i \in 1..Len(x.packets) :
                \E j \in 1..Len(toSource) : x.packets[i] = toSource[j] /\ bt[i] = at[j]
<2>1. Spaced(at, toSource) /\ at[Len(toSource) + 1] = sink.totalBytesSent
  BY DEF Owing
<2>2. CASE isNew
<3>1. PICK bt \in [1..Len(Tail(toSource)) + 1 -> Int] :
          /\ Spaced(bt, Tail(toSource))
          /\ bt[Len(Tail(toSource)) + 1] = at[Len(toSource) + 1]
          /\ bt[1] = at[1] + Size(Head(toSource))
          /\ \A i \in 1..Len(Tail(toSource)) : bt[i] = at[i + 1]
  BY <1>4, <2>1, <2>2, SpacedTail
<3>2. x.packets = Tail(toSource)
  BY <1>1, <2>2
<3>3. ASSUME NEW i \in 1..Len(Tail(toSource))
      PROVE  \E j \in 1..Len(toSource) : Tail(toSource)[i] = toSource[j] /\ bt[i] = at[j]
<4>1. i + 1 \in 1..Len(toSource) /\ Tail(toSource)[i] = toSource[i + 1]
  BY <1>4, <2>2
<4>2. QED BY <3>1, <4>1
<3>4. bt \in [1..Len(x.packets) + 1 -> Int]
  BY <3>2
<3>5. Spaced(bt, x.packets) /\ bt[Len(x.packets) + 1] = sink.totalBytesSent
  BY <2>1, <3>1, <3>2
<3>6. bt[1] = at[1] + (IF isNew THEN Size(head) ELSE 0)
  BY <2>2, <3>1 DEF head
<3>7. \A i \in 1..Len(x.packets) :
         \E j \in 1..Len(toSource) : x.packets[i] = toSource[j] /\ bt[i] = at[j]
  BY <3>2, <3>3
<3>8. QED BY <3>4, <3>5, <3>6, <3>7
<2>3. CASE ~isNew
<3>1. x.packets = toSource
  BY <1>1, <2>3
<3>2. at[1] = at[1] + 0
<4>1. 1 \in 1..Len(toSource) + 1
  OBVIOUS
<4>2. at[1] \in Int
  BY <4>1
<4>3. QED BY <4>2
<3>3. QED BY <2>1, <2>3, <3>1, <3>2
<2>4. QED BY <2>2, <2>3
<1>11. PICK bt \in [1..Len(x.packets) + 1 -> Int] :
          /\ Spaced(bt, x.packets) /\ bt[Len(x.packets) + 1] = sink.totalBytesSent
          /\ bt[1] = at[1] + (IF isNew THEN Size(head) ELSE 0)
          /\ \A i \in 1..Len(x.packets) :
                \E j \in 1..Len(toSource) : x.packets[i] = toSource[j] /\ bt[i] = at[j]
  BY <1>10
<1>12. at[1] \in Int /\ 1 \in 1..Len(toSource) + 1
<2>1. 1 \in 1..Len(toSource) + 1
  OBVIOUS
<2>2. QED BY <2>1
<1>13. Consumed(source, at) \in Int /\ Consumed(x.end, bt) = Consumed(source, at) + read
<2>1. Consumed(source, at) = at[1] - Len(source.part.rest)
      /\ Consumed(x.end, bt) = bt[1] - (Len(part.rest) - x.length)
  BY <1>8 DEF Consumed
<2>2. CASE isNew
<3>1. Len(source.part.rest) = 0
  BY <2>2
<3>2. bt[1] = at[1] + (Header + Len(head.payload)) /\ Len(part.rest) = Len(head.payload)
      /\ read = Header + x.length
  BY <1>4, <1>7, <1>11, <2>2
<3>3. QED BY <1>4, <1>6, <1>8, <1>12, <2>1, <2>2, <3>1, <3>2
<2>3. CASE ~isNew
<3>1. bt[1] = at[1] /\ Len(part.rest) = Len(source.part.rest) /\ read = x.length
  BY <1>7, <1>8, <1>11, <1>12, <2>3
<3>2. QED BY <1>5, <1>8, <1>12, <2>1, <3>1
<2>4. QED BY <2>2, <2>3
<1>14. x.end.totalBytesRecv \in Nat /\ x.end.lastFlowMsgSent \in Nat
  BY <1>1 DEF Endpoint
<1> HIDE DEF read, isNew, head
<1>15. Punctual(x.end)
<2>1. Punctual(source)
  BY DEF Owing
<2>2. CASE x.end.lastFlowMsgSent = source.lastFlowMsgSent /\ x.end.totalBytesRecv <= source.lastFlowMsgSent + FlowStep
<3>1. source.lastFlowMsgSent <= source.totalBytesRecv
  BY <2>1 DEF Punctual
<3>2. source.lastFlowMsgSent <= x.end.totalBytesRecv
  BY <1>5, <1>9, <3>1
<3>3. QED BY <2>2, <3>2 DEF Punctual
<2>3. CASE x.end.lastFlowMsgSent = x.end.totalBytesRecv
  BY <1>6, <1>14, <2>3 DEF Punctual
<2>4. QED BY <1>3, <2>2, <2>3
<1>16. EarlyAnswers(sink, x.packets, bt)
<2>1. EarlyAnswers(sink, toSource, at)
  BY DEF Owing
<2>2. QED BY <1>11, <2>1 DEF EarlyAnswers
<1>17. Credited(sink, x.end, bt)
<2>1. EarlyAnswers(sink, toSource, at) /\ Credited(sink, source, at)
  BY DEF Owing
<2>2. SUFFICES ASSUME sink.state \in Up, x.end.state = "ESTABLISHED"
               PROVE  Consumed(x.end, bt) <= Budget + x.end.totalBytesRecv
  BY DEF Credited
<2>3. Consumed(source, at) <= Budget + source.totalBytesRecv
<3>1. CASE source.state = "ESTABLISHED"
  BY <2>1, <2>2, <3>1 DEF Credited
<3>2. CASE source.state # "ESTABLISHED"
<4>1. isNew /\ to[2] = "ESTABLISHED"
  BY <1>1, <2>2, <3>2
<4>2. Answers(head)
  BY <1>4, <1>5, <3>2, <4>1, AnswerFacts DEF Answers
<4>3. 1 \in 1..Len(toSource) /\ toSource[1] = head
  BY <1>4, <4>1 DEF head
<4>4. at[1] <= Budget
  BY <2>1, <2>2, <4>2, <4>3 DEF EarlyAnswers
<4>5. Consumed(source, at) <= at[1]
  BY <1>5, <1>12 DEF Consumed
<4>6. QED BY <1>5, <1>6, <1>12, <1>13, <4>4, <4>5
<3>3. QED BY <3>1, <3>2
<2>4. QED BY <1>5, <1>6, <1>9, <1>13, <2>3
<1>18. ReportComes(sink, x.end, toSink \o x.out, bt)
<2>1. CASE /\ x.end.lastFlowMsgSent = source.lastFlowMsgSent
           /\ Unreported(x.out)
<3>1. SUFFICES ASSUME source.lastFlowMsgSent > 0
               PROVE  \/ LastReport(toSink \o x.out, source.lastFlowMsgSent)
                      \/ /\ Unreported(toSink \o x.out)
                         /\ \/ sink.lastFlowMsgRecv >= source.lastFlowMsgSent
                            \/ Consumed(x.end, bt) <= x.end.totalBytesRecv - source.lastFlowMsgSent
  BY <2>1 DEF ReportComes
<3>2. ReportComes(sink, source, toSink, at)
  BY DEF Owing
<3>3. CASE LastReport(toSink, source.lastFlowMsgSent)
  BY <1>1, <2>1, <3>3, ReportsOn
<3>4. CASE Unreported(toSink) /\ sink.lastFlowMsgRecv >= source.lastFlowMsgSent
  BY <1>1, <2>1, <3>4, ReportsOn
<3>5. CASE Unreported(toSink) /\ Consumed(source, at) <= source.totalBytesRecv - source.lastFlowMsgSent
<4>1. Consumed(x.end, bt) <= x.end.totalBytesRecv - source.lastFlowMsgSent
  BY <1>5, <1>9, <1>13, <3>5
<4>2. Unreported(toSink \o x.out)
  BY <1>1, <2>1, <3>5, ReportsOn
<4>3. QED BY <4>1, <4>2
<3>6. QED BY <3>1, <3>2, <3>3, <3>4, <3>5 DEF ReportComes
<2>2. CASE x.end.lastFlowMsgSent = x.end.totalBytesRecv /\ LastReport(x.out, x.end.totalBytesRecv)
<3>1. LastReport(toSink \o x.out, x.end.totalBytesRecv)
  BY <1>1, <2>2, ReportsOn
<3>2. QED BY <2>2, <3>1 DEF ReportComes
<2>3. QED BY <1>3, <2>1, <2>2
<1>19. Owing(sink, x.end, toSink \o x.out, x.packets, bt)
  BY <1>11, <1>15, <1>16, <1>17, <1>18 DEF Owing
<1>20. QED BY <1>19 DEF x

\* A sink that has not been answered yet has not used up its window, less what
\* the source reads without a report.
Spared(sink) == sink.state \in {"LISTEN", "SYN_SENT"} => sink.totalBytesSent <= Budget

\* The sink receives: it may be taken into a session, or learn of a report.
LEMMA SinkReads ==
    ASSUME NEW sink \in Endpoint, NEW source \in Endpoint, NEW toSink \in Seq(Packet),
           NEW toSource \in Seq(Packet), NEW room \in Nat,
           toSink # <<>> \/ sink.part.rest # <<>>, Spared(sink),
           NEW at \in [1..Len(toSource) + 1 -> Int], Owing(sink, source, toSink, toSource, at)
    PROVE  LET x == recv(sink, toSink, room)
           IN  \E bt \in [1..Len(toSource \o x.out) + 1 -> Int] :
                  Owing(x.end, source, x.packets, toSource \o x.out, bt)
<1> DEFINE x == recv(sink, toSink, room)
           isNew == sink.part.rest = <<>>
           head == Head(toSink)
           to == Transition(sink.state, head.flags)
           longer == toSource \o x.out
           n == Len(toSource)
<1>1. /\ x.end \in Endpoint /\ x.out \in Seq(Packet)
      /\ x.packets = IF isNew THEN Tail(toSink) ELSE toSink
      /\ x.end.state = IF isNew THEN to[2] ELSE sink.state
  BY ReceiveFacts
<1>2. x.end.lastFlowMsgRecv = IF isNew /\ "Flo" \in head.flags THEN head.index ELSE sink.lastFlowMsgRecv
  BY ReceiveCounters
<1>3. /\ Paid(sink.totalBytesSent, x.out, x.end.totalBytesSent)
      /\ \A k \in 1..Len(x.out) : Answers(x.out[k]) => k = 1
      /\ sink.state \in Up /\ x.end.state \in Up => \A k \in 1..Len(x.out) : ~Answers(x.out[k])
  BY ReceiveSends
<1> HIDE DEF x
<1>4. isNew => toSink # <<>> /\ head \in Packet /\ head.flags \in SUBSET Flags
<2>1. isNew => toSink # <<>> /\ head \in Packet
  OBVIOUS
<2> HIDE DEF head
<2>2. QED BY <2>1 DEF Packet
<1>5. /\ source.totalBytesRecv \in Nat /\ source.lastFlowMsgSent \in Nat /\ sink.state \in States
      /\ Len(source.part.rest) \in Nat /\ sink.totalBytesSent \in Nat /\ sink.lastFlowMsgRecv \in Nat
<2>1. source.part.rest \in Seq(Nat)
  BY DEF Endpoint
<2>2. QED BY <2>1 DEF Endpoint
<1>6. Budget \in Int
  BY SocketAssumption DEF Budget
<1>7. /\ Spaced(at, toSource) /\ at[n + 1] = sink.totalBytesSent /\ Punctual(source)
      /\ EarlyAnswers(sink, toSource, at) /\ Credited(sink, source, at)
      /\ ReportComes(sink, source, toSink, at)
  BY DEF Owing
<1>8. \E bt \in [1..Len(longer) + 1 -> Int] : Continues(bt, at, toSource, x.out, x.end.totalBytesSent)
<2>1. Paid(at[Len(toSource) + 1], x.out, x.end.totalBytesSent)
  BY <1>3, <1>7
<2>2. QED BY <1>1, <1>7, <2>1, SpacedOn
<1>9. PICK bt \in [1..Len(longer) + 1 -> Int] : Continues(bt, at, toSource, x.out, x.end.totalBytesSent)
  BY <1>8
<1>10. /\ Spaced(bt, longer) /\ bt[Len(longer) + 1] = x.end.totalBytesSent /\ bt[1] = at[1]
       /\ \A i \in 1..n : bt[i] = at[i]
       /\ x.out # <<>> => bt[n + 1] = at[n + 1]
  BY <1>9 DEF Continues
<1>11. /\ n \in Nat /\ Len(x.out) \in Nat /\ Len(longer) = n + Len(x.out)
       /\ \A i \in 1..n : longer[i] = toSource[i]
       /\ \A i \in 1..Len(x.out) : longer[n + i] = x.out[i]
       /\ x.out # <<>> <=> Len(x.out) > 0
  BY <1>1
<1> HIDE DEF longer, n
<1>12. /\ \A i \in 1..n + 1 : at[i] \in Int /\ at[i] <= sink.totalBytesSent
       /\ 1 \in 1..n + 1 /\ n + 1 \in 1..n + 1
       /\ \A i \in 1..n : i \in 1..n + 1
<2>1. 1 \in 1..n + 1 /\ n + 1 \in 1..n + 1 /\ \A i \in 1..n : i \in 1..n + 1
  BY <1>11
<2>2. at \in [1..n + 1 -> Int] /\ \A i \in 1..n + 1 : at[i] <= at[n + 1]
  BY <1>7 DEF Spaced, n
<2>3. QED BY <1>7, <2>1, <2>2
\* A sink that is taken into the session has its window before it.
<1>13. x.end.state \in Up /\ sink.state \notin Up => sink.totalBytesSent <= Budget
<2>1. SUFFICES ASSUME x.end.state \in Up, sink.state \notin Up PROVE sink.totalBytesSent <= Budget
  OBVIOUS
<2>2. isNew /\ to[2] \in Up
  BY <1>1, <2>1
<2>3. sink.state \in {"LISTEN", "SYN_SENT"}
<3>1. sink.state \in Up \cup {"LISTEN", "SYN_SENT"}
  BY <1>4, <1>5, <2>2, AnswerFacts
<3>2. QED BY <2>1, <3>1
<2>4. QED BY <2>3 DEF Spared
<1>14. EarlyAnswers(x.end, longer, bt)
<2>1. SUFFICES ASSUME x.end.state \in Up, NEW i \in 1..Len(longer), Answers(longer[i])
               PROVE  bt[i] <= Budget
  BY DEF EarlyAnswers
<2>2. CASE i \in 1..n
<3>1. longer[i] = toSource[i] /\ bt[i] = at[i] /\ at[i] \in Int /\ at[i] <= sink.totalBytesSent
  BY <1>10, <1>11, <1>12, <2>2
<3>2. CASE sink.state \in Up
  BY <1>7, <2>1, <2>2, <3>1, <3>2 DEF EarlyAnswers, n
<3>3. CASE sink.state \notin Up
<4>1. sink.totalBytesSent <= Budget
  BY <1>13, <2>1, <3>3
<4>2. QED BY <1>5, <1>6, <3>1, <4>1
<3>4. QED BY <3>2, <3>3
<2>3. CASE i \notin 1..n
<3>1. i - n \in 1..Len(x.out) /\ i = n + (i - n)
  BY <1>11, <2>3
<3>2. longer[i] = x.out[i - n]
  BY <1>11, <3>1
<3>3. i = n + 1 /\ sink.state \notin Up
<4>1. i - n = 1
  BY <1>3, <2>1, <3>1, <3>2
<4>2. sink.state \notin Up
  BY <1>3, <2>1, <3>1, <3>2
<4>3. QED BY <1>11, <4>1, <4>2
<3>4. bt[i] = sink.totalBytesSent
  BY <1>7, <1>10, <1>11, <3>1, <3>3
<3>5. QED BY <1>13, <2>1, <3>3, <3>4
<2>4. QED BY <2>2, <2>3
<1>15. Consumed(source, bt) = Consumed(source, at) /\ Consumed(source, at) \in Int
       /\ Consumed(source, at) <= sink.totalBytesSent
<2>1. at[1] \in Int /\ at[1] <= sink.totalBytesSent
  BY <1>12
<2>2. Consumed(source, bt) = at[1] - Len(source.part.rest) /\ Consumed(source, at) = at[1] - Len(source.part.rest)
  BY <1>10 DEF Consumed
<2>3. QED BY <1>5, <2>1, <2>2
<1>16. Credited(x.end, source, bt)
<2>1. SUFFICES ASSUME x.end.state \in Up, source.state = "ESTABLISHED"
               PROVE  Consumed(source, bt) <= Budget + source.totalBytesRecv
  BY DEF Credited
<2>2. CASE sink.state \in Up
  BY <1>7, <1>15, <2>1, <2>2 DEF Credited
<2>3. CASE sink.state \notin Up
<3>1. sink.totalBytesSent <= Budget
  BY <1>13, <2>1, <2>3
<3>2. QED BY <1>5, <1>6, <1>15, <3>1
<2>4. QED BY <2>2, <2>3
<1>17. ReportComes(x.end, source, x.packets, bt)
<2>1. SUFFICES ASSUME source.lastFlowMsgSent > 0
               PROVE  \/ LastReport(x.packets, source.lastFlowMsgSent)
                      \/ /\ Unreported(x.packets)
                         /\ \/ x.end.lastFlowMsgRecv >= source.lastFlowMsgSent
                            \/ Consumed(source, at) <= source.totalBytesRecv - source.lastFlowMsgSent
  BY <1>15 DEF ReportComes
<2>2. \/ LastReport(toSink, source.lastFlowMsgSent)
      \/ /\ Unreported(toSink)
         /\ \/ sink.lastFlowMsgRecv >= source.lastFlowMsgSent
            \/ Consumed(source, at) <= source.totalBytesRecv - source.lastFlowMsgSent
  BY <1>7, <2>1 DEF ReportComes
<2>3. CASE isNew
<3>1. x.packets = Tail(toSink)
  BY <1>1, <2>3
<3>2. CASE LastReport(toSink, source.lastFlowMsgSent)
<4>1. \/ LastReport(x.packets, source.lastFlowMsgSent)
      \/ Unreported(x.packets) /\ Reports(head) /\ head.index = source.lastFlowMsgSent
  BY <1>4, <2>3, <3>1, <3>2, ReportsTail
<4>2. Reports(head) /\ head.index = source.lastFlowMsgSent => x.end.lastFlowMsgRecv = source.lastFlowMsgSent
  BY <1>2, <2>3 DEF Reports
<4>3. QED BY <1>5, <4>1, <4>2
<3>3. CASE Unreported(toSink)
<4>1. Unreported(x.packets) /\ ~Reports(head)
  BY <1>4, <2>3, <3>1, <3>3, ReportsTail
<4>2. x.end.lastFlowMsgRecv = sink.lastFlowMsgRecv
  BY <1>2, <4>1 DEF Reports
<4>3. CASE LastReport(toSink, source.lastFlowMsgSent)
  BY <3>2, <4>3
<4>4. QED BY <2>2, <4>1, <4>2, <4>3
<3>4. QED BY <2>2, <3>2, <3>3
<2>4. CASE ~isNew
<3>1. x.packets = toSink /\ x.end.lastFlowMsgRecv = sink.lastFlowMsgRecv
  BY <1>1, <1>2, <2>4
<3>2. QED BY <2>2, <3>1
<2>5. QED BY <2>3, <2>4
<1>18. Owing(x.end, source, x.packets, longer, bt)
  BY <1>7, <1>10, <1>14, <1>16, <1>17 DEF Owing
<1>19. QED BY <1>18 DEF x, longer

\* The sink sends, or leaves the session.
LEMMA SinkSends ==
    ASSUME NEW sink \in Endpoint, NEW source \in Endpoint, NEW toSink \in Seq(Packet),
           NEW toSource \in Seq(Packet), NEW new \in Endpoint, NEW out \in Seq(Packet),
           Paid(sink.totalBytesSent, out, new.totalBytesSent),
           new.lastFlowMsgRecv = sink.lastFlowMsgRecv,
           new.state \in Up => sink.state \in Up /\ \A k \in 1..Len(out) : ~Answers(out[k]),
           NEW at \in [1..Len(toSource) + 1 -> Int], Owing(sink, source, toSink, toSource, at)
    PROVE  \E bt \in [1..Len(toSource \o out) + 1 -> Int] :
              Owing(new, source, toSink, toSource \o out, bt)
<1> DEFINE longer == toSource \o out
           n == Len(toSource)
<1>1. /\ Spaced(at, toSource) /\ at[n + 1] = sink.totalBytesSent /\ Punctual(source)
      /\ EarlyAnswers(sink, toSource, at) /\ Credited(sink, source, at)
      /\ ReportComes(sink, source, toSink, at)
  BY DEF Owing
<1>2. \E bt \in [1..Len(longer) + 1 -> Int] : Continues(bt, at, toSource, out, new.totalBytesSent)
<2>1. Paid(at[Len(toSource) + 1], out, new.totalBytesSent)
  BY <1>1
<2>2. QED BY <1>1, <2>1, SpacedOn
<1>3. PICK bt \in [1..Len(longer) + 1 -> Int] : Continues(bt, at, toSource, out, new.totalBytesSent)
  BY <1>2
<1>4. /\ Spaced(bt, longer) /\ bt[Len(longer) + 1] = new.totalBytesSent /\ bt[1] = at[1]
      /\ \A i \in 1..n : bt[i] = at[i]
  BY <1>3 DEF Continues
<1>5. /\ n \in Nat /\ Len(out) \in Nat /\ Len(longer) = n + Len(out)
      /\ \A i \in 1..n : longer[i] = toSource[i]
      /\ \A i \in 1..Len(out) : longer[n + i] = out[i]
  OBVIOUS
<1> HIDE DEF longer, n
<1>6. Consumed(source, bt) = Consumed(source, at)
  BY <1>4 DEF Consumed
<1>7. EarlyAnswers(new, longer, bt)
<2>1. SUFFICES ASSUME new.state \in Up, NEW i \in 1..Len(longer), Answers(longer[i])
               PROVE  bt[i] <= Budget
  BY DEF EarlyAnswers
<2>2. CASE i \in 1..n
<3>1. longer[i] = toSource[i] /\ bt[i] = at[i]
  BY <1>4, <1>5, <2>2
<3>2. QED BY <1>1, <2>1, <2>2, <3>1 DEF EarlyAnswers, n
<2>3. CASE i \notin 1..n
<3>1. i - n \in 1..Len(out) /\ i = n + (i - n)
  BY <1>5, <2>3
<3>2. longer[i] = out[i - n]
  BY <1>5, <3>1
<3>3. QED BY <2>1, <3>1, <3>2
<2>4. QED BY <2>2, <2>3
<1>8. Credited(new, source, bt)
  BY <1>1, <1>6 DEF Credited
<1>9. ReportComes(new, source, toSink, bt)
  BY <1>1, <1>6 DEF ReportComes
<1>10. Owing(new, source, toSink, longer, bt)
  BY <1>1, <1>4, <1>7, <1>8, <1>9 DEF Owing
<1>11. QED BY <1>10 DEF longer

\* The sink begins to count anew: all that was sent before counts below zero.
LEMMA SinkRestarts ==
    ASSUME NEW sink \in Endpoint, NEW source \in Endpoint, NEW toSink \in Seq(Packet),
           NEW toSource \in Seq(Packet), NEW new \in Endpoint, NEW out \in Seq(Packet),
           Paid(0, out, new.totalBytesSent), new.state \notin Up,
           NEW at \in [1..Len(toSource) + 1 -> Int], Owing(sink, source, toSink, toSource, at)
    PROVE  \E bt \in [1..Len(toSource \o out) + 1 -> Int] :
              Owing(new, source, toSink, toSource \o out, bt)
<1> DEFINE longer == toSource \o out
           n == Len(toSource)
           sent == sink.totalBytesSent
           low == [i \in 1..n + 1 |-> at[i] - sent]
<1>1. /\ Spaced(at, toSource) /\ at[n + 1] = sent /\ Punctual(source)
      /\ ReportComes(sink, source, toSink, at)
  BY DEF Owing
<1>2. /\ n \in Nat /\ sent \in Nat /\ Len(source.part.rest) \in Nat
      /\ source.totalBytesRecv \in Nat /\ source.lastFlowMsgSent \in Nat
      /\ 1 \in 1..n + 1 /\ n + 1 \in 1..n + 1
<2>1. source.part.rest \in Seq(Nat)
  BY DEF Endpoint
<2>2. n \in Nat
  OBVIOUS
<2>3. sent \in Nat /\ source.totalBytesRecv \in Nat /\ source.lastFlowMsgSent \in Nat
  BY DEF Endpoint
<2> HIDE DEF n, sent
<2>4. Len(source.part.rest) \in Nat
  BY <2>1
<2>5. 1 \in 1..n + 1 /\ n + 1 \in 1..n + 1
  BY <2>2
<2>6. QED BY <2>2, <2>3, <2>4, <2>5
<1>3. \A i \in 1..n : toSource[i] \in Packet /\ Size(toSource[i]) \in Nat /\ i \in 1..n + 1 /\ i + 1 \in 1..n + 1
<2>1. ASSUME NEW i \in 1..n
      PROVE  toSource[i] \in Packet /\ Size(toSource[i]) \in Nat /\ i \in 1..n + 1 /\ i + 1 \in 1..n + 1
<3>1. toSource[i] \in Packet
  OBVIOUS
<3>2. QED BY <1>2, <3>1, SizeIsNumber
<2>2. QED BY <2>1
<1> HIDE DEF n, sent
<1>4. /\ at \in [1..n + 1 -> Int]
      /\ \A i \in 1..n : at[i + 1] = at[i] + Size(toSource[i])
      /\ \A i \in 1..n + 1 : at[i] <= sent
  BY <1>1 DEF Spaced, n
<1>5. low \in [1..n + 1 -> Int] /\ \A i \in 1..n + 1 : low[i] = at[i] - sent /\ low[i] <= 0 /\ low[i] \in Int
<2>1. ASSUME NEW i \in 1..n + 1
      PROVE  low[i] = at[i] - sent /\ low[i] <= 0 /\ low[i] \in Int
<3>1. low[i] = at[i] - sent /\ at[i] \in Int /\ at[i] <= sent /\ sent \in Int
  BY <1>2, <1>4
<3>2. QED BY ONLY <3>1
<2>2. low \in [1..n + 1 -> Int]
  BY <2>1
<2>3. QED BY <2>1, <2>2
<1> HIDE DEF low
<1>6. low[n + 1] = 0
  BY <1>1, <1>2, <1>5
<1>7. \A i \in 1..n : low[i + 1] = low[i] + Size(toSource[i])
<2>1. ASSUME NEW i \in 1..n PROVE low[i + 1] = low[i] + Size(toSource[i])
<3>1. /\ low[i] = at[i] - sent /\ low[i + 1] = at[i + 1] - sent
      /\ at[i] \in Int /\ at[i + 1] = at[i] + Size(toSource[i]) /\ Size(toSource[i]) \in Nat
  BY <1>3, <1>4, <1>5
<3>2. QED BY ONLY <1>2, <3>1
<2>2. QED BY <2>1
<1>8. Spaced(low, toSource)
  BY <1>5, <1>6, <1>7 DEF Spaced, n
<1>9. \E bt \in [1..Len(longer) + 1 -> Int] : Continues(bt, low, toSource, out, new.totalBytesSent)
<2>1. Paid(low[Len(toSource) + 1], out, new.totalBytesSent) /\ low \in [1..Len(toSource) + 1 -> Int]
  BY <1>5, <1>6 DEF n
<2>2. QED BY <1>8, <2>1, SpacedOn
<1>10. PICK bt \in [1..Len(longer) + 1 -> Int] : Continues(bt, low, toSource, out, new.totalBytesSent)
  BY <1>9
<1>11. Spaced(bt, longer) /\ bt[Len(longer) + 1] = new.totalBytesSent /\ bt[1] = low[1]
  BY <1>10 DEF Continues
<1> HIDE DEF longer
<1>12. EarlyAnswers(new, longer, bt) /\ Credited(new, source, bt)
  BY DEF EarlyAnswers, Credited
<1>13. Consumed(source, bt) <= 0
  BY <1>2, <1>5, <1>11 DEF Consumed
<1>14. ReportComes(new, source, toSink, bt)
<2>1. Consumed(source, bt) <= source.totalBytesRecv - source.lastFlowMsgSent
<3>1. source.lastFlowMsgSent <= source.totalBytesRecv
  BY <1>1 DEF Punctual
<3>2. Consumed(source, bt) \in Int
<4>1. bt[1] \in Int
  BY <1>2, <1>5, <1>11
<4>2. Len(source.part.rest) \in Nat
  BY DEF Endpoint
<4>3. QED BY ONLY <4>1, <4>2 DEF Consumed
<3>3. QED BY <1>2, <1>13, <3>1, <3>2
<2>2. QED BY <1>1, <2>1 DEF ReportComes
<1>15. Owing(new, source, toSink, longer, bt)
  BY <1>1, <1>11, <1>12, <1>14 DEF Owing
<1>16. QED BY <1>15 DEF longer

\* The source leaves the session, and sends no report.
LEMMA SourceLeaves ==
    ASSUME NEW sink \in Endpoint, NEW source \in Endpoint, NEW toSink \in Seq(Packet),
           NEW toSource \in Seq(Packet), NEW new \in Endpoint, NEW out \in Seq(Packet),
           Unreported(out), new.part = source.part,
           new.totalBytesRecv = source.totalBytesRecv, new.lastFlowMsgSent = source.lastFlowMsgSent,
           new.state = "ESTABLISHED" => source.state = "ESTABLISHED",
           NEW at \in [1..Len(toSource) + 1 -> Int], Owing(sink, source, toSink, toSource, at)
    PROVE  Owing(sink, new, toSink \o out, toSource, at)
<1>1. /\ Spaced(at, toSource) /\ at[Len(toSource) + 1] = sink.totalBytesSent /\ Punctual(source)
      /\ EarlyAnswers(sink, toSource, at) /\ Credited(sink, source, at)
      /\ ReportComes(sink, source, toSink, at)
  BY DEF Owing
<1>2. Consumed(new, at) = Consumed(source, at)
  BY DEF Consumed
<1>3. Punctual(new) /\ Credited(sink, new, at)
  BY <1>1, <1>2 DEF Punctual, Credited
<1>4. ReportComes(sink, new, toSink \o out, at)
<2>1. SUFFICES ASSUME new.lastFlowMsgSent > 0
               PROVE  \/ LastReport(toSink \o out, new.lastFlowMsgSent)
                      \/ /\ Unreported(toSink \o out)
                         /\ \/ sink.lastFlowMsgRecv >= new.lastFlowMsgSent
                            \/ Consumed(new, at) <= new.totalBytesRecv - new.lastFlowMsgSent
  BY DEF ReportComes
<2>2. \/ LastReport(toSink, source.lastFlowMsgSent)
      \/ /\ Unreported(toSink)
         /\ \/ sink.lastFlowMsgRecv >= source.lastFlowMsgSent
            \/ Consumed(source, at) <= source.totalBytesRecv - source.lastFlowMsgSent
  BY <1>1, <2>1 DEF ReportComes
<2>3. CASE LastReport(toSink, source.lastFlowMsgSent)
  BY <2>3, ReportsOn
<2>4. CASE ~LastReport(toSink, source.lastFlowMsgSent)
<3>1. Unreported(toSink \o out)
  BY <2>2, <2>4, ReportsOn
<3>2. QED BY <1>2, <2>2, <2>4, <3>1
<2>5. QED BY <2>3, <2>4
<1>5. QED BY <1>1, <1>3, <1>4 DEF Owing

\* The source begins to count anew.
LEMMA SourceRestarts ==
    ASSUME NEW sink \in Endpoint, NEW source \in Endpoint, NEW toSink,
           NEW toSource \in Seq(Packet), NEW new \in Endpoint,
           new.totalBytesRecv = 0, new.lastFlowMsgSent = 0, new.state # "ESTABLISHED",
           NEW at \in [1..Len(toSource) + 1 -> Int], NEW old, Owing(sink, source, old, toSource, at)
    PROVE  Owing(sink, new, toSink, toSource, at)
<1>1. /\ Spaced(at, toSource) /\ at[Len(toSource) + 1] = sink.totalBytesSent
      /\ EarlyAnswers(sink, toSource, at)
  BY DEF Owing
<1>2. Punctual(new) /\ Credited(sink, new, at) /\ ReportComes(sink, new, toSink, at)
  BY SocketAssumption DEF Punctual, Credited, ReportComes
<1>3. QED BY <1>1, <1>2 DEF Owing

\* When nothing is on its way, the sink has window left.
LEMMA WindowIsOpen ==
    ASSUME NEW sink \in Endpoint, NEW source \in Endpoint,
           source.part.rest = <<>>, sink.state = "ESTABLISHED", source.state = "ESTABLISHED",
           NEW at \in [1..Len(<<>>) + 1 -> Int], Owing(sink, source, <<>>, <<>>, at)
    PROVE  sink.lastFlowMsgRecv + Window > sink.totalBytesSent
<1> DEFINE sent == sink.totalBytesSent
           heard == sink.lastFlowMsgRecv
           got == source.totalBytesRecv
           told == source.lastFlowMsgSent
<1>1. sent \in Nat /\ heard \in Nat /\ got \in Nat /\ told \in Nat
      /\ Window \in Nat /\ FlowStep \in Nat /\ FlowStep < Window
  BY SocketAssumption DEF Endpoint
<1>2. Consumed(source, at) = sent
<2>1. Len(<<>>) = 0 /\ Len(source.part.rest) = 0
  OBVIOUS
<2>2. at[1] = sent
  BY <2>1 DEF Owing
<2>3. QED BY <1>1, <2>1, <2>2 DEF Consumed
<1>3. sent <= (Window - FlowStep - 1) + got
  BY <1>2 DEF Owing, Credited, Up, Budget
<1>4. told <= got /\ got <= told + FlowStep
  BY DEF Owing, Punctual
<1>5. told > 0 => heard >= told \/ sent <= got - told
<2>1. ~LastReport(<<>>, told)
  BY DEF LastReport
<2>2. ReportComes(sink, source, <<>>, at)
  BY DEF Owing
<2>3. QED BY <1>2, <2>1, <2>2 DEF ReportComes
<1> HIDE DEF sent, heard, got, told
<1>6. heard + Window > sent
  BY <1>1, <1>3, <1>4, <1>5
<1>7. QED BY <1>6 DEF sent, heard

LEMMA OneIsPaid ==
    ASSUME NEW sent \in Int, NEW packets, NEW flags, NEW total, One(sent, packets, flags, total)
    PROVE  /\ Paid(sent, packets, total) /\ packets \in Seq(Packet)
           /\ "Flo" \notin flags => Unreported(packets)
           /\ flags \cap {"Syn", "Ack"} = {} => \A k \in 1..Len(packets) : ~Answers(packets[k])
<1>1. CASE packets = <<>> /\ total = sent
<2>1. Paid(sent, <<>>, sent) /\ 1..Len(<<>>) = {}
  BY NothingPaid
<2>2. QED BY <1>1, <2>1 DEF Unreported
<1>2. ASSUME NEW p \in Packet, packets = <<p>>, p.flags = flags, total = sent + Size(p)
      PROVE  /\ Paid(sent, packets, total) /\ packets \in Seq(Packet)
             /\ "Flo" \notin flags => Unreported(packets)
             /\ flags \cap {"Syn", "Ack"} = {} => \A k \in 1..Len(packets) : ~Answers(packets[k])
<2>1. Paid(sent, <<p>>, sent + Size(p))
  BY OnePaid
<2>2. \A k \in 1..Len(packets) : packets[k] = p
  BY <1>2
<2>3. packets \in Seq(Packet)
  BY <1>2
<2>4. QED BY <1>2, <2>1, <2>2, <2>3 DEF Unreported, Reports, Answers
<1>3. QED BY <1>1, <1>2 DEF One

LEMMA OpenCounters ==
    ASSUME NEW e \in Endpoint, NEW start \in Counts
    PROVE  LET x == openComms(e, start)
           IN  /\ Paid(0, x.out, x.end.totalBytesSent)
               /\ x.end.totalBytesRecv = 0 /\ x.end.lastFlowMsgSent = 0
<1> DEFINE fresh == [e EXCEPT !.lastSentPacketCount = start,
                              !.totalBytesRecv = 0, !.totalBytesSent = 0,
                              !.lastFlowMsgRecv = 0, !.lastFlowMsgSent = 0]
           sent == SendFlags(Quiet(fresh), {"Syn"})
           x == openComms(e, start)
<1>1. /\ fresh \in Endpoint /\ fresh.state = e.state
      /\ fresh.totalBytesRecv = 0 /\ fresh.totalBytesSent = 0 /\ fresh.lastFlowMsgSent = 0
  BY DEF Endpoint
<1>2. x = IF e.state # "CLOSED" THEN Quiet(fresh) ELSE [sent EXCEPT !.end.state = "SYN_SENT"]
  BY <1>1 DEF openComms
<1> HIDE DEF fresh, x
<1>3. Quiet(fresh) \in Sending /\ Quiet(fresh).end = fresh /\ Quiet(fresh).out = <<>>
  BY <1>1 DEF Quiet, Sending
<1>4. CASE e.state # "CLOSED"
<2>1. Paid(0, <<>>, 0)
  BY NothingPaid
<2> HIDE DEF sent
<2>2. x = Quiet(fresh)
  BY <1>2, <1>4
<2>3. QED BY <1>1, <1>3, <2>1, <2>2 DEF x
<1>5. CASE e.state = "CLOSED"
<2>1. {"Syn"} \in SUBSET Flags
  BY DEF Flags
<2>2. /\ sent \in Sending /\ One(fresh.totalBytesSent, sent.out, {"Syn"}, sent.end.totalBytesSent)
      /\ sent.end.totalBytesRecv = fresh.totalBytesRecv
      /\ sent.end.lastFlowMsgSent = fresh.lastFlowMsgSent
  BY <1>3, <2>1, SendFirst
<2> HIDE DEF sent
<2>3. x = [sent EXCEPT !.end.state = "SYN_SENT"]
  BY <1>2, <1>5
<2>4. x.end = [sent.end EXCEPT !.state = "SYN_SENT"] /\ x.out = sent.out /\ sent.end \in Endpoint
  BY <2>2, <2>3 DEF Sending
<2>5. /\ x.end.totalBytesSent = sent.end.totalBytesSent
      /\ x.end.totalBytesRecv = sent.end.totalBytesRecv
      /\ x.end.lastFlowMsgSent = sent.end.lastFlowMsgSent
  BY <2>4 DEF Endpoint
<2>6. Paid(0, x.out, x.end.totalBytesSent)
<3>1. One(0, x.out, {"Syn"}, x.end.totalBytesSent) /\ 0 \in Int
  BY <1>1, <2>2, <2>4, <2>5
<3>2. QED BY <3>1, OneIsPaid
<2>7. QED BY <1>1, <2>2, <2>5, <2>6 DEF x
<1>6. QED BY <1>4, <1>5 DEF x

LEMMA CloseCounters ==
    ASSUME NEW e \in Endpoint, e.state \in {"ESTABLISHED", "CLOSE_WAIT"}
    PROVE  LET x == closeComms(e)
           IN  /\ Paid(e.totalBytesSent, x.out, x.end.totalBytesSent) /\ Unreported(x.out)
               /\ x.end.totalBytesRecv = e.totalBytesRecv
               /\ x.end.lastFlowMsgRecv = e.lastFlowMsgRecv
               /\ x.end.lastFlowMsgSent = e.lastFlowMsgSent
<1> DEFINE sent == SendFlags(Quiet(e), {"Fin"})
           next == IF e.state = "ESTABLISHED" THEN "FIN_WAIT_1" ELSE "LAST_ACK"
           x == closeComms(e)
<1>1. x = [sent EXCEPT !.end.state = next]
  BY DEF closeComms
<1>2. Quiet(e) \in Sending /\ Quiet(e).end = e /\ Quiet(e).out = <<>>
  BY DEF Quiet, Sending
<1>3. {"Fin"} \in SUBSET Flags
  BY DEF Flags
<1>4. /\ sent \in Sending /\ One(e.totalBytesSent, sent.out, {"Fin"}, sent.end.totalBytesSent)
      /\ sent.end.totalBytesRecv = e.totalBytesRecv
      /\ sent.end.lastFlowMsgRecv = e.lastFlowMsgRecv
      /\ sent.end.lastFlowMsgSent = e.lastFlowMsgSent
  BY <1>2, <1>3, SendFirst
<1> HIDE DEF sent, x, next
<1>5. x.end = [sent.end EXCEPT !.state = next] /\ x.out = sent.out /\ sent.end \in Endpoint
  BY <1>1, <1>4 DEF Sending
<1>6. /\ x.end.totalBytesSent = sent.end.totalBytesSent
      /\ x.end.totalBytesRecv = sent.end.totalBytesRecv
      /\ x.end.lastFlowMsgRecv = sent.end.lastFlowMsgRecv
      /\ x.end.lastFlowMsgSent = sent.end.lastFlowMsgSent
  BY <1>5 DEF Endpoint
<1>7. Paid(e.totalBytesSent, x.out, x.end.totalBytesSent) /\ Unreported(x.out)
<2>1. One(e.totalBytesSent, x.out, {"Fin"}, x.end.totalBytesSent) /\ e.totalBytesSent \in Int
  BY <1>4, <1>5, <1>6 DEF Endpoint
<2>2. "Flo" \notin {"Fin"}
  OBVIOUS
<2>3. QED BY <2>1, <2>2, OneIsPaid
<1>8. QED BY <1>4, <1>6, <1>7 DEF x

Owes == \E at \in [1..Len(net["source"]) + 1 -> Int] :
           Owing(end["sink"], end["source"], net["sink"], net["source"], at)

\* A sink that waits for an answer to its SYN has not yet used up its window.
Unspent == end["sink"].state \in {"LISTEN", "SYN_SENT"} => end["sink"].totalBytesSent + FlowStep < Window

LEMMA UnspentIsSpared == Types /\ Unspent => Spared(end["sink"])
<1> SUFFICES ASSUME Types, Unspent, end["sink"].state \in {"LISTEN", "SYN_SENT"}
             PROVE  end["sink"].totalBytesSent <= Budget
  BY DEF Spared
<1>1. end["sink"] \in Endpoint
  BY DEF Types, Ends
<1>2. end["sink"].totalBytesSent \in Nat /\ end["sink"].totalBytesSent + FlowStep < Window
  BY <1>1 DEF Unspent, Endpoint
<1> DEFINE sent == end["sink"].totalBytesSent
<1> HIDE DEF sent
<1>3. sent \in Nat /\ sent + FlowStep < Window
  BY <1>2 DEF sent
<1>4. sent <= Budget
  BY <1>3, SocketAssumption DEF Budget
<1>5. QED BY <1>4 DEF sent

\* The types and names that the following steps need
LEMMA BothEnds ==
    ASSUME Types
    PROVE  /\ "sink" \in Ends /\ "source" \in Ends /\ Peer("sink") = "source" /\ Peer("source") = "sink"
           /\ \A e \in Ends : e = "sink" \/ e = "source"
           /\ end \in [Ends -> Endpoint] /\ net \in [Ends -> Seq(Packet)]
           /\ end["sink"] \in Endpoint /\ end["source"] \in Endpoint
           /\ net["sink"] \in Seq(Packet) /\ net["source"] \in Seq(Packet)
  BY DEF Types, Ends, Peer

LEMMA ReceivingKeepsOwes ==
    ASSUME Types, Owes, Unspent, NEW e \in Ends, NEW room \in Nat, isRecvReady(e),
           Receives(e, recv(end[e], net[e], room))
    PROVE  Owes'
<1> DEFINE x == recv(end[e], net[e], room)
<1>1. /\ "sink" \in Ends /\ "source" \in Ends /\ Peer("sink") = "source" /\ Peer("source") = "sink"
      /\ \A d \in Ends : d = "sink" \/ d = "source"
      /\ end \in [Ends -> Endpoint] /\ net \in [Ends -> Seq(Packet)]
      /\ end["sink"] \in Endpoint /\ end["source"] \in Endpoint
      /\ net["sink"] \in Seq(Packet) /\ net["source"] \in Seq(Packet)
  BY BothEnds
<1>2. PICK at \in [1..Len(net["source"]) + 1 -> Int] :
          Owing(end["sink"], end["source"], net["sink"], net["source"], at)
  BY DEF Owes
<1>3. net[e] # <<>> \/ end[e].part.rest # <<>>
  BY DEF isRecvReady
<1>4. end' = [end EXCEPT ![e] = x.end] /\ net' = [net EXCEPT ![Peer(e)] = @ \o x.out, ![e] = x.packets]
  BY DEF Receives
<1>5. CASE e = "sink"
<2>1. \E bt \in [1..Len(net["source"] \o x.out) + 1 -> Int] :
         Owing(x.end, end["source"], x.packets, net["source"] \o x.out, bt)
<3>1. Spared(end["sink"])
  BY UnspentIsSpared
<3>2. QED BY <1>1, <1>2, <1>3, <1>5, <3>1, SinkReads
<2> HIDE DEF x
<2>2. /\ end'["sink"] = x.end /\ end'["source"] = end["source"]
      /\ net'["source"] = net["source"] \o x.out /\ net'["sink"] = x.packets
  BY <1>1, <1>4, <1>5
<2>3. QED BY <2>1, <2>2 DEF Owes
<1>6. CASE e = "source"
<2>1. \E bt \in [1..Len(x.packets) + 1 -> Int] :
         Owing(end["sink"], x.end, net["sink"] \o x.out, x.packets, bt)
  BY <1>1, <1>2, <1>3, <1>6, SourceReads
<2> HIDE DEF x
<2>2. /\ end'["source"] = x.end /\ end'["sink"] = end["sink"]
      /\ net'["sink"] = net["sink"] \o x.out /\ net'["source"] = x.packets
  BY <1>1, <1>4, <1>6
<2>3. QED BY <2>1, <2>2 DEF Owes
<1>7. QED BY <1>1, <1>5, <1>6

LEMMA ActivateKeepsOwes ==
    ASSUME Counted, Owes, NEW e \in Ends, Activate(e) PROVE Owes'
<1>1. PICK start \in Starts : Becomes(e, openComms(end[e], start))
  BY DEF Activate
<1> DEFINE x == openComms(end[e], start)
<1>2. /\ "sink" \in Ends /\ "source" \in Ends /\ Peer("sink") = "source" /\ Peer("source") = "sink"
      /\ \A d \in Ends : d = "sink" \/ d = "source"
      /\ end \in [Ends -> Endpoint] /\ net \in [Ends -> Seq(Packet)]
      /\ end["sink"] \in Endpoint /\ end["source"] \in Endpoint
      /\ net["sink"] \in Seq(Packet) /\ net["source"] \in Seq(Packet)
  BY BothEnds DEF Counted
<1>3. PICK at \in [1..Len(net["source"]) + 1 -> Int] :
          Owing(end["sink"], end["source"], net["sink"], net["source"], at)
  BY DEF Owes
<1>4. start \in Counts /\ end[e] \in Endpoint
  BY <1>2, SocketAssumption DEF Counts
<1>5. end[e].state \in {"LISTEN", "CLOSED"}
  BY DEF Activate, Counted, Sessions, Possible
<1>6. /\ x.end \in Endpoint /\ x.out \in Seq(Packet)
      /\ x.end.part = end[e].part
      /\ end[e].state # "CLOSED" => x.end.state = end[e].state
      /\ end[e].state = "CLOSED" => x.end.state = "SYN_SENT"
  BY <1>4, OpenFacts
<1>7. /\ Paid(0, x.out, x.end.totalBytesSent)
      /\ x.end.totalBytesRecv = 0 /\ x.end.lastFlowMsgSent = 0
  BY <1>4, OpenCounters
<1>8. end' = [end EXCEPT ![e] = x.end] /\ net' = [net EXCEPT ![Peer(e)] = @ \o x.out]
  BY <1>1 DEF Becomes
<1> HIDE DEF x
<1>9. x.end.state \notin Up
  BY <1>5, <1>6 DEF Up
<1>10. CASE e = "sink"
<2>1. \E bt \in [1..Len(net["source"] \o x.out) + 1 -> Int] :
         Owing(x.end, end["source"], net["sink"], net["source"] \o x.out, bt)
<3> DEFINE sink == end["sink"]
           source == end["source"]
           toSink == net["sink"]
           toSource == net["source"]
           new == x.end
           out == x.out
<3>1. /\ sink \in Endpoint /\ source \in Endpoint
      /\ toSink \in Seq(Packet) /\ toSource \in Seq(Packet)
      /\ new \in Endpoint /\ out \in Seq(Packet)
      /\ Paid(0, out, new.totalBytesSent) /\ new.state \notin Up
      /\ at \in [1..Len(toSource) + 1 -> Int]
      /\ Owing(sink, source, toSink, toSource, at)
  BY <1>2, <1>3, <1>6, <1>7, <1>9
<3> HIDE DEF sink, source, toSink, toSource, new, out
<3>2. \E bt \in [1..Len(toSource \o out) + 1 -> Int] : Owing(new, source, toSink, toSource \o out, bt)
  BY ONLY <3>1, SinkRestarts
<3>3. QED BY ONLY <3>2 DEF sink, source, toSink, toSource, new, out
<2>2. /\ end'["sink"] = x.end /\ end'["source"] = end["source"]
      /\ net'["source"] = net["source"] \o x.out /\ net'["sink"] = net["sink"]
  BY <1>2, <1>8, <1>10
<2>3. QED BY <2>1, <2>2 DEF Owes
<1>11. CASE e = "source"
<2>1. x.end.state # "ESTABLISHED"
  BY <1>9 DEF Up
<2>2. Owing(end["sink"], x.end, net["sink"] \o x.out, net["source"], at)
  BY <1>2, <1>3, <1>6, <1>7, <2>1, SourceRestarts
<2>3. /\ end'["source"] = x.end /\ end'["sink"] = end["sink"]
      /\ net'["sink"] = net["sink"] \o x.out /\ net'["source"] = net["source"]
  BY <1>2, <1>8, <1>11
<2>4. QED BY <2>2, <2>3 DEF Owes
<1>12. QED BY <1>2, <1>10, <1>11

\* An end sends packets that are no reports, and leaves the session if they answer.
LEMMA LeavingKeepsOwes ==
    ASSUME Types, Owes, NEW e \in Ends, NEW new \in Endpoint, NEW out \in Seq(Packet),
           end' = [end EXCEPT ![e] = new], net' = [net EXCEPT ![Peer(e)] = @ \o out],
           Paid(end[e].totalBytesSent, out, new.totalBytesSent), Unreported(out),
           new.part = end[e].part, new.totalBytesRecv = end[e].totalBytesRecv,
           new.lastFlowMsgRecv = end[e].lastFlowMsgRecv,
           new.lastFlowMsgSent = end[e].lastFlowMsgSent,
           \/ new.state \notin Up
           \/ new.state = end[e].state /\ \A k \in 1..Len(out) : ~Answers(out[k])
    PROVE  Owes'
<1>1. /\ "sink" \in Ends /\ "source" \in Ends /\ Peer("sink") = "source" /\ Peer("source") = "sink"
      /\ \A d \in Ends : d = "sink" \/ d = "source"
      /\ end \in [Ends -> Endpoint] /\ net \in [Ends -> Seq(Packet)]
      /\ end["sink"] \in Endpoint /\ end["source"] \in Endpoint
      /\ net["sink"] \in Seq(Packet) /\ net["source"] \in Seq(Packet)
  BY BothEnds
<1>2. PICK at \in [1..Len(net["source"]) + 1 -> Int] :
          Owing(end["sink"], end["source"], net["sink"], net["source"], at)
  BY DEF Owes
<1>3. CASE e = "sink"
<2>1. new.state \in Up => end["sink"].state \in Up /\ \A k \in 1..Len(out) : ~Answers(out[k])
  BY <1>3
<2>2. /\ Paid(end["sink"].totalBytesSent, out, new.totalBytesSent)
      /\ new.lastFlowMsgRecv = end["sink"].lastFlowMsgRecv
  BY <1>3
<2>3. \E bt \in [1..Len(net["source"] \o out) + 1 -> Int] :
         Owing(new, end["source"], net["sink"], net["source"] \o out, bt)
  BY <1>1, <1>2, <2>1, <2>2, SinkSends
<2>4. /\ end'["sink"] = new /\ end'["source"] = end["source"]
      /\ net'["source"] = net["source"] \o out /\ net'["sink"] = net["sink"]
  BY <1>1, <1>3
<2>5. QED BY <2>3, <2>4 DEF Owes
<1>4. CASE e = "source"
<2>1. new.state = "ESTABLISHED" => end["source"].state = "ESTABLISHED"
  BY <1>4 DEF Up
<2>2. /\ new.part = end["source"].part /\ new.totalBytesRecv = end["source"].totalBytesRecv
      /\ new.lastFlowMsgSent = end["source"].lastFlowMsgSent
  BY <1>4
<2>3. Owing(end["sink"], new, net["sink"] \o out, net["source"], at)
  BY <1>1, <1>2, <2>1, <2>2, SourceLeaves
<2>4. /\ end'["source"] = new /\ end'["sink"] = end["sink"]
      /\ net'["sink"] = net["sink"] \o out /\ net'["source"] = net["source"]
  BY <1>1, <1>4
<2>5. QED BY <2>3, <2>4 DEF Owes
<1>5. QED BY <1>1, <1>3, <1>4

LEMMA DeactivateKeepsOwes ==
    ASSUME Counted, Owes, NEW e \in Ends, Deactivate(e) PROVE Owes'
<1> DEFINE x == closeComms(end[e])
<1>1. Types /\ end[e] \in Endpoint /\ end[e].state \in {"ESTABLISHED", "CLOSE_WAIT"}
  BY DEF Counted, Types, Sessions, Possible, Deactivate
<1>2. /\ x.end \in Endpoint /\ x.out \in Seq(Packet) /\ x.end.part = end[e].part
      /\ x.end.state \in {"FIN_WAIT_1", "LAST_ACK"}
  BY <1>1, CloseFacts
<1>3. /\ Paid(end[e].totalBytesSent, x.out, x.end.totalBytesSent) /\ Unreported(x.out)
      /\ x.end.totalBytesRecv = end[e].totalBytesRecv
      /\ x.end.lastFlowMsgRecv = end[e].lastFlowMsgRecv
      /\ x.end.lastFlowMsgSent = end[e].lastFlowMsgSent
  BY <1>1, CloseCounters
<1>4. end' = [end EXCEPT ![e] = x.end] /\ net' = [net EXCEPT ![Peer(e)] = @ \o x.out]
  BY DEF Deactivate, Becomes
<1> HIDE DEF x
<1>5. x.end.state \notin Up
  BY <1>2 DEF Up
<1>6. QED BY <1>1, <1>2, <1>3, <1>4, <1>5, LeavingKeepsOwes

LEMMA TimesOutKeepsOwes ==
    ASSUME Counted, Owes, NEW e \in Ends, OpenTimesOut(e) \/ CloseTimesOut(e) PROVE Owes'
<1> DEFINE new == [end[e] EXCEPT !.state = "CLOSED"]
<1>1. end' = [end EXCEPT ![e] = new] /\ net' = net
  BY DEF OpenTimesOut, CloseTimesOut
<1>2. /\ Types /\ end[e] \in Endpoint /\ net \in [Ends -> Seq(Packet)] /\ Peer(e) \in Ends
  BY PeersPeer DEF Counted, Types
<1>3. /\ new \in Endpoint /\ new.state \notin Up /\ new.part = end[e].part
      /\ new.totalBytesRecv = end[e].totalBytesRecv /\ new.totalBytesSent = end[e].totalBytesSent
      /\ new.lastFlowMsgRecv = end[e].lastFlowMsgRecv
      /\ new.lastFlowMsgSent = end[e].lastFlowMsgSent
  BY <1>2 DEF Endpoint, States, Up
<1> HIDE DEF new
<1>4. net' = [net EXCEPT ![Peer(e)] = @ \o <<>>] /\ <<>> \in Seq(Packet)
<2>1. net[Peer(e)] \o <<>> = net[Peer(e)]
  BY <1>2
<2>2. QED BY <1>1, <1>2, <2>1
<1>5. Paid(end[e].totalBytesSent, <<>>, new.totalBytesSent) /\ Unreported(<<>>)
<2>1. end[e].totalBytesSent \in Int
  BY <1>2 DEF Endpoint
<2>2. QED BY <1>3, <2>1, NothingPaid DEF Unreported
<1>6. QED BY <1>1, <1>2, <1>3, <1>4, <1>5, LeavingKeepsOwes

LEMMA SinkSendKeepsOwes ==
    ASSUME Counted, Owes, SinkSend PROVE Owes'
<1> DEFINE p == Head(todo)
           quiet == Quiet(end["sink"])
           x == Send(quiet, {"Psh"}, p.type, p.index, p.payload)
           packet == [flags |-> {"Psh"}, type |-> p.type, index |-> p.index, payload |-> p.payload,
                      packetCount |-> quiet.end.lastSentPacketCount]
<1>1. todo # <<>> /\ Becomes("sink", x)
  BY DEF SinkSend
<1>2. /\ Types /\ "sink" \in Ends /\ end["sink"] \in Endpoint /\ todo \in Seq(Item)
      /\ end \in [Ends -> Endpoint]
  BY DEF Counted, Types, Ends
<1>3. p.type \in Kinds /\ p.index \in Nat /\ p.payload \in Short
<2>1. p \in Item
  BY <1>1, <1>2
<2>2. QED BY <2>1 DEF Item
<1>4. quiet \in Sending /\ quiet.end = end["sink"] /\ quiet.out = <<>>
  BY <1>2 DEF Quiet, Sending
<1>5. {"Psh"} \in SUBSET Flags
  BY DEF Flags
<1> HIDE DEF p, quiet
<1>6. /\ x \in Sending /\ packet \in Packet /\ x.out = Append(quiet.out, packet)
      /\ x.end.state = quiet.end.state /\ x.end.part = quiet.end.part
      /\ x.end.totalBytesRecv = quiet.end.totalBytesRecv
<2>1. PICK q \in Sending, type \in Kinds, index \in Nat, payload \in Short :
         q = quiet /\ type = p.type /\ index = p.index /\ payload = p.payload
  BY ONLY <1>3, <1>4
<2>2. LET sent == Send(q, {"Psh"}, type, index, payload)
          new == [flags |-> {"Psh"}, type |-> type, index |-> index, payload |-> payload,
                  packetCount |-> q.end.lastSentPacketCount]
      IN  /\ sent \in Sending /\ new \in Packet /\ sent.out = Append(q.out, new)
          /\ sent.end.state = q.end.state /\ sent.end.part = q.end.part
          /\ sent.end.totalBytesRecv = q.end.totalBytesRecv
  BY ONLY <1>5, SendFacts, ZenonT(30)
<2>3. QED BY ONLY <2>1, <2>2
<1>7. /\ x.end.totalBytesSent = quiet.end.totalBytesSent + Size(packet)
      /\ x.end.lastFlowMsgRecv = quiet.end.lastFlowMsgRecv
      /\ x.end.lastFlowMsgSent = quiet.end.lastFlowMsgSent
  BY <1>3, <1>4, <1>5, SendCounters
<1>8. packet.flags = {"Psh"}
  OBVIOUS
<1>9. end' = [end EXCEPT !["sink"] = x.end] /\ net' = [net EXCEPT ![Peer("sink")] = @ \o x.out]
  BY <1>1 DEF Becomes
<1> HIDE DEF x, packet
<1>10. One(end["sink"].totalBytesSent, x.out, {"Psh"}, x.end.totalBytesSent)
<2>1. x.out = <<packet>>
  BY <1>4, <1>6
<2>2. QED BY <1>4, <1>6, <1>7, <1>8, <2>1 DEF One
<1>11. /\ Paid(end["sink"].totalBytesSent, x.out, x.end.totalBytesSent) /\ Unreported(x.out)
       /\ \A k \in 1..Len(x.out) : ~Answers(x.out[k])
<2>1. end["sink"].totalBytesSent \in Int /\ "Flo" \notin {"Psh"} /\ {"Psh"} \cap {"Syn", "Ack"} = {}
  BY <1>2 DEF Endpoint
<2>2. QED BY <1>10, <2>1, OneIsPaid
<1>12. x.end \in Endpoint /\ x.out \in Seq(Packet)
  BY <1>6 DEF Sending
<1>13. /\ x.end.part = end["sink"].part /\ x.end.totalBytesRecv = end["sink"].totalBytesRecv
       /\ x.end.lastFlowMsgRecv = end["sink"].lastFlowMsgRecv
       /\ x.end.lastFlowMsgSent = end["sink"].lastFlowMsgSent
       /\ x.end.state = end["sink"].state
  BY <1>4, <1>6, <1>7
<1>14. QED BY <1>2, <1>9, <1>11, <1>12, <1>13, LeavingKeepsOwes

LEMMA InitOwes == Init => Owes
<1> SUFFICES ASSUME Init PROVE Owes
  OBVIOUS
<1>1. PICK server \in Ends : end = [e \in Ends |-> NewEnd(e = server)]
  BY DEF Init
<1>2. ASSUME NEW e \in Ends
      PROVE  /\ net[e] = <<>> /\ end[e].state \in {"LISTEN", "CLOSED"} /\ end[e].totalBytesSent = 0
             /\ end[e].totalBytesRecv = 0 /\ end[e].lastFlowMsgSent = 0
<2>1. end[e] = NewEnd(e = server) /\ net[e] = <<>>
  BY <1>1 DEF Init
<2>2. QED BY <2>1 DEF NewEnd
<1>3. "sink" \in Ends /\ "source" \in Ends
  BY DEF Ends
<1>4. PICK at \in [1..Len(<<>>) + 1 -> Int] : Spaced(at, <<>>) /\ at[1] = 0 /\ at[Len(<<>>) + 1] = 0
<2>1. 0 \in Int
  OBVIOUS
<2>2. Paid(0, <<>>, 0)
  BY <2>1, NothingPaid
<2>3. QED BY <2>2 DEF Paid
<1>5. end["sink"].state \notin Up
  BY <1>2, <1>3 DEF Up
<1>6. /\ Punctual(end["source"]) /\ EarlyAnswers(end["sink"], <<>>, at)
      /\ Credited(end["sink"], end["source"], at)
      /\ ReportComes(end["sink"], end["source"], <<>>, at)
<2>1. end["source"].totalBytesRecv = 0 /\ end["source"].lastFlowMsgSent = 0
  BY <1>2, <1>3
<2>2. QED BY <1>5, <2>1, SocketAssumption DEF Punctual, EarlyAnswers, Credited, ReportComes
<1>7. Owing(end["sink"], end["source"], <<>>, <<>>, at)
  BY <1>2, <1>3, <1>4, <1>6 DEF Owing
<1>8. net["sink"] = <<>> /\ net["source"] = <<>>
  BY <1>2, <1>3
<1>9. QED BY <1>7, <1>8 DEF Owes

LEMMA StepKeepsOwes == Counted /\ Owes /\ Unspent /\ [Next]_vars => Owes'
<1> SUFFICES ASSUME Counted, Owes, Unspent, [Next]_vars PROVE Owes'
  OBVIOUS
<1>1. Types /\ "sink" \in Ends /\ "source" \in Ends
  BY DEF Counted, Ends
<1>2. CASE UNCHANGED <<end, net>>
  BY <1>2 DEF Owes
<1>3. UNCHANGED vars \/ SinkWork \/ (\E e \in Ends : OpenEnds(e) \/ CloseEnds(e)) => UNCHANGED <<end, net>>
  BY DEF vars, SinkWork, OpenEnds, CloseEnds
<1>4. ASSUME NEW e \in Ends, Activate(e) PROVE Owes'
  BY <1>4, ActivateKeepsOwes
<1>5. ASSUME NEW e \in Ends, OpenTimesOut(e) \/ CloseTimesOut(e) PROVE Owes'
  BY <1>5, TimesOutKeepsOwes
<1>6. ASSUME NEW e \in Ends, Deactivate(e) PROVE Owes'
  BY <1>6, DeactivateKeepsOwes
<1>7. ASSUME NEW e \in Ends, HandshakeRecv(e) PROVE Owes'
<2>1. length[e] \in Nat
  BY <1>1 DEF Types
<2>2. isRecvReady(e) /\ Receives(e, recv(end[e], net[e], length[e]))
  BY <1>7 DEF Receivable, HandshakeRecv
<2>3. QED BY <1>1, <2>1, <2>2, ReceivingKeepsOwes
<1>8. ASSUME SinkHandleState PROVE Owes'
<2>1. isRecvReady("sink") /\ Receives("sink", recv(end["sink"], net["sink"], 0)) /\ 0 \in Nat
  BY <1>8 DEF Receivable, SinkHandleState
<2>2. QED BY <1>1, <2>1, ReceivingKeepsOwes
<1>9. ASSUME SourceWork PROVE Owes'
<2>1. PICK room \in 1..MaxBuffer : Receives("source", recv(end["source"], net["source"], room))
  BY <1>9 DEF SourceWork
<2>2. isRecvReady("source") /\ room \in Nat
  BY <1>9 DEF Receivable, SourceWork
<2>3. QED BY <1>1, <2>1, <2>2, ReceivingKeepsOwes
<1>10. QED
  BY <1>2, <1>3, <1>4, <1>5, <1>6, <1>7, <1>8, <1>9, SinkSendKeepsOwes DEF Next

\* A sink that has used up its window will hear from the source: when nothing is
\* on the way between two connected ends, the sink may send, whatever handshakes
\* failed before and whatever was lost in them, provided that no sink uses up its
\* window while it still waits for the answer to its SYN (NoFlowDeadlock).
THEOREM WindowIsReopened == Spec /\ []Unspent => []NoFlowDeadlock
<1>1. Counted /\ Owes => NoFlowDeadlock
<2> SUFFICES ASSUME Counted, Owes, Silent, \A e \in Ends : end[e].state = "ESTABLISHED"
             PROVE  isReady(end["sink"])
  BY DEF NoFlowDeadlock
<2>1. /\ "sink" \in Ends /\ "source" \in Ends
      /\ end["sink"] \in Endpoint /\ end["source"] \in Endpoint
      /\ end["sink"].state = "ESTABLISHED" /\ end["source"].state = "ESTABLISHED"
  BY DEF Counted, Types, Ends
<2>2. net["sink"] = <<>> /\ net["source"] = <<>> /\ end["source"].part.rest = <<>>
  BY <2>1 DEF Silent, isRecvReady
<2>3. PICK at \in [1..Len(<<>>) + 1 -> Int] : Owing(end["sink"], end["source"], <<>>, <<>>, at)
  BY <2>2 DEF Owes
<2>4. QED BY <2>1, <2>2, <2>3, WindowIsOpen DEF isReady
<1>2. Spec => []Counted
  BY AlwaysCounted
<1>3. Spec /\ []Unspent => []Owes
<2>1. Init => Owes
  BY InitOwes
<2>2. Counted /\ Owes /\ Unspent /\ [Next]_vars => Owes'
  BY StepKeepsOwes
<2>3. QED BY <1>2, <2>1, <2>2, PTL DEF Spec
<1>4. QED BY <1>1, <1>2, <1>3, PTL

(***************************************************************************)
(* Handshakes                                                              *)
(***************************************************************************)

\* The flags of the packets of handshakes that may be on the way to an end
Nothing == <<>>
Ack == <<{"Ack"}>>
AckAck == <<{"Ack"}, {"Ack"}>>
AckAckFin == <<{"Ack"}, {"Ack"}, {"Fin"}>>
AckFin == <<{"Ack"}, {"Fin"}>>
AckFinAck == <<{"Ack"}, {"Fin"}, {"Ack"}>>
AckSyn == <<{"Ack"}, {"Syn"}>>
Fin == <<{"Fin"}>>
FinAck == <<{"Fin"}, {"Ack"}>>
Syn == <<{"Syn"}>>
SynAck == <<{"Syn"}, {"Ack"}>>
SynAckFin == <<{"Syn"}, {"Ack"}, {"Fin"}>>
SynAndAck == <<{"Syn", "Ack"}>>

\* An end in a state, with one of the words on its way to it
At(state, word, s, words) == state = s /\ word \in words

\* The first handshake: the first of the two ends is the server.
Opening(a, v, b, w) ==
    \/ At(a, v, "LISTEN", {Nothing}) /\ At(b, w, "CLOSED", {Nothing})
    \/ At(a, v, "LISTEN", {Syn}) /\ At(b, w, "SYN_SENT", {Nothing})
    \/ At(a, v, "SYN_RECEIVED", {Nothing}) /\ At(b, w, "SYN_SENT", {SynAndAck})
    \/ At(a, v, "SYN_RECEIVED", {Ack}) /\ At(b, w, "ESTABLISHED", {Nothing})
    \/ At(a, v, "SYN_RECEIVED", {AckFin}) /\ At(b, w, "FIN_WAIT_1", {Nothing})

\* The first session
First(a, v, b, w) ==
    \/ At(a, v, "ESTABLISHED", {Nothing}) /\ At(b, w, "ESTABLISHED", {Nothing})
    \/ At(a, v, "ESTABLISHED", {Fin}) /\ At(b, w, "FIN_WAIT_1", {Nothing})
    \/ At(a, v, "FIN_WAIT_1", {Fin}) /\ At(b, w, "FIN_WAIT_1", {Fin})
    \/ At(a, v, "FIN_WAIT_1", {Ack}) /\ At(b, w, "CLOSE_WAIT", {Nothing})
    \/ At(a, v, "FIN_WAIT_1", {AckFin}) /\ At(b, w, "LAST_ACK", {Nothing})
    \/ At(a, v, "FIN_WAIT_1", {FinAck}) /\ At(b, w, "CLOSING", {Nothing})
    \/ At(a, v, "FIN_WAIT_2", {Nothing}) /\ At(b, w, "CLOSE_WAIT", {Nothing})
    \/ At(a, v, "FIN_WAIT_2", {Fin}) /\ At(b, w, "LAST_ACK", {Nothing})
    \/ At(a, v, "CLOSING", {Ack}) /\ At(b, w, "CLOSING", {Ack})
    \/ At(a, v, "CLOSING", {Ack}) /\ At(b, w, "TIME_WAIT", {Nothing})
    \/ At(a, v, "CLOSING", {Ack}) /\ At(b, w, "CLOSED", {Nothing})
    \/ At(a, v, "TIME_WAIT", {Nothing}) /\ At(b, w, "LAST_ACK", {Ack})
    \/ At(a, v, "TIME_WAIT", {Nothing}) /\ At(b, w, "TIME_WAIT", {Nothing})
    \/ At(a, v, "TIME_WAIT", {Nothing}) /\ At(b, w, "CLOSED", {Nothing})
    \/ At(a, v, "CLOSED", {Nothing}) /\ At(b, w, "LAST_ACK", {Ack})
    \/ At(a, v, "CLOSED", {Nothing}) /\ At(b, w, "CLOSED", {Nothing})

\* The first of the two has begun anew, the second may still end the first session,
\* and takes the SYN that it gets then for nothing.
Between(a, v, b, w) ==
    /\ At(a, v, "SYN_SENT", {Nothing})
    /\ \/ At(b, w, "CLOSING", {AckSyn})
       \/ At(b, w, "LAST_ACK", {AckSyn})
       \/ At(b, w, "TIME_WAIT", {Nothing, Syn})
       \/ At(b, w, "CLOSED", {Nothing, Syn})

\* The second session has no server: if both SYNs cross, each of them is answered,
\* and an ACK is left over in both directions.
Second(a, v, b, w) ==
    \/ At(a, v, "SYN_SENT", {Syn}) /\ At(b, w, "SYN_SENT", {Nothing, Syn})
    \/ At(a, v, "SYN_SENT", {Ack, SynAck}) /\ At(b, w, "ESTABLISHED", {Nothing})
    \/ At(a, v, "SYN_SENT", {AckFin, SynAckFin}) /\ At(b, w, "FIN_WAIT_1", {Nothing})
    \/ At(a, v, "ESTABLISHED", {Nothing, Ack}) /\ At(b, w, "ESTABLISHED", {Nothing, Ack})
    \/ At(a, v, "ESTABLISHED", {Fin, AckFin}) /\ At(b, w, "FIN_WAIT_1", {Nothing, Ack})
    \/ At(a, v, "ESTABLISHED", {Fin, AckFin}) /\ At(b, w, "FIN_WAIT_2", {Nothing})
    \/ At(a, v, "FIN_WAIT_1", {Fin, AckFin}) /\ At(b, w, "FIN_WAIT_1", {Fin, AckFin})
    \/ At(a, v, "FIN_WAIT_1", {Fin, AckFin}) /\ At(b, w, "FIN_WAIT_2", {Fin})
    \/ At(a, v, "FIN_WAIT_1", {Ack, AckAck}) /\ At(b, w, "CLOSE_WAIT", {Nothing})
    \/ At(a, v, "FIN_WAIT_1", {AckFin, AckAckFin}) /\ At(b, w, "LAST_ACK", {Nothing})
    \/ /\ At(a, v, "FIN_WAIT_1", {FinAck, AckFinAck})
       /\ b \in {"CLOSING", "TIME_WAIT", "CLOSED"} /\ w = Nothing
    \/ At(a, v, "FIN_WAIT_2", {Fin}) /\ At(b, w, "FIN_WAIT_2", {Fin})
    \/ At(a, v, "FIN_WAIT_2", {Nothing, Ack}) /\ At(b, w, "CLOSE_WAIT", {Nothing})
    \/ At(a, v, "FIN_WAIT_2", {Fin, AckFin}) /\ At(b, w, "LAST_ACK", {Nothing})
    \/ /\ At(a, v, "FIN_WAIT_2", {FinAck})
       /\ b \in {"CLOSING", "TIME_WAIT", "CLOSED"} /\ w = Nothing
    \/ At(a, v, "CLOSING", {Ack}) /\ At(b, w, "CLOSING", {Ack})
    \/ At(a, v, "CLOSING", {Ack}) /\ b \in {"TIME_WAIT", "CLOSED"} /\ w \in {Nothing, Ack}
    \/ a \in {"TIME_WAIT", "CLOSED"} /\ v = Nothing /\ At(b, w, "LAST_ACK", {Ack})
    \/ /\ a \in {"TIME_WAIT", "CLOSED"} /\ b \in {"TIME_WAIT", "CLOSED"}
       /\ v \in {Nothing, Ack} /\ w \in {Nothing, Ack}

\* All of this with the numbers of activations
Ordered(a, v, i, b, w, j) ==
    \/ /\ Opening(a, v, b, w) /\ i \in {0, 1} /\ (a # "LISTEN" => i = 1)
       /\ j = IF b = "CLOSED" THEN 0 ELSE 1
    \/ First(a, v, b, w) /\ i = 1 /\ j = 1
    \/ Between(a, v, b, w) /\ i = 2 /\ j = 1
    \/ Second(a, v, b, w) /\ i = 2 /\ j = 2

Paired(a, v, i, b, w, j) == Ordered(a, v, i, b, w, j) \/ Ordered(b, w, j, a, v, i)

LEMMA WordFacts ==
    /\ Ack # Nothing /\ AckAck # Nothing /\ AckAckFin # Nothing /\ AckFin # Nothing
    /\ AckFinAck # Nothing /\ AckSyn # Nothing /\ Fin # Nothing /\ FinAck # Nothing
    /\ Syn # Nothing /\ SynAck # Nothing /\ SynAckFin # Nothing /\ SynAndAck # Nothing
  BY DEF Nothing, Ack, AckAck, AckAckFin, AckFin, AckFinAck, AckSyn, Fin, FinAck, Syn, SynAck,
         SynAckFin, SynAndAck

LEMMA HeadFacts ==
    /\ Head(Ack) = {"Ack"} /\ Tail(Ack) = Nothing
    /\ Head(AckAck) = {"Ack"} /\ Tail(AckAck) = Ack
    /\ Head(AckAckFin) = {"Ack"} /\ Tail(AckAckFin) = AckFin
    /\ Head(AckFin) = {"Ack"} /\ Tail(AckFin) = Fin
    /\ Head(AckFinAck) = {"Ack"} /\ Tail(AckFinAck) = FinAck
    /\ Head(AckSyn) = {"Ack"} /\ Tail(AckSyn) = Syn
    /\ Head(Fin) = {"Fin"} /\ Tail(Fin) = Nothing
    /\ Head(FinAck) = {"Fin"} /\ Tail(FinAck) = Ack
    /\ Head(Syn) = {"Syn"} /\ Tail(Syn) = Nothing
    /\ Head(SynAck) = {"Syn"} /\ Tail(SynAck) = Ack
    /\ Head(SynAckFin) = {"Syn"} /\ Tail(SynAckFin) = AckFin
    /\ Head(SynAndAck) = {"Syn", "Ack"} /\ Tail(SynAndAck) = Nothing
  BY DEF Nothing, Ack, AckAck, AckAckFin, AckFin, AckFinAck, AckSyn, Fin, FinAck, Syn, SynAck,
         SynAckFin, SynAndAck

LEMMA SameSeq ==
    ASSUME NEW S, NEW s \in Seq(S), NEW t \in Seq(S), Len(s) = Len(t),
           \A i \in 1..Len(s) : s[i] = t[i]
    PROVE  s = t
  OBVIOUS

LEMMA AppendAt ==
    ASSUME NEW S, NEW s \in Seq(S), NEW y \in S
    PROVE  /\ Append(s, y) \in Seq(S) /\ Len(Append(s, y)) = Len(s) + 1
           /\ Append(s, y)[Len(s) + 1] = y /\ \A i \in 1..Len(s) : Append(s, y)[i] = s[i]
  OBVIOUS

LEMMA AppendTwo == ASSUME NEW x, NEW y PROVE Append(<<x>>, y) = <<x, y>>
<1> DEFINE s == <<x>>
           t == <<x, y>>
           r == Append(s, y)
<1>1. s \in Seq({x, y}) /\ Len(s) = 1 /\ s[1] = x
  OBVIOUS
<1>2. t \in Seq({x, y}) /\ Len(t) = 2 /\ t[1] = x /\ t[2] = y
  OBVIOUS
<1> HIDE DEF s, t
<1>3. r \in Seq({x, y}) /\ Len(r) = 2 /\ r[1] = x /\ r[2] = y
<2> DEFINE S == {x, y}
<2>1. s \in Seq(S) /\ y \in S
  BY <1>1
<2> HIDE DEF S
<2>2. /\ r \in Seq(S) /\ Len(r) = Len(s) + 1
      /\ r[Len(s) + 1] = y /\ \A i \in 1..Len(s) : r[i] = s[i]
  BY <2>1, AppendAt
<2> HIDE DEF r
<2>3. Len(r) = 2 /\ r[1] = x /\ r[2] = y
  BY <1>1, <2>2
<2>4. QED BY <2>2, <2>3 DEF S
<1> HIDE DEF r
<1>4. \A i \in 1..Len(r) : r[i] = t[i]
  BY <1>2, <1>3
<1>5. r = t
  BY <1>2, <1>3, <1>4, SameSeq
<1>6. QED BY <1>5 DEF r, s, t

LEMMA AppendThree == ASSUME NEW x, NEW y, NEW z PROVE Append(<<x, y>>, z) = <<x, y, z>>
<1> DEFINE s == <<x, y>>
           t == <<x, y, z>>
           r == Append(s, z)
<1>1. s \in Seq({x, y, z}) /\ Len(s) = 2 /\ s[1] = x /\ s[2] = y
  OBVIOUS
<1>2. t \in Seq({x, y, z}) /\ Len(t) = 3 /\ t[1] = x /\ t[2] = y /\ t[3] = z
  OBVIOUS
<1> HIDE DEF s, t
<1>3. r \in Seq({x, y, z}) /\ Len(r) = 3 /\ r[1] = x /\ r[2] = y /\ r[3] = z
<2> DEFINE S == {x, y, z}
<2>1. s \in Seq(S) /\ z \in S
  BY <1>1
<2> HIDE DEF S
<2>2. /\ r \in Seq(S) /\ Len(r) = Len(s) + 1
      /\ r[Len(s) + 1] = z /\ \A i \in 1..Len(s) : r[i] = s[i]
  BY <2>1, AppendAt
<2> HIDE DEF r
<2>3. Len(r) = 3 /\ r[1] = x /\ r[2] = y /\ r[3] = z
  BY <1>1, <2>2
<2>4. QED BY <2>2, <2>3 DEF S
<1> HIDE DEF r
<1>4. \A i \in 1..Len(r) : r[i] = t[i]
  BY <1>2, <1>3
<1>5. r = t
  BY <1>2, <1>3, <1>4, SameSeq
<1>6. QED BY <1>5 DEF r, s, t

LEMMA AppendFacts ==
    /\ Append(Nothing, {"Ack"}) = Ack /\ Append(Nothing, {"Fin"}) = Fin
    /\ Append(Nothing, {"Syn"}) = Syn /\ Append(Nothing, {"Syn", "Ack"}) = SynAndAck
    /\ Append(Ack, {"Ack"}) = AckAck /\ Append(Ack, {"Fin"}) = AckFin /\ Append(Ack, {"Syn"}) = AckSyn
    /\ Append(AckAck, {"Fin"}) = AckAckFin /\ Append(AckFin, {"Ack"}) = AckFinAck
    /\ Append(Fin, {"Ack"}) = FinAck /\ Append(Syn, {"Ack"}) = SynAck
    /\ Append(SynAck, {"Fin"}) = SynAckFin
<1>1. Append(Nothing, {"Ack"}) = Ack /\ Append(Nothing, {"Fin"}) = Fin
      /\ Append(Nothing, {"Syn"}) = Syn /\ Append(Nothing, {"Syn", "Ack"}) = SynAndAck
  BY DEF Nothing, Ack, Fin, Syn, SynAndAck
<1>4. /\ Append(Ack, {"Ack"}) = AckAck /\ Append(Ack, {"Fin"}) = AckFin /\ Append(Ack, {"Syn"}) = AckSyn
      /\ Append(Fin, {"Ack"}) = FinAck /\ Append(Syn, {"Ack"}) = SynAck
  BY AppendTwo, Zenon DEF Ack, AckAck, AckFin, AckSyn, Fin, FinAck, Syn, SynAck
<1>5. /\ Append(AckAck, {"Fin"}) = AckAckFin /\ Append(AckFin, {"Ack"}) = AckFinAck
      /\ Append(SynAck, {"Fin"}) = SynAckFin
  BY AppendThree, Zenon DEF AckAck, AckAckFin, AckFin, AckFinAck, SynAck, SynAckFin
<1>6. QED BY <1>1, <1>4, <1>5, Zenon

\* What an end says to the first of the words on its way, and where it goes
Says(state, word) == Transition(state, Head(word))[1]
Goes(state, word) == Transition(state, Head(word))[2]
\* What is on the way to the other end then
Told(state, word, other) == IF Says(state, word) = {} THEN other ELSE Append(other, Says(state, word))

LEMMA MoveFacts ==
    /\ Transition("LISTEN", {"Syn"}) = <<{"Syn", "Ack"}, "SYN_RECEIVED">>
    /\ Transition("SYN_SENT", {"Syn", "Ack"}) = <<{"Ack"}, "ESTABLISHED">>
    /\ Transition("SYN_SENT", {"Syn"}) = <<{"Ack"}, "ESTABLISHED">>
    /\ Transition("SYN_SENT", {"Ack"}) = <<{"Ack"}, "ESTABLISHED">>
    /\ Transition("SYN_RECEIVED", {"Ack"}) = <<{}, "ESTABLISHED">>
    /\ Transition("ESTABLISHED", {"Ack"}) = <<{}, "ESTABLISHED">>
    /\ Transition("ESTABLISHED", {"Fin"}) = <<{"Ack"}, "CLOSE_WAIT">>
    /\ Transition("CLOSE_WAIT", {"Ack"}) = <<{}, "CLOSE_WAIT">>
    /\ Transition("FIN_WAIT_1", {"Ack"}) = <<{}, "FIN_WAIT_2">>
    /\ Transition("FIN_WAIT_1", {"Fin"}) = <<{"Ack"}, "CLOSING">>
    /\ Transition("FIN_WAIT_2", {"Ack"}) = <<{}, "FIN_WAIT_2">>
    /\ Transition("FIN_WAIT_2", {"Fin"}) = <<{"Ack"}, "TIME_WAIT">>
    /\ Transition("CLOSING", {"Ack"}) = <<{}, "TIME_WAIT">>
    /\ Transition("LAST_ACK", {"Ack"}) = <<{}, "CLOSED">>
    /\ Transition("TIME_WAIT", {"Ack"}) = <<{}, "TIME_WAIT">>
    /\ Transition("TIME_WAIT", {"Syn"}) = <<{}, "TIME_WAIT">>
  BY DEF Transition

\* An end that hears a word says nothing, or acknowledges it.
WithAck(word) == Append(word, {"Ack"})
Acked(state, word) == Says(state, word) # {}
Keeps(s, word, t) == Goes(s, word) = t /\ ~Acked(s, word)
Acks(s, word, t) == Goes(s, word) = t /\ Acked(s, word)

LEMMA MoveOn ==
    ASSUME NEW s, NEW word, NEW t, NEW flags, NEW answer,
           Head(word) = flags, Transition(s, flags) = <<answer, t>>
    PROVE  Goes(s, word) = t /\ Says(s, word) = answer
  BY DEF Goes, Says

LEMMA KeepsFacts ==
    /\ Keeps("SYN_RECEIVED", Ack, "ESTABLISHED") /\ Keeps("SYN_RECEIVED", AckFin, "ESTABLISHED")
    /\ Keeps("ESTABLISHED", Ack, "ESTABLISHED") /\ Keeps("ESTABLISHED", AckFin, "ESTABLISHED")
    /\ Keeps("FIN_WAIT_1", Ack, "FIN_WAIT_2") /\ Keeps("FIN_WAIT_1", AckAck, "FIN_WAIT_2")
    /\ Keeps("FIN_WAIT_1", AckFin, "FIN_WAIT_2") /\ Keeps("FIN_WAIT_1", AckAckFin, "FIN_WAIT_2")
    /\ Keeps("FIN_WAIT_1", AckFinAck, "FIN_WAIT_2")
    /\ Keeps("FIN_WAIT_2", Ack, "FIN_WAIT_2") /\ Keeps("FIN_WAIT_2", AckFin, "FIN_WAIT_2")
    /\ Keeps("CLOSING", Ack, "TIME_WAIT") /\ Keeps("CLOSING", AckSyn, "TIME_WAIT")
    /\ Keeps("LAST_ACK", Ack, "CLOSED") /\ Keeps("LAST_ACK", AckSyn, "CLOSED")
    /\ Keeps("TIME_WAIT", Ack, "TIME_WAIT") /\ Keeps("TIME_WAIT", Syn, "TIME_WAIT")
<1>1. ASSUME NEW s, NEW word, NEW t, NEW flags, Head(word) = flags, Transition(s, flags) = <<{}, t>>
      PROVE  Keeps(s, word, t)
  BY <1>1, MoveOn DEF Keeps, Acked
<1>2. QED BY <1>1, HeadFacts, MoveFacts

LEMMA AcksFacts ==
    /\ Acks("SYN_SENT", Syn, "ESTABLISHED") /\ Acks("SYN_SENT", Ack, "ESTABLISHED")
    /\ Acks("SYN_SENT", SynAck, "ESTABLISHED") /\ Acks("SYN_SENT", AckFin, "ESTABLISHED")
    /\ Acks("SYN_SENT", SynAckFin, "ESTABLISHED") /\ Acks("SYN_SENT", SynAndAck, "ESTABLISHED")
    /\ Acks("ESTABLISHED", Fin, "CLOSE_WAIT")
    /\ Acks("FIN_WAIT_1", Fin, "CLOSING") /\ Acks("FIN_WAIT_1", FinAck, "CLOSING")
    /\ Acks("FIN_WAIT_2", Fin, "TIME_WAIT") /\ Acks("FIN_WAIT_2", FinAck, "TIME_WAIT")
<1>1. ASSUME NEW s, NEW word, NEW t, NEW flags, Head(word) = flags, Transition(s, flags) = <<{"Ack"}, t>>
      PROVE  Acks(s, word, t)
  BY <1>1, MoveOn DEF Acks, Acked
<1>2. QED BY <1>1, HeadFacts, MoveFacts

LEMMA TailFacts ==
    /\ Tail(Ack) = Nothing /\ Tail(AckAck) = Ack /\ Tail(AckAckFin) = AckFin /\ Tail(AckFin) = Fin
    /\ Tail(AckFinAck) = FinAck /\ Tail(AckSyn) = Syn /\ Tail(Fin) = Nothing /\ Tail(FinAck) = Ack
    /\ Tail(Syn) = Nothing /\ Tail(SynAck) = Ack /\ Tail(SynAckFin) = AckFin /\ Tail(SynAndAck) = Nothing
    /\ WithAck(Nothing) = Ack /\ WithAck(Ack) = AckAck /\ WithAck(AckFin) = AckFinAck
    /\ WithAck(Fin) = FinAck /\ WithAck(Syn) = SynAck
  BY HeadFacts, AppendFacts DEF WithAck

\* What an end becomes by a word, what is left of it, and what is on the way then
Hears(a, v, w, x, y, z) ==
    x = Goes(a, v) /\ y = Tail(v) /\ z = IF Acked(a, v) THEN WithAck(w) ELSE w

LEMMA InSynSent ==
    ASSUME NEW v, NEW w, NEW x, NEW y, NEW z, Hears("SYN_SENT", v, w, x, y, z)
    PROVE  /\ v = Syn => x = "ESTABLISHED" /\ y = Nothing /\ z = WithAck(w)
           /\ v = Ack => x = "ESTABLISHED" /\ y = Nothing /\ z = WithAck(w)
           /\ v = SynAck => x = "ESTABLISHED" /\ y = Ack /\ z = WithAck(w)
           /\ v = AckFin => x = "ESTABLISHED" /\ y = Fin /\ z = WithAck(w)
           /\ v = SynAckFin => x = "ESTABLISHED" /\ y = AckFin /\ z = WithAck(w)
           /\ v = SynAndAck => x = "ESTABLISHED" /\ y = Nothing /\ z = WithAck(w)
  BY AcksFacts, TailFacts DEF Hears, Acks

LEMMA InSynReceived ==
    ASSUME NEW v, NEW w, NEW x, NEW y, NEW z, Hears("SYN_RECEIVED", v, w, x, y, z)
    PROVE  /\ v = Ack => x = "ESTABLISHED" /\ y = Nothing /\ z = w
           /\ v = AckFin => x = "ESTABLISHED" /\ y = Fin /\ z = w
  BY KeepsFacts, TailFacts DEF Hears, Keeps

LEMMA InEstablished ==
    ASSUME NEW v, NEW w, NEW x, NEW y, NEW z, Hears("ESTABLISHED", v, w, x, y, z)
    PROVE  /\ v = Ack => x = "ESTABLISHED" /\ y = Nothing /\ z = w
           /\ v = AckFin => x = "ESTABLISHED" /\ y = Fin /\ z = w
           /\ v = Fin => x = "CLOSE_WAIT" /\ y = Nothing /\ z = WithAck(w)
<1>1. /\ v = Ack => x = "ESTABLISHED" /\ y = Nothing /\ z = w
      /\ v = AckFin => x = "ESTABLISHED" /\ y = Fin /\ z = w
  BY KeepsFacts, TailFacts DEF Hears, Keeps
<1>2. /\ v = Fin => x = "CLOSE_WAIT" /\ y = Nothing /\ z = WithAck(w)
  BY AcksFacts, TailFacts DEF Hears, Acks
<1>3. QED BY <1>1, <1>2

LEMMA InFinWait1 ==
    ASSUME NEW v, NEW w, NEW x, NEW y, NEW z, Hears("FIN_WAIT_1", v, w, x, y, z)
    PROVE  /\ v = Ack => x = "FIN_WAIT_2" /\ y = Nothing /\ z = w
           /\ v = AckAck => x = "FIN_WAIT_2" /\ y = Ack /\ z = w
           /\ v = AckFin => x = "FIN_WAIT_2" /\ y = Fin /\ z = w
           /\ v = AckAckFin => x = "FIN_WAIT_2" /\ y = AckFin /\ z = w
           /\ v = AckFinAck => x = "FIN_WAIT_2" /\ y = FinAck /\ z = w
           /\ v = Fin => x = "CLOSING" /\ y = Nothing /\ z = WithAck(w)
           /\ v = FinAck => x = "CLOSING" /\ y = Ack /\ z = WithAck(w)
<1>1. /\ v = Ack => x = "FIN_WAIT_2" /\ y = Nothing /\ z = w
      /\ v = AckAck => x = "FIN_WAIT_2" /\ y = Ack /\ z = w
      /\ v = AckFin => x = "FIN_WAIT_2" /\ y = Fin /\ z = w
      /\ v = AckAckFin => x = "FIN_WAIT_2" /\ y = AckFin /\ z = w
      /\ v = AckFinAck => x = "FIN_WAIT_2" /\ y = FinAck /\ z = w
  BY KeepsFacts, TailFacts DEF Hears, Keeps
<1>2. /\ v = Fin => x = "CLOSING" /\ y = Nothing /\ z = WithAck(w)
      /\ v = FinAck => x = "CLOSING" /\ y = Ack /\ z = WithAck(w)
  BY AcksFacts, TailFacts DEF Hears, Acks
<1>3. QED BY <1>1, <1>2

LEMMA InFinWait2 ==
    ASSUME NEW v, NEW w, NEW x, NEW y, NEW z, Hears("FIN_WAIT_2", v, w, x, y, z)
    PROVE  /\ v = Ack => x = "FIN_WAIT_2" /\ y = Nothing /\ z = w
           /\ v = AckFin => x = "FIN_WAIT_2" /\ y = Fin /\ z = w
           /\ v = Fin => x = "TIME_WAIT" /\ y = Nothing /\ z = WithAck(w)
           /\ v = FinAck => x = "TIME_WAIT" /\ y = Ack /\ z = WithAck(w)
<1>1. /\ v = Ack => x = "FIN_WAIT_2" /\ y = Nothing /\ z = w
      /\ v = AckFin => x = "FIN_WAIT_2" /\ y = Fin /\ z = w
  BY KeepsFacts, TailFacts DEF Hears, Keeps
<1>2. /\ v = Fin => x = "TIME_WAIT" /\ y = Nothing /\ z = WithAck(w)
      /\ v = FinAck => x = "TIME_WAIT" /\ y = Ack /\ z = WithAck(w)
  BY AcksFacts, TailFacts DEF Hears, Acks
<1>3. QED BY <1>1, <1>2

LEMMA InClosing ==
    ASSUME NEW v, NEW w, NEW x, NEW y, NEW z, Hears("CLOSING", v, w, x, y, z)
    PROVE  /\ v = Ack => x = "TIME_WAIT" /\ y = Nothing /\ z = w
           /\ v = AckSyn => x = "TIME_WAIT" /\ y = Syn /\ z = w
  BY KeepsFacts, TailFacts DEF Hears, Keeps

LEMMA InLastAck ==
    ASSUME NEW v, NEW w, NEW x, NEW y, NEW z, Hears("LAST_ACK", v, w, x, y, z)
    PROVE  /\ v = Ack => x = "CLOSED" /\ y = Nothing /\ z = w
           /\ v = AckSyn => x = "CLOSED" /\ y = Syn /\ z = w
  BY KeepsFacts, TailFacts DEF Hears, Keeps

LEMMA InTimeWait ==
    ASSUME NEW v, NEW w, NEW x, NEW y, NEW z, Hears("TIME_WAIT", v, w, x, y, z)
    PROVE  /\ v = Ack => x = "TIME_WAIT" /\ y = Nothing /\ z = w
           /\ v = Syn => x = "TIME_WAIT" /\ y = Nothing /\ z = w
  BY KeepsFacts, TailFacts DEF Hears, Keeps

LEMMA AckAdded ==
    /\ WithAck(Nothing) = Ack /\ WithAck(Ack) = AckAck /\ WithAck(AckFin) = AckFinAck
    /\ WithAck(Fin) = FinAck /\ WithAck(Syn) = SynAck
  BY TailFacts

LEMMA ReceiveFirstA ==
    ASSUME NEW a, NEW v, NEW b, NEW w, First(a, v, b, w), v # Nothing, a # "CLOSED",
           NEW x, NEW y, NEW z, Hears(a, v, w, x, y, z)
    PROVE  First(x, y, b, z) \/ First(b, z, x, y)
<1>1. CASE a = "ESTABLISHED"
  BY <1>1, InEstablished, AckAdded DEF First, At
<1>2. CASE a = "FIN_WAIT_1"
  BY <1>2, InFinWait1, AckAdded DEF First, At
<1>3. CASE a = "FIN_WAIT_2"
  BY <1>3, InFinWait2, AckAdded DEF First, At
<1>4. CASE a = "CLOSING"
  BY <1>4, InClosing, AckAdded DEF First, At
<1>5. CASE a = "LAST_ACK"
  BY <1>5, InLastAck, AckAdded DEF First, At
<1>6. CASE a = "TIME_WAIT"
  BY <1>6, InTimeWait, AckAdded DEF First, At
<1>7. a \in {"ESTABLISHED", "FIN_WAIT_1", "FIN_WAIT_2", "CLOSING", "LAST_ACK", "TIME_WAIT"}
  BY DEF First, At
<1>8. QED BY <1>1, <1>2, <1>3, <1>4, <1>5, <1>6, <1>7

LEMMA ReceiveFirstB ==
    ASSUME NEW a, NEW v, NEW b, NEW w, First(b, w, a, v), v # Nothing, a # "CLOSED",
           NEW x, NEW y, NEW z, Hears(a, v, w, x, y, z)
    PROVE  First(x, y, b, z) \/ First(b, z, x, y)
<1>1. CASE a = "ESTABLISHED"
  BY <1>1, InEstablished, AckAdded DEF First, At
<1>2. CASE a = "FIN_WAIT_1"
  BY <1>2, InFinWait1, AckAdded DEF First, At
<1>3. CASE a = "FIN_WAIT_2"
  BY <1>3, InFinWait2, AckAdded DEF First, At
<1>4. CASE a = "CLOSING"
  BY <1>4, InClosing, AckAdded DEF First, At
<1>5. CASE a = "LAST_ACK"
  BY <1>5, InLastAck, AckAdded DEF First, At
<1>6. CASE a = "TIME_WAIT"
  BY <1>6, InTimeWait, AckAdded DEF First, At
<1>7. a \in {"ESTABLISHED", "FIN_WAIT_1", "FIN_WAIT_2", "CLOSING", "LAST_ACK", "TIME_WAIT"}
  BY DEF First, At
<1>8. QED BY <1>1, <1>2, <1>3, <1>4, <1>5, <1>6, <1>7

LEMMA ReceiveBetweenA ==
    ASSUME NEW a, NEW v, NEW b, NEW w, Between(a, v, b, w), v # Nothing
    PROVE  FALSE
  BY DEF Between, At

LEMMA ReceiveBetweenB ==
    ASSUME NEW a, NEW v, NEW b, NEW w, Between(b, w, a, v), v # Nothing, a # "CLOSED",
           NEW x, NEW y, NEW z, Hears(a, v, w, x, y, z)
    PROVE  Between(b, z, x, y)
<1>1. CASE a = "CLOSING"
  BY <1>1, InClosing, AckAdded DEF Between, At
<1>2. CASE a = "LAST_ACK"
  BY <1>2, InLastAck, AckAdded DEF Between, At
<1>3. CASE a = "TIME_WAIT"
  BY <1>3, InTimeWait, AckAdded DEF Between, At
<1>4. a \in {"CLOSING", "LAST_ACK", "TIME_WAIT"}
  BY DEF Between, At
<1>5. QED BY <1>1, <1>2, <1>3, <1>4

LEMMA ReceiveSecond ==
    ASSUME NEW a, NEW v, NEW b, NEW w, Second(a, v, b, w) \/ Second(b, w, a, v), v # Nothing, a # "CLOSED",
           NEW x, NEW y, NEW z, Hears(a, v, w, x, y, z)
    PROVE  Second(x, y, b, z) \/ Second(b, z, x, y)
<1>1. CASE a = "SYN_SENT"
<2>1. CASE Second(a, v, b, w)
  BY <1>1, <2>1, InSynSent, AckAdded DEF Second, At
<2>2. CASE Second(b, w, a, v)
  BY <1>1, <2>2, InSynSent, AckAdded DEF Second, At
<2>3. QED BY <2>1, <2>2
<1>2. CASE a = "ESTABLISHED"
<2>1. CASE Second(a, v, b, w)
  BY <1>2, <2>1, InEstablished, AckAdded DEF Second, At
<2>2. CASE Second(b, w, a, v)
  BY <1>2, <2>2, InEstablished, AckAdded DEF Second, At
<2>3. QED BY <2>1, <2>2
<1>3. CASE a = "FIN_WAIT_1"
<2>1. CASE Second(a, v, b, w)
  BY <1>3, <2>1, InFinWait1, AckAdded DEF Second, At
<2>2. CASE Second(b, w, a, v)
  BY <1>3, <2>2, InFinWait1, AckAdded DEF Second, At
<2>3. QED BY <2>1, <2>2
<1>4. CASE a = "FIN_WAIT_2"
<2>1. CASE Second(a, v, b, w)
  BY <1>4, <2>1, InFinWait2, AckAdded DEF Second, At
<2>2. CASE Second(b, w, a, v)
  BY <1>4, <2>2, InFinWait2, AckAdded DEF Second, At
<2>3. QED BY <2>1, <2>2
<1>5. CASE a = "CLOSING"
<2>1. CASE Second(a, v, b, w)
  BY <1>5, <2>1, InClosing, AckAdded DEF Second, At
<2>2. CASE Second(b, w, a, v)
  BY <1>5, <2>2, InClosing, AckAdded DEF Second, At
<2>3. QED BY <2>1, <2>2
<1>6. CASE a = "LAST_ACK"
<2>1. CASE Second(a, v, b, w)
  BY <1>6, <2>1, InLastAck, AckAdded DEF Second, At
<2>2. CASE Second(b, w, a, v)
  BY <1>6, <2>2, InLastAck, AckAdded DEF Second, At
<2>3. QED BY <2>1, <2>2
<1>7. CASE a = "TIME_WAIT"
<2>1. CASE Second(a, v, b, w)
  BY <1>7, <2>1, InTimeWait, AckAdded DEF Second, At
<2>2. CASE Second(b, w, a, v)
  BY <1>7, <2>2, InTimeWait, AckAdded DEF Second, At
<2>3. QED BY <2>1, <2>2
<1>8. a \in {"SYN_SENT", "ESTABLISHED", "FIN_WAIT_1", "FIN_WAIT_2", "CLOSING", "LAST_ACK", "TIME_WAIT"}
  BY DEF Second, At
<1>9. QED BY <1>1, <1>2, <1>3, <1>4, <1>5, <1>6, <1>7, <1>8

LEMMA ReceiveOpening ==
    ASSUME NEW a, NEW v, NEW b, NEW w, Opening(a, v, b, w) \/ Opening(b, w, a, v), v # Nothing, a # "CLOSED", a # "LISTEN",
           NEW x, NEW y, NEW z, Hears(a, v, w, x, y, z)
    PROVE  Opening(x, y, b, z) \/ Opening(b, z, x, y) \/ First(x, y, b, z)
<1>1. CASE a = "SYN_RECEIVED"
  BY <1>1, InSynReceived, AckAdded DEF Opening, First, At
<1>2. CASE a = "SYN_SENT"
  BY <1>2, InSynSent, AckAdded DEF Opening, First, At
<1>3. a \in {"SYN_RECEIVED", "SYN_SENT"}
  BY DEF Opening, First, At
<1>4. QED BY <1>1, <1>2, <1>3

LEMMA ReceiveListening ==
    ASSUME NEW v, NEW b, NEW w, Opening("LISTEN", v, b, w), v # Nothing
    PROVE  /\ Opening(Goes("LISTEN", v), Tail(v), b, Told("LISTEN", v, w))
           /\ Goes("LISTEN", v) = "SYN_RECEIVED" /\ b = "SYN_SENT"
<1>1. v = Syn /\ b = "SYN_SENT" /\ w = Nothing
  BY DEF Opening, At
<1>2. Goes("LISTEN", Syn) = "SYN_RECEIVED" /\ Says("LISTEN", Syn) = {"Syn", "Ack"}
<2>1. Head(Syn) = {"Syn"} /\ Transition("LISTEN", {"Syn"}) = <<{"Syn", "Ack"}, "SYN_RECEIVED">>
  BY HeadFacts, MoveFacts
<2>2. QED BY ONLY <2>1 DEF Goes, Says
<1>3. Told("LISTEN", Syn, Nothing) = SynAndAck
  BY <1>2, AppendFacts DEF Told
<1>4. QED BY <1>1, <1>2, <1>3, TailFacts DEF Opening, At

\* Who does not listen answers nothing but ACK.
LEMMA ToldFacts ==
    ASSUME NEW a, NEW v, a # "LISTEN"
    PROVE  \A w : Told(a, v, w) = IF Acked(a, v) THEN WithAck(w) ELSE w
<1>1. Says(a, v) \in {{}, {"Ack"}}
  BY DEF Says, Transition
<1>2. QED BY <1>1 DEF Told, Acked, WithAck

LEMMA ReceivePaired ==
    ASSUME NEW a, NEW v, NEW i, NEW b, NEW w, NEW j, Paired(a, v, i, b, w, j),
           v # Nothing, a # "CLOSED", a = "LISTEN" => i = 1
    PROVE  Paired(Goes(a, v), Tail(v), i, b, Told(a, v, w), j)
<1> DEFINE x == Goes(a, v)
           y == Tail(v)
           z == Told(a, v, w)
<1>1. CASE a = "LISTEN"
<2>1. Opening(a, v, b, w) /\ j = IF b = "CLOSED" THEN 0 ELSE 1
  BY <1>1 DEF Paired, Ordered, Opening, First, Between, Second, At
<2>2. Opening(x, y, b, z) /\ x = "SYN_RECEIVED" /\ b = "SYN_SENT"
  BY <1>1, <2>1, ReceiveListening
<2> HIDE DEF x, y, z
<2>3. Paired(x, y, i, b, z, j)
  BY <1>1, <2>1, <2>2 DEF Paired, Ordered
<2>4. QED BY <2>3 DEF x, y, z
<1>2. CASE a # "LISTEN"
<2>1. Hears(a, v, w, x, y, z)
  BY <1>2, ToldFacts DEF Hears
<2> HIDE DEF x, y, z
<2>3. CASE \/ Opening(a, v, b, w) /\ i = 1 /\ j = IF b = "CLOSED" THEN 0 ELSE 1
           \/ Opening(b, w, a, v) /\ j \in {0, 1} /\ (b # "LISTEN" => j = 1) /\ i = 1
<3>1. Opening(x, y, b, z) \/ Opening(b, z, x, y) \/ First(x, y, b, z)
  BY <1>2, <2>1, <2>3, ReceiveOpening
<3>2. b # "CLOSED" /\ b # "LISTEN" /\ x # "CLOSED" /\ x # "LISTEN"
  BY <1>2, <2>1, <2>3, <3>1, InSynReceived, InSynSent DEF Opening, First, At
<3>3. QED BY <2>3, <3>1, <3>2 DEF Paired, Ordered, x, y, z
<2>4. CASE (First(a, v, b, w) \/ First(b, w, a, v)) /\ i = 1 /\ j = 1
<3>1. First(x, y, b, z) \/ First(b, z, x, y)
  BY <2>1, <2>4, ReceiveFirstA, ReceiveFirstB
<3>2. QED BY <2>4, <3>1 DEF Paired, Ordered, x, y, z
<2>5. CASE Between(a, v, b, w)
  BY <2>1, <2>5, ReceiveBetweenA
<2>6. CASE Between(b, w, a, v) /\ j = 2 /\ i = 1
<3>1. Between(b, z, x, y)
  BY <2>1, <2>6, ReceiveBetweenB
<3>2. QED BY <2>6, <3>1 DEF Paired, Ordered, x, y, z
<2>7. CASE (Second(a, v, b, w) \/ Second(b, w, a, v)) /\ i = 2 /\ j = 2
<3>1. Second(x, y, b, z) \/ Second(b, z, x, y)
  BY <2>1, <2>7, ReceiveSecond
<3>2. QED BY <2>7, <3>1 DEF Paired, Ordered, x, y, z
<2>8. QED BY <1>2, <2>3, <2>4, <2>5, <2>6, <2>7 DEF Paired, Ordered
<1>3. QED BY <1>1, <1>2

LEMMA SynSent ==
    ASSUME NEW v, NEW i, NEW b, NEW w, NEW j, Paired("CLOSED", v, i, b, w, j), i + 1 <= 2
    PROVE  Paired("SYN_SENT", v, i + 1, b, Append(w, {"Syn"}), j)
<1> DEFINE z == Append(w, {"Syn"})
<1>1. w = Nothing => z = Syn
  BY AppendFacts
<1>2. w = Ack => z = AckSyn
  BY AppendFacts
<1> HIDE DEF z
<1>3. CASE Opening(b, w, "CLOSED", v) /\ i = 0 /\ j \in {0, 1} /\ (b # "LISTEN" => j = 1)
<2>1. Opening(b, z, "SYN_SENT", v)
  BY <1>1, <1>3 DEF Opening, At
<2>2. QED BY <1>3, <2>1 DEF Paired, Ordered, z
<1>4. CASE (First("CLOSED", v, b, w) \/ First(b, w, "CLOSED", v)) /\ i = 1 /\ j = 1
<2>1. Between("SYN_SENT", v, b, z)
  BY <1>1, <1>2, <1>4 DEF First, Between, At
<2>2. QED BY <1>4, <2>1 DEF Paired, Ordered, z
<1>5. CASE Between(b, w, "CLOSED", v) /\ j = 2 /\ i = 1
<2>1. Second(b, z, "SYN_SENT", v)
  BY <1>1, <1>5 DEF Between, Second, At
<2>2. QED BY <1>5, <2>1 DEF Paired, Ordered, z
<1>6. ~Opening("CLOSED", v, b, w) /\ ~Between("CLOSED", v, b, w)
  BY DEF Opening, Between, At
<1>7. QED BY <1>3, <1>4, <1>5, <1>6 DEF Paired, Ordered

LEMMA ListenerOpens ==
    ASSUME NEW v, NEW b, NEW w, NEW j, Paired("LISTEN", v, 0, b, w, j)
    PROVE  Paired("LISTEN", v, 1, b, w, j)
<1>1. ~Opening(b, w, "LISTEN", v)
  BY DEF Opening, At
<1>2. QED BY <1>1 DEF Paired, Ordered

LEMMA FinSent ==
    ASSUME NEW a, NEW v, NEW i, NEW b, NEW w, NEW j, Paired(a, v, i, b, w, j),
           NEW x, \/ a = "ESTABLISHED" /\ x = "FIN_WAIT_1"
                  \/ a = "CLOSE_WAIT" /\ x = "LAST_ACK"
    PROVE  Paired(x, v, i, b, Append(w, {"Fin"}), j)
<1> DEFINE z == Append(w, {"Fin"})
<1>1. /\ w = Nothing => z = Fin
      /\ w = Ack => z = AckFin
      /\ w = AckAck => z = AckAckFin
      /\ w = SynAck => z = SynAckFin
  BY AppendFacts
<1> HIDE DEF z
<1>2. CASE Opening(b, w, a, v) /\ i = 1 /\ j \in {0, 1} /\ (b # "LISTEN" => j = 1)
<2>1. Opening(b, z, x, v) /\ x # "CLOSED" /\ b # "LISTEN"
  BY <1>1, <1>2 DEF Opening, At
<2>2. QED BY <1>2, <2>1 DEF Paired, Ordered, z
<1>3. CASE (First(a, v, b, w) \/ First(b, w, a, v)) /\ i = 1 /\ j = 1
<2>1. First(x, v, b, z) \/ First(b, z, x, v)
  BY <1>1, <1>3 DEF First, At
<2>2. QED BY <1>3, <2>1 DEF Paired, Ordered, z
<1>4. CASE (Second(a, v, b, w) \/ Second(b, w, a, v)) /\ i = 2 /\ j = 2
<2>1. CASE a = "ESTABLISHED"
  BY <1>1, <1>4, <2>1 DEF Second, At, Paired, Ordered, z
<2>2. CASE a = "CLOSE_WAIT"
  BY <1>1, <1>4, <2>2 DEF Second, At, Paired, Ordered, z
<2>3. QED BY <2>1, <2>2
<1>5. ~Opening(a, v, b, w) /\ ~Between(a, v, b, w) /\ ~Between(b, w, a, v) /\ a # "CLOSED"
  BY DEF Opening, Between, At
<1>6. QED BY <1>2, <1>3, <1>4, <1>5 DEF Paired, Ordered

LEMMA TimeWaitEnds ==
    ASSUME NEW v, NEW i, NEW b, NEW w, NEW j, Paired("TIME_WAIT", v, i, b, w, j)
    PROVE  Paired("CLOSED", v, i, b, w, j)
<1>1. ~Opening("TIME_WAIT", v, b, w) /\ ~Opening(b, w, "TIME_WAIT", v) /\ ~Between("TIME_WAIT", v, b, w)
  BY DEF Opening, Between, At
<1>2. First("TIME_WAIT", v, b, w) \/ First(b, w, "TIME_WAIT", v) =>
          First("CLOSED", v, b, w) \/ First(b, w, "CLOSED", v)
  BY DEF First, At
<1>3. Between(b, w, "TIME_WAIT", v) => Between(b, w, "CLOSED", v)
  BY DEF Between, At
<1>4. Second("TIME_WAIT", v, b, w) \/ Second(b, w, "TIME_WAIT", v) =>
          Second("CLOSED", v, b, w) \/ Second(b, w, "CLOSED", v)
  BY DEF Second, At
<1>5. QED BY <1>1, <1>2, <1>3, <1>4 DEF Paired, Ordered

LEMMA SilentAgree ==
    ASSUME NEW a, NEW i, NEW b, NEW j, Paired(a, Nothing, i, b, Nothing, j)
    PROVE  (a = "ESTABLISHED") = (b = "ESTABLISHED")
  BY WordFacts DEF Paired, Ordered, Opening, First, Between, Second, At

\* Handshakes are about these flags.
Steers(flags) == flags \cap {"Syn", "Ack", "Fin"} # {}
Words == Seq(SUBSET Flags)

\* The packets of handshakes among these have the flags of the word: at[i] is the
\* place of the i-th of them.
Places(packets, n, word, m, at) ==
    /\ at \in [1..m -> 1..n]
    /\ \A i \in 1..m : word[i] = packets[at[i]].flags /\ Steers(word[i])
    /\ \A i, j \in 1..m : i < j => at[i] < at[j]
    /\ \A k \in 1..n : Steers(packets[k].flags) => \E i \in 1..m : at[i] = k
Carries(packets, word) == \E at : Places(packets, Len(packets), word, Len(word), at)

LEMMA NoneCarried ==
    /\ Carries(<<>>, Nothing)
    /\ \A word \in Words : Carries(<<>>, word) => word = Nothing
<1>1. Carries(<<>>, Nothing)
<2>1. 1..Len(<<>>) = {}
  OBVIOUS
<2>2. Places(<<>>, Len(<<>>), <<>>, Len(<<>>), [i \in {} |-> 0])
  BY <2>1 DEF Places
<2>3. QED BY <2>2 DEF Carries, Nothing
<1>2. ASSUME NEW word \in Words, Carries(<<>>, word) PROVE word = Nothing
<2>1. PICK at : at \in [1..Len(word) -> 1..Len(<<>>)]
  BY <1>2 DEF Carries, Places
<2>2. Len(word) = 0
<3>1. Len(word) \in Nat /\ 1..Len(<<>>) = {}
  BY DEF Words
<3>2. CASE 1 \in 1..Len(word)
<4>1. at[1] \in 1..Len(<<>>)
  BY <2>1, <3>2
<4>2. QED BY <3>1, <4>1
<3>3. QED BY <3>1, <3>2
<2>3. QED BY <2>2 DEF Words, Nothing
<1>3. QED BY <1>1, <1>2

LEMMA CarriesAppend ==
    ASSUME NEW packets \in Seq(Packet), NEW q \in Packet, NEW word \in Words, Carries(packets, word)
    PROVE  Carries(Append(packets, q), IF Steers(q.flags) THEN Append(word, q.flags) ELSE word)
<1> DEFINE n == Len(packets)
           m == Len(word)
           longer == Append(packets, q)
<1>1. PICK at :
          /\ at \in [1..m -> 1..n]
          /\ \A i \in 1..m : word[i] = packets[at[i]].flags /\ Steers(word[i])
          /\ \A i, j \in 1..m : i < j => at[i] < at[j]
          /\ \A k \in 1..n : Steers(packets[k].flags) => \E i \in 1..m : at[i] = k
  BY DEF Carries, Places
<1>2. /\ n \in Nat /\ m \in Nat /\ Len(longer) = n + 1 /\ longer[n + 1] = q
      /\ \A k \in 1..n : longer[k] = packets[k]
  BY DEF Words
<1> HIDE DEF n, m, longer
<1>3. \A i \in 1..m : at[i] \in 1..n /\ at[i] \in 1..n + 1 /\ longer[at[i]] = packets[at[i]]
  BY <1>1, <1>2
<1>4. CASE Steers(q.flags)
<2> DEFINE more == Append(word, q.flags)
           bt == [i \in 1..m + 1 |-> IF i = m + 1 THEN n + 1 ELSE at[i]]
<2>1. q.flags \in SUBSET Flags
  BY DEF Packet
<2>2. Len(more) = m + 1 /\ more[m + 1] = q.flags /\ \A i \in 1..m : more[i] = word[i]
  BY <2>1 DEF Words, m
<2>3. bt \in [1..m + 1 -> 1..n + 1] /\ bt[m + 1] = n + 1 /\ \A i \in 1..m : bt[i] = at[i]
  BY <1>2, <1>3
<2> HIDE DEF more, bt
<2>4. \A i \in 1..m + 1 : i = m + 1 \/ i \in 1..m
  BY <1>2
<2>5. \A i \in 1..m + 1 : more[i] = longer[bt[i]].flags /\ Steers(more[i])
<3>1. more[m + 1] = longer[bt[m + 1]].flags /\ Steers(more[m + 1])
  BY <1>2, <1>4, <2>2, <2>3
<3>2. \A i \in 1..m : more[i] = longer[bt[i]].flags /\ Steers(more[i])
  BY <1>1, <1>3, <2>2, <2>3
<3>3. QED BY <2>4, <3>1, <3>2
<2>6. \A i, j \in 1..m + 1 : i < j => bt[i] < bt[j]
<3>1. ASSUME NEW i \in 1..m + 1, NEW j \in 1..m + 1, i < j PROVE bt[i] < bt[j]
<4>1. i \in 1..m
  BY <1>2, <3>1
<4>2. CASE j = m + 1
<5>1. bt[j] = n + 1 /\ bt[i] = at[i] /\ at[i] \in 1..n
  BY <1>3, <2>3, <4>1, <4>2
<5>2. QED BY <1>2, <5>1
<4>3. CASE j \in 1..m
  BY <1>1, <2>3, <3>1, <4>1, <4>3
<4>4. QED BY <2>4, <4>2, <4>3
<3>2. QED BY <3>1
<2>7. ASSUME NEW k \in 1..n + 1, Steers(longer[k].flags) PROVE \E i \in 1..m + 1 : bt[i] = k
<3>1. CASE k = n + 1
<4>1. m + 1 \in 1..m + 1
  BY <1>2
<4>2. QED BY <2>3, <3>1, <4>1
<3>2. CASE k \in 1..n
<4>1. PICK i \in 1..m : at[i] = k
  BY <1>1, <1>2, <2>7, <3>2
<4>2. i \in 1..m + 1 /\ bt[i] = k
  BY <1>2, <2>3, <4>1
<4>3. QED BY <4>2
<3>3. QED BY <1>2, <3>1, <3>2
<2>8. Places(longer, n + 1, more, m + 1, bt)
  BY <2>3, <2>5, <2>6, <2>7 DEF Places
<2>9. Carries(longer, more)
  BY <1>2, <2>2, <2>8 DEF Carries
<2>10. QED BY <1>4, <2>9 DEF longer, more
<1>5. CASE ~Steers(q.flags)
<2>1. at \in [1..m -> 1..n + 1]
<3>1. \A i \in 1..m : at[i] \in 1..n + 1
  BY <1>3
<3>2. QED BY <1>1, <3>1
<2>2. \A i \in 1..m : word[i] = longer[at[i]].flags /\ Steers(word[i])
  BY <1>1, <1>3
<2>3. ASSUME NEW k \in 1..n + 1, Steers(longer[k].flags) PROVE \E i \in 1..m : at[i] = k
<3>1. k # n + 1
  BY <1>2, <1>5, <2>3
<3>2. k \in 1..n
  BY <1>2, <3>1
<3>3. QED BY <1>1, <1>2, <2>3, <3>2
<2>4. Places(longer, n + 1, word, m, at)
  BY <1>1, <2>1, <2>2, <2>3 DEF Places
<2>5. Carries(longer, word)
  BY <1>2, <2>4 DEF Carries, m
<2>6. QED BY <1>5, <2>5 DEF longer
<1>6. QED BY <1>4, <1>5

LEMMA CarriesTail ==
    ASSUME NEW packets \in Seq(Packet), packets # <<>>, NEW word \in Words, Carries(packets, word)
    PROVE  IF Steers(Head(packets).flags)
             THEN word # Nothing /\ Head(word) = Head(packets).flags /\ Carries(Tail(packets), Tail(word))
             ELSE Carries(Tail(packets), word)
<1> DEFINE n == Len(packets)
           m == Len(word)
           rest == Tail(packets)
           more == Tail(word)
<1>1. PICK at :
          /\ at \in [1..m -> 1..n]
          /\ \A i \in 1..m : word[i] = packets[at[i]].flags /\ Steers(word[i])
          /\ \A i, j \in 1..m : i < j => at[i] < at[j]
          /\ \A k \in 1..n : Steers(packets[k].flags) => \E i \in 1..m : at[i] = k
  BY DEF Carries, Places
<1>2. /\ n \in Nat /\ n > 0 /\ m \in Nat /\ Len(rest) = n - 1 /\ Head(packets) = packets[1]
      /\ \A k \in 1..n - 1 : rest[k] = packets[k + 1]
  BY DEF Words
<1>3. m > 0 => /\ word # Nothing /\ Head(word) = word[1] /\ Len(more) = m - 1
               /\ \A i \in 1..m - 1 : more[i] = word[i + 1]
  BY DEF Words, Nothing
<1> HIDE DEF n, m, rest, more
<1>4. \A i \in 1..m : at[i] \in 1..n
  BY <1>1
<1>5. CASE Steers(Head(packets).flags)
<2>1. PICK first \in 1..m : at[first] = 1
  BY <1>1, <1>2, <1>5
<2>2. first = 1 /\ m > 0
<3>1. m > 0 /\ 1 \in 1..m
  BY <1>2, <2>1
<3>2. at[1] \in 1..n /\ (1 < first => at[1] < at[first])
  BY <1>1, <1>4, <2>1, <3>1
<3>3. QED BY <1>2, <2>1, <3>1, <3>2
<2>3. Head(word) = Head(packets).flags
  BY <1>1, <1>2, <1>3, <2>1, <2>2
<2> DEFINE bt == [i \in 1..m - 1 |-> at[i + 1] - 1]
<2>4. ASSUME NEW i \in 1..m - 1
      PROVE  /\ i + 1 \in 1..m /\ at[i + 1] \in 2..n /\ bt[i] \in 1..n - 1
             /\ bt[i] = at[i + 1] - 1 /\ rest[bt[i]] = packets[at[i + 1]]
<3>1. i + 1 \in 1..m /\ 1 \in 1..m /\ 1 < i + 1
  BY <1>2
<3>2. at[1] = 1 /\ at[1] < at[i + 1] /\ at[i + 1] \in 1..n
  BY <1>1, <1>4, <2>1, <2>2, <3>1
<3>3. bt[i] = at[i + 1] - 1
  OBVIOUS
<3>4. at[i + 1] \in 2..n /\ bt[i] \in 1..n - 1 /\ bt[i] + 1 = at[i + 1]
  BY <1>2, <3>2, <3>3
<3>5. rest[bt[i]] = packets[bt[i] + 1]
  BY <1>2, <3>4
<3>6. QED BY <3>1, <3>3, <3>4, <3>5
<2>5. bt \in [1..m - 1 -> 1..n - 1]
  BY <2>4
<2> HIDE DEF bt
<2>6. ASSUME NEW i \in 1..m - 1 PROVE more[i] = rest[bt[i]].flags /\ Steers(more[i])
<3>1. more[i] = word[i + 1]
  BY <1>3, <2>2
<3>2. i + 1 \in 1..m /\ rest[bt[i]] = packets[at[i + 1]]
  BY <2>4
<3>3. QED BY <1>1, <3>1, <3>2
<2>7. \A i, j \in 1..m - 1 : i < j => bt[i] < bt[j]
<3>1. ASSUME NEW i \in 1..m - 1, NEW j \in 1..m - 1, i < j PROVE bt[i] < bt[j]
<4>1. /\ i + 1 \in 1..m /\ at[i + 1] \in 2..n /\ bt[i] = at[i + 1] - 1
      /\ j + 1 \in 1..m /\ at[j + 1] \in 2..n /\ bt[j] = at[j + 1] - 1
  BY <2>4
<4> i + 1 < j + 1
  BY <1>2, <3>1
<4>2. at[i + 1] < at[j + 1]
  BY <1>1, <4>1
<4>3. QED BY <1>2, <4>1, <4>2
<3>2. QED BY <3>1
<2>8. ASSUME NEW k \in 1..n - 1, Steers(rest[k].flags) PROVE \E i \in 1..m - 1 : bt[i] = k
<3>1. k + 1 \in 1..n /\ k \in Nat /\ k > 0 /\ Steers(packets[k + 1].flags)
  BY <1>2, <2>8
<3>2. PICK i \in 1..m : at[i] = k + 1
  BY <1>1, <3>1
<3>3. i # 1
  BY <2>1, <2>2, <3>1, <3>2
<3>4. i - 1 \in 1..m - 1 /\ (i - 1) + 1 = i
  BY <1>2, <3>3
<3>5. bt[i - 1] = k
  BY <2>4, <3>1, <3>2, <3>4
<3>6. QED BY <3>4, <3>5
<2>9. Places(rest, n - 1, more, m - 1, bt)
  BY <2>5, <2>6, <2>7, <2>8 DEF Places
<2>10. Carries(rest, more)
  BY <1>2, <1>3, <2>2, <2>9 DEF Carries
<2>11. QED BY <1>3, <1>5, <2>2, <2>3, <2>10 DEF rest, more
<1>6. CASE ~Steers(Head(packets).flags)
<2> DEFINE bt == [i \in 1..m |-> at[i] - 1]
<2>1. ASSUME NEW i \in 1..m
      PROVE  /\ at[i] \in 2..n /\ bt[i] \in 1..n - 1 /\ bt[i] = at[i] - 1
             /\ rest[bt[i]] = packets[at[i]]
<3>1. at[i] # 1
  BY <1>1, <1>2, <1>6
<3>2. at[i] \in 2..n /\ bt[i] = at[i] - 1 /\ bt[i] \in 1..n - 1 /\ bt[i] + 1 = at[i]
  BY <1>2, <1>4, <3>1
<3>3. rest[bt[i]] = packets[bt[i] + 1]
  BY <1>2, <3>2
<3>4. QED BY <3>2, <3>3
<2>2. bt \in [1..m -> 1..n - 1]
  BY <2>1
<2> HIDE DEF bt
<2>3. \A i \in 1..m : word[i] = rest[bt[i]].flags /\ Steers(word[i])
  BY <1>1, <2>1
<2>4. \A i, j \in 1..m : i < j => bt[i] < bt[j]
<3>1. ASSUME NEW i \in 1..m, NEW j \in 1..m, i < j PROVE bt[i] < bt[j]
<4>1. at[i] < at[j] /\ at[i] \in 2..n /\ at[j] \in 2..n /\ bt[i] = at[i] - 1 /\ bt[j] = at[j] - 1
  BY <1>1, <2>1, <3>1
<4>2. QED BY <1>2, <4>1
<3>2. QED BY <3>1
<2>5. ASSUME NEW k \in 1..n - 1, Steers(rest[k].flags) PROVE \E i \in 1..m : bt[i] = k
<3>1. k + 1 \in 1..n /\ k \in Nat /\ Steers(packets[k + 1].flags)
  BY <1>2, <2>5
<3>2. PICK i \in 1..m : at[i] = k + 1
  BY <1>1, <3>1
<3>3. bt[i] = k
  BY <2>1, <3>1, <3>2
<3>4. QED BY <3>3
<2>6. Places(rest, n - 1, word, m, bt)
  BY <2>2, <2>3, <2>4, <2>5 DEF Places
<2>7. Carries(rest, word)
  BY <1>2, <2>6 DEF Carries, m
<2>8. QED BY <1>6, <2>7 DEF rest
<1>7. QED BY <1>5, <1>6

LEMMA FirstSent ==
    ASSUME NEW x \in Sending, x.out = <<>>, NEW flags \in SUBSET Flags
    PROVE  /\ \E p \in Packet : SendFlags(x, flags).out = <<p>> /\ p.flags = flags
           /\ SendFlags(x, flags) \in Sending
<1> DEFINE y == Send(x, flags, "none", 0, <<>>)
           packet == [flags |-> flags, type |-> "none", index |-> 0, payload |-> <<>>,
                      packetCount |-> x.end.lastSentPacketCount]
<1>1. "none" \in Kinds /\ 0 \in Nat /\ <<>> \in Short
  BY ShortIsWhole DEF Kinds
<1>2. y \in Sending /\ packet \in Packet /\ y.out = Append(x.out, packet)
  BY <1>1, SendFacts
<1>3. packet.flags = flags
  OBVIOUS
<1>4. SendFlags(x, flags) = y
  BY DEF SendFlags
<1> HIDE DEF y, packet
<1>5. y.out = <<packet>>
  BY <1>2
<1>6. QED BY <1>2, <1>3, <1>4, <1>5

LEMMA OpenSays ==
    ASSUME NEW e \in Endpoint, NEW start \in Counts, e.state = "CLOSED"
    PROVE  \E p \in Packet : openComms(e, start).out = <<p>> /\ p.flags = {"Syn"}
<1> DEFINE fresh == [e EXCEPT !.lastSentPacketCount = start,
                              !.totalBytesRecv = 0, !.totalBytesSent = 0,
                              !.lastFlowMsgRecv = 0, !.lastFlowMsgSent = 0]
           sent == SendFlags(Quiet(fresh), {"Syn"})
<1>1. fresh \in Endpoint
  BY DEF Endpoint
<1>2. openComms(e, start) = [sent EXCEPT !.end.state = "SYN_SENT"]
  BY DEF openComms
<1> HIDE DEF fresh
<1>3. Quiet(fresh) \in Sending /\ Quiet(fresh).out = <<>> /\ {"Syn"} \in SUBSET Flags
  BY <1>1 DEF Quiet, Sending, Flags
<1>4. sent \in Sending /\ \E p \in Packet : sent.out = <<p>> /\ p.flags = {"Syn"}
  BY <1>3, FirstSent
<1> HIDE DEF sent
<1>5. openComms(e, start).out = sent.out
  BY <1>2, <1>4 DEF Sending
<1>6. QED BY <1>4, <1>5

LEMMA CloseSays ==
    ASSUME NEW e \in Endpoint, e.state \in {"ESTABLISHED", "CLOSE_WAIT"}
    PROVE  /\ \E p \in Packet : closeComms(e).out = <<p>> /\ p.flags = {"Fin"}
           /\ closeComms(e).end.state = IF e.state = "ESTABLISHED" THEN "FIN_WAIT_1" ELSE "LAST_ACK"
<1> DEFINE sent == SendFlags(Quiet(e), {"Fin"})
           next == IF e.state = "ESTABLISHED" THEN "FIN_WAIT_1" ELSE "LAST_ACK"
<1>1. closeComms(e) = [sent EXCEPT !.end.state = next]
  BY DEF closeComms
<1>2. Quiet(e) \in Sending /\ Quiet(e).out = <<>> /\ {"Fin"} \in SUBSET Flags
  BY DEF Quiet, Sending, Flags
<1>3. sent \in Sending /\ \E p \in Packet : sent.out = <<p>> /\ p.flags = {"Fin"}
  BY <1>2, FirstSent
<1> HIDE DEF sent, next
<1>4. closeComms(e).out = sent.out /\ closeComms(e).end = [sent.end EXCEPT !.state = next]
      /\ sent.end \in Endpoint
  BY <1>1, <1>3 DEF Sending
<1>5. closeComms(e).end.state = next
  BY <1>4 DEF Endpoint
<1>6. QED BY <1>3, <1>4, <1>5 DEF next

\* One more packet on its way
LEMMA CarriesOne ==
    ASSUME NEW packets \in Seq(Packet), NEW p \in Packet, NEW word \in Words, Carries(packets, word)
    PROVE  /\ Steers(p.flags) => Carries(packets \o <<p>>, Append(word, p.flags))
           /\ ~Steers(p.flags) => Carries(packets \o <<p>>, word)
           /\ Append(word, p.flags) \in Words
<1>1. packets \o <<p>> = Append(packets, p)
  OBVIOUS
<1>2. p.flags \in SUBSET Flags
  BY DEF Packet
<1>3. Append(word, p.flags) \in Words
  BY <1>2 DEF Words
<1>4. QED BY <1>1, <1>3, CarriesAppend

LEMMA SteersFacts ==
    /\ Steers({"Ack"}) /\ Steers({"Syn"}) /\ Steers({"Fin"}) /\ Steers({"Syn", "Ack"})
    /\ ~Steers({"Flo"}) /\ ~Steers({"Psh"})
  BY DEF Steers

\* Without these flags a packet is for no state.
LEMMA OthersDoNotSteer ==
    ASSUME NEW state, NEW flags \in SUBSET Flags
    PROVE  /\ ~Steers(flags) => Transition(state, flags) = <<{}, state>>
           /\ Transition(state, flags)[1] \in {{}, {"Ack"}, {"Syn", "Ack"}}
  BY DEF Transition, Steers

LEMMA ConcatThree ==
    ASSUME NEW p \in Seq(Packet), NEW q \in Seq(Packet), NEW r \in Seq(Packet)
    PROVE  p \o (q \o r) = (p \o q) \o r /\ p \o q \in Seq(Packet)
  OBVIOUS

\* recv() takes the first of the packets to heart, and answers it.
LEMMA ReceiveCarries ==
    ASSUME NEW e \in Endpoint, NEW packets \in Seq(Packet), NEW room \in Nat,
           packets # <<>> \/ e.part.rest # <<>>,
           NEW v \in Words, Carries(packets, v),
           NEW others \in Seq(Packet), NEW w \in Words, Carries(others, w)
    PROVE  LET x == recv(e, packets, room)
           IN  \/ /\ x.end.state = e.state
                  /\ Carries(x.packets, v) /\ Carries(others \o x.out, w)
               \/ /\ v # Nothing /\ x.end.state = Goes(e.state, v)
                  /\ Tail(v) \in Words /\ Carries(x.packets, Tail(v))
                  /\ Told(e.state, v, w) \in Words /\ Carries(others \o x.out, Told(e.state, v, w))
<1> DEFINE x == recv(e, packets, room)
           isNew == e.part.rest = <<>>
           flags == Head(packets).flags
           said == Transition(e.state, flags)[1]
<1>1. /\ x.packets = IF isNew THEN Tail(packets) ELSE packets
      /\ x.end.state = IF isNew THEN Transition(e.state, flags)[2] ELSE e.state
  BY ReceiveFacts
<1>2. PICK between \in Nat, answer \in Seq(Packet), report \in Seq(Packet) :
          /\ x.out = answer \o report
          /\ IF isNew THEN One(e.totalBytesSent, answer, said, between)
                      ELSE answer = <<>> /\ between = e.totalBytesSent
          /\ Reported(between, e.lastFlowMsgSent, x.end, report)
  BY ReceiveCounters
<1> HIDE DEF x
<1>3. report = <<>> \/ \E p \in Packet : report = <<p>> /\ p.flags = {"Flo"}
  BY <1>2 DEF Reported
<1>4. ASSUME NEW word \in Words, Carries(others \o answer, word)
      PROVE  Carries(others \o x.out, word)
<2>1. others \o x.out = (others \o answer) \o report /\ others \o answer \in Seq(Packet)
<3>1. others \o (answer \o report) = (others \o answer) \o report /\ others \o answer \in Seq(Packet)
  BY ConcatThree
<3>2. x.out = answer \o report
  BY <1>2
<3>3. QED BY ONLY <3>1, <3>2
<2>2. CASE report = <<>>
<3>1. (others \o answer) \o <<>> = others \o answer
  BY <2>1
<3>2. QED BY <1>4, <2>1, <2>2, <3>1
<2>3. ASSUME NEW p \in Packet, report = <<p>>, p.flags = {"Flo"} PROVE Carries(others \o x.out, word)
  BY <1>4, <2>1, <2>3, CarriesOne, SteersFacts
<2>4. QED BY <1>3, <2>2, <2>3
<1>5. others \o <<>> = others
  OBVIOUS
<1>6. CASE ~isNew
<2>1. Carries(others \o x.out, w)
  BY <1>2, <1>4, <1>5, <1>6
<2>2. QED BY <1>1, <1>6, <2>1 DEF x
<1>7. CASE isNew
<2>1. packets # <<>> /\ Head(packets) \in Packet
  BY <1>7
<2>2. flags \in SUBSET Flags
  BY <2>1 DEF Packet
<2> HIDE DEF flags
<2>3. CASE ~Steers(flags)
<3>1. Transition(e.state, flags) = <<{}, e.state>>
  BY <2>2, <2>3, OthersDoNotSteer
<3>2. said = {} /\ x.end.state = e.state
<4>1. Transition(e.state, flags)[2] = e.state /\ Transition(e.state, flags)[1] = {}
  BY ONLY <3>1
<4>2. QED BY <1>1, <1>7, <4>1 DEF flags
<3>3. answer = <<>>
  BY <1>2, <1>7, <3>2 DEF One
<3>4. Carries(others \o x.out, w)
  BY <1>4, <1>5, <3>3
<3>5. Carries(x.packets, v)
  BY <1>1, <1>7, <2>1, <2>3, CarriesTail DEF flags
<3>6. QED BY <3>2, <3>4, <3>5 DEF x
<2>4. CASE Steers(flags)
<3>1. v # Nothing /\ Head(v) = flags /\ Carries(x.packets, Tail(v))
  BY <1>1, <1>7, <2>1, <2>4, CarriesTail DEF flags
<3>2. Tail(v) \in Words
  BY <3>1 DEF Words, Nothing
<3>3. x.end.state = Goes(e.state, v) /\ Says(e.state, v) = said
  BY <1>1, <1>7, <3>1 DEF Goes, Says
<3>4. said \in {{}, {"Ack"}, {"Syn", "Ack"}}
  BY <2>2, OthersDoNotSteer
<3> HIDE DEF said
<3>5. Told(e.state, v, w) \in Words /\ Carries(others \o answer, Told(e.state, v, w))
<4>1. CASE answer = <<>> /\ said = {}
<5>1. Told(e.state, v, w) = w
  BY <3>3, <4>1 DEF Told
<5>2. QED BY <1>5, <4>1, <5>1
<4>2. ASSUME NEW p \in Packet, answer = <<p>>, p.flags = said, said # {}
      PROVE  Told(e.state, v, w) \in Words /\ Carries(others \o answer, Told(e.state, v, w))
<5>1. Told(e.state, v, w) = Append(w, said)
  BY <3>3, <4>2 DEF Told
<5>2. Steers(said)
  BY <3>4, <4>2, SteersFacts
<5>3. QED BY <4>2, <5>1, <5>2, CarriesOne
<4>3. QED BY <1>2, <1>7, <4>1, <4>2 DEF One
<3>6. QED BY <1>4, <3>1, <3>2, <3>3, <3>5 DEF x
<2>5. QED BY <2>3, <2>4
<1>8. QED BY <1>6, <1>7

\* Ends in states a and b, activated i and j times, with packets p and q on the way
\* to the one and the other
Meets(a, p, i, b, q, j) ==
    \E v, w \in Words : Carries(p, v) /\ Carries(q, w) /\ Paired(a, v, i, b, w, j)

\* The first two sessions, as long as no handshake has failed
Early == failures = 0 /\ \A e \in Ends : opens[e] <= 2

Agreeing == Early => \A e \in Ends :
    Meets(end[e].state, net[e], opens[e], end[Peer(e)].state, net[Peer(e)], opens[Peer(e)])

\* Who listens has not been activated before, who works has.
Activated == \A e \in Ends :
    /\ phase[e] = "off" /\ end[e].state = "LISTEN" => opens[e] = 0
    /\ phase[e] # "off" => opens[e] >= 1

LEMMA MeetsFlips ==
    ASSUME NEW a, NEW p, NEW i, NEW b, NEW q, NEW j, Meets(a, p, i, b, q, j)
    PROVE  Meets(b, q, j, a, p, i)
<1>1. PICK v \in Words, w \in Words : Carries(p, v) /\ Carries(q, w) /\ Paired(a, v, i, b, w, j)
  BY DEF Meets
<1>2. Paired(b, w, j, a, v, i)
  BY <1>1 DEF Paired
<1>3. QED BY <1>1, <1>2 DEF Meets

\* End e and its peer become what the pairs of ends may be.
LEMMA AgreeingThen ==
    ASSUME NEW e \in Ends,
           Early' => Meets(end'[e].state, net'[e], opens'[e],
                           end'[Peer(e)].state, net'[Peer(e)], opens'[Peer(e)])
    PROVE  Agreeing'
<1> SUFFICES ASSUME Early', NEW f \in Ends
             PROVE  Meets(end'[f].state, net'[f], opens'[f],
                          end'[Peer(f)].state, net'[Peer(f)], opens'[Peer(f)])
  BY DEF Agreeing
<1>1. Meets(end'[e].state, net'[e], opens'[e], end'[Peer(e)].state, net'[Peer(e)], opens'[Peer(e)])
  OBVIOUS
<1>2. CASE f = e
  BY <1>1, <1>2
<1>3. CASE f = Peer(e)
<2>1. Peer(f) = e
  BY <1>3, PeersPeer
<2>2. Meets(end'[Peer(e)].state, net'[Peer(e)], opens'[Peer(e)], end'[e].state, net'[e], opens'[e])
  BY <1>1, MeetsFlips
<2>3. QED BY <1>3, <2>1, <2>2
<1>4. QED BY <1>2, <1>3, PeersPeer

LEMMA ActivatedThen ==
    ASSUME Activated, NEW e \in Ends,
           end'[Peer(e)] = end[Peer(e)], phase'[Peer(e)] = phase[Peer(e)],
           opens'[Peer(e)] = opens[Peer(e)],
           phase'[e] = "off" /\ end'[e].state = "LISTEN" => opens'[e] = 0,
           phase'[e] # "off" => opens'[e] >= 1
    PROVE  Activated'
<1> SUFFICES ASSUME NEW f \in Ends
             PROVE  /\ phase'[f] = "off" /\ end'[f].state = "LISTEN" => opens'[f] = 0
                    /\ phase'[f] # "off" => opens'[f] >= 1
  BY DEF Activated
<1>1. CASE f = e
  BY <1>1
<1>2. CASE f = Peer(e)
<2>1. /\ phase[f] = "off" /\ end[f].state = "LISTEN" => opens[f] = 0
      /\ phase[f] # "off" => opens[f] >= 1
  BY DEF Activated
<2>2. end'[f] = end[f] /\ phase'[f] = phase[f] /\ opens'[f] = opens[f]
  BY <1>2
<2>3. QED BY <2>1, <2>2
<1>3. QED BY <1>1, <1>2, PeersPeer

\* End e sends a packet of a handshake.
LEMMA SpeakingMeets ==
    ASSUME NEW a, NEW p, NEW i, NEW b, NEW q \in Seq(Packet), NEW j, Meets(a, p, i, b, q, j),
           NEW out \in Packet, NEW a2, NEW i2,
           Steers(out.flags),
           \A v, w \in Words : Paired(a, v, i, b, w, j) => Paired(a2, v, i2, b, Append(w, out.flags), j)
    PROVE  Meets(a2, p, i2, b, q \o <<out>>, j)
<1>1. PICK v \in Words, w \in Words : Carries(p, v) /\ Carries(q, w) /\ Paired(a, v, i, b, w, j)
  BY DEF Meets
<1>2. Carries(q \o <<out>>, Append(w, out.flags)) /\ Append(w, out.flags) \in Words
  BY <1>1, CarriesOne
<1>3. Paired(a2, v, i2, b, Append(w, out.flags), j)
  BY <1>1
<1>4. QED BY <1>1, <1>2, <1>3 DEF Meets

LEMMA MovingMeets ==
    ASSUME NEW a, NEW p, NEW i, NEW b, NEW q, NEW j, Meets(a, p, i, b, q, j), NEW a2, NEW i2,
           \A v, w \in Words : Paired(a, v, i, b, w, j) => Paired(a2, v, i2, b, w, j)
    PROVE  Meets(a2, p, i2, b, q, j)
<1>1. PICK v \in Words, w \in Words : Carries(p, v) /\ Carries(q, w) /\ Paired(a, v, i, b, w, j)
  BY DEF Meets
<1>2. QED BY <1>1 DEF Meets

LEMMA ReceivingMeets ==
    ASSUME NEW e \in Endpoint, NEW packets \in Seq(Packet), NEW room \in Nat,
           packets # <<>> \/ e.part.rest # <<>>, NEW i, NEW b, NEW others \in Seq(Packet), NEW j,
           Meets(e.state, packets, i, b, others, j),
           e.state # "CLOSED", e.state = "LISTEN" => i = 1
    PROVE  LET x == recv(e, packets, room)
           IN  Meets(x.end.state, x.packets, i, b, others \o x.out, j)
<1> DEFINE x == recv(e, packets, room)
<1>1. PICK v \in Words, w \in Words :
          Carries(packets, v) /\ Carries(others, w) /\ Paired(e.state, v, i, b, w, j)
  BY DEF Meets
<1>2. \/ /\ x.end.state = e.state
         /\ Carries(x.packets, v) /\ Carries(others \o x.out, w)
      \/ /\ v # Nothing /\ x.end.state = Goes(e.state, v)
         /\ Tail(v) \in Words /\ Carries(x.packets, Tail(v))
         /\ Told(e.state, v, w) \in Words /\ Carries(others \o x.out, Told(e.state, v, w))
  BY <1>1, ReceiveCarries
<1> HIDE DEF x
<1>3. CASE v # Nothing /\ x.end.state = Goes(e.state, v)
           /\ Tail(v) \in Words /\ Carries(x.packets, Tail(v))
           /\ Told(e.state, v, w) \in Words /\ Carries(others \o x.out, Told(e.state, v, w))
<2>1. Paired(Goes(e.state, v), Tail(v), i, b, Told(e.state, v, w), j)
  BY <1>1, <1>3, ReceivePaired
<2>2. QED BY <1>3, <2>1 DEF Meets, x
<1>4. CASE x.end.state = e.state /\ Carries(x.packets, v) /\ Carries(others \o x.out, w)
  BY <1>1, <1>4 DEF Meets, x
<1>5. QED BY <1>2, <1>3, <1>4

\* Facts of every lemma about a step of end e
LEMMA BothTypes ==
    ASSUME Types, NEW e \in Ends
    PROVE  /\ Peer(e) \in Ends /\ Peer(e) # e /\ \A f \in Ends : f = e \/ f = Peer(e)
           /\ end \in [Ends -> Endpoint] /\ net \in [Ends -> Seq(Packet)] /\ opens \in [Ends -> Nat]
           /\ phase \in [Ends -> Phases] /\ failures \in Nat
           /\ end[e] \in Endpoint /\ end[Peer(e)] \in Endpoint
           /\ net[e] \in Seq(Packet) /\ net[Peer(e)] \in Seq(Packet) /\ opens[e] \in Nat
  BY PeersPeer DEF Types

LEMMA ActivateKeepsAgreeing ==
    ASSUME Counted, Activated, Agreeing, NEW e \in Ends, Activate(e) PROVE Agreeing' /\ Activated'
<1> DEFINE d == Peer(e)
<1>1. PICK start \in Starts : Becomes(e, openComms(end[e], start))
  BY DEF Activate
<1> DEFINE x == openComms(end[e], start)
<1>2. /\ Types /\ start \in Counts /\ end[e].state \in {"LISTEN", "CLOSED"} /\ phase[e] = "off"
      /\ phase' = [phase EXCEPT ![e] = "opening"] /\ opens' = [opens EXCEPT ![e] = @ + 1]
      /\ failures' = failures
  BY SocketAssumption DEF Activate, Counted, Sessions, Possible, Counts
<1>3. /\ d \in Ends /\ d # e /\ \A f \in Ends : f = e \/ f = d
      /\ end \in [Ends -> Endpoint] /\ net \in [Ends -> Seq(Packet)] /\ opens \in [Ends -> Nat]
      /\ phase \in [Ends -> Phases]
      /\ end[e] \in Endpoint /\ net[d] \in Seq(Packet) /\ opens[e] \in Nat
  BY <1>2, BothTypes
<1>4. /\ end[e].state # "CLOSED" => x.out = <<>> /\ x.end.state = end[e].state
      /\ end[e].state = "CLOSED" => x.end.state = "SYN_SENT"
  BY <1>2, <1>3, OpenFacts
<1>5. end[e].state = "CLOSED" => \E p \in Packet : x.out = <<p>> /\ p.flags = {"Syn"}
  BY <1>2, <1>3, OpenSays
<1>6. end' = [end EXCEPT ![e] = x.end] /\ net' = [net EXCEPT ![d] = @ \o x.out]
  BY <1>1 DEF Becomes
<1> HIDE DEF d, x
<1>7. /\ end'[e] = x.end /\ end'[d] = end[d] /\ net'[e] = net[e] /\ net'[d] = net[d] \o x.out
      /\ opens'[e] = opens[e] + 1 /\ opens'[d] = opens[d]
      /\ phase'[e] = "opening" /\ phase'[d] = phase[d]
  BY <1>2, <1>3, <1>6
<1>8. Early' => Early
<2> SUFFICES ASSUME Early', NEW f \in Ends PROVE failures = 0 /\ opens[f] <= 2
  BY DEF Early
<2>1. failures = 0 /\ opens'[f] <= 2
  BY <1>2 DEF Early
<2>2. CASE f = e
<3>1. opens[e] + 1 <= 2
  BY <1>7, <2>1, <2>2
<3>2. QED BY <1>3, <2>1, <2>2, <3>1
<2>3. CASE f = d
  BY <1>7, <2>1, <2>3
<2>4. QED BY <1>3, <2>2, <2>3
<1>9. ASSUME Early'
      PROVE  Meets(end'[e].state, net'[e], opens'[e], end'[d].state, net'[d], opens'[d])
<2>1. Meets(end[e].state, net[e], opens[e], end[d].state, net[d], opens[d]) /\ opens[e] + 1 <= 2
  BY <1>7, <1>8, <1>9 DEF Agreeing, Early, d
<2>2. CASE end[e].state = "CLOSED"
<3>1. PICK p \in Packet : x.out = <<p>> /\ p.flags = {"Syn"}
  BY <1>5, <2>2
<3>2. \A v, w \in Words : Paired(end[e].state, v, opens[e], end[d].state, w, opens[d]) =>
          Paired("SYN_SENT", v, opens[e] + 1, end[d].state, Append(w, p.flags), opens[d])
  BY <2>1, <2>2, <3>1, SynSent
<3>3. Steers(p.flags)
  BY <3>1, SteersFacts
<3>4. Meets("SYN_SENT", net[e], opens[e] + 1, end[d].state, net[d] \o <<p>>, opens[d])
  BY <1>3, <2>1, <3>2, <3>3, SpeakingMeets
<3>5. QED BY <1>4, <1>7, <2>2, <3>1, <3>4
<2>3. CASE end[e].state = "LISTEN"
<3>1. opens[e] = 0
  BY <1>2, <2>3 DEF Activated
<3>2. \A v, w \in Words : Paired("LISTEN", v, 0, end[d].state, w, opens[d]) =>
          Paired("LISTEN", v, 1, end[d].state, w, opens[d])
  BY ListenerOpens
<3>3. Meets("LISTEN", net[e], 0, end[d].state, net[d], opens[d])
  BY <2>1, <2>3, <3>1
<3>4. Meets("LISTEN", net[e], 1, end[d].state, net[d], opens[d])
  BY <3>2, <3>3, MovingMeets
<3>5. net[d] \o <<>> = net[d] /\ opens[e] + 1 = 1
  BY <1>3, <3>1
<3>6. QED BY <1>4, <1>7, <2>3, <3>4, <3>5
<2>4. QED BY <1>2, <2>2, <2>3
<1>10. Activated'
<2>1. opens'[e] >= 1
  BY <1>3, <1>7
<2>2. QED BY <1>7, <2>1, ActivatedThen DEF d
<1>11. QED BY <1>9, <1>10, AgreeingThen DEF d

LEMMA DeactivateKeepsAgreeing ==
    ASSUME Counted, Activated, Agreeing, NEW e \in Ends, Deactivate(e) PROVE Agreeing' /\ Activated'
<1> DEFINE d == Peer(e)
           x == closeComms(end[e])
<1>1. /\ Types /\ end[e].state \in {"ESTABLISHED", "CLOSE_WAIT"} /\ phase[e] = "on"
      /\ phase' = [phase EXCEPT ![e] = "closing"] /\ opens' = opens /\ failures' = failures
  BY DEF Deactivate, Counted, Sessions, Possible, history
<1>2. /\ d \in Ends /\ d # e /\ \A f \in Ends : f = e \/ f = d
      /\ end \in [Ends -> Endpoint] /\ net \in [Ends -> Seq(Packet)]
      /\ phase \in [Ends -> Phases]
      /\ end[e] \in Endpoint /\ net[d] \in Seq(Packet)
  BY <1>1, BothTypes
<1>3. PICK p \in Packet : x.out = <<p>> /\ p.flags = {"Fin"}
  BY <1>1, <1>2, CloseSays
<1>4. x.end.state = IF end[e].state = "ESTABLISHED" THEN "FIN_WAIT_1" ELSE "LAST_ACK"
  BY <1>1, <1>2, CloseSays
<1>5. end' = [end EXCEPT ![e] = x.end] /\ net' = [net EXCEPT ![d] = @ \o x.out]
  BY DEF Deactivate, Becomes
<1> HIDE DEF d, x
<1>6. /\ end'[e] = x.end /\ end'[d] = end[d] /\ net'[e] = net[e] /\ net'[d] = net[d] \o <<p>>
      /\ phase'[e] = "closing" /\ phase'[d] = phase[d]
  BY <1>1, <1>2, <1>3, <1>5
<1>7. ASSUME Early'
      PROVE  Meets(end'[e].state, net'[e], opens'[e], end'[d].state, net'[d], opens'[d])
<2>1. Meets(end[e].state, net[e], opens[e], end[d].state, net[d], opens[d])
  BY <1>1, <1>7 DEF Agreeing, Early, d
<2>2. \A v, w \in Words : Paired(end[e].state, v, opens[e], end[d].state, w, opens[d]) =>
          Paired(x.end.state, v, opens[e], end[d].state, Append(w, p.flags), opens[d])
  BY <1>1, <1>3, <1>4, FinSent
<2>3. Steers(p.flags)
  BY <1>3, SteersFacts
<2>4. Meets(x.end.state, net[e], opens[e], end[d].state, net[d] \o <<p>>, opens[d])
  BY <1>2, <2>1, <2>2, <2>3, SpeakingMeets
<2>5. QED BY <1>1, <1>6, <2>4
<1>8. Activated'
<2>1. x.end.state # "LISTEN"
  BY <1>4
<2>2. QED BY <1>1, <1>2, <1>6, <2>1 DEF Activated
<1>9. QED BY <1>7, <1>8, AgreeingThen DEF d

LEMMA TimesOutKeepsAgreeing ==
    ASSUME Counted, Activated, Agreeing, NEW e \in Ends, OpenTimesOut(e) \/ CloseTimesOut(e)
    PROVE  Agreeing' /\ Activated'
<1> DEFINE d == Peer(e)
           new == [end[e] EXCEPT !.state = "CLOSED"]
<1>1. /\ Types /\ end' = [end EXCEPT ![e] = new] /\ net' = net /\ opens' = opens
      /\ phase' = [phase EXCEPT ![e] = "off"]
      /\ failures' = failures + 1 \/ (end[e].state = "TIME_WAIT" /\ failures' = failures)
  BY DEF OpenTimesOut, CloseTimesOut, Counted
<1>2. /\ d \in Ends /\ d # e /\ \A f \in Ends : f = e \/ f = d
      /\ end \in [Ends -> Endpoint] /\ phase \in [Ends -> Phases] /\ failures \in Nat
      /\ end[e] \in Endpoint
  BY <1>1, BothTypes
<1>3. new.state = "CLOSED"
  BY <1>2 DEF Endpoint
<1> HIDE DEF d, new
<1>4. /\ end'[e] = new /\ end'[d] = end[d]
      /\ phase'[e] = "off" /\ phase'[d] = phase[d]
  BY <1>1, <1>2
<1>5. ASSUME Early'
      PROVE  Meets(end'[e].state, net'[e], opens'[e], end'[d].state, net'[d], opens'[d])
<2>1. end[e].state = "TIME_WAIT" /\ failures' = failures
  BY <1>1, <1>2, <1>5 DEF Early
<2>2. Meets("TIME_WAIT", net[e], opens[e], end[d].state, net[d], opens[d])
  BY <1>1, <1>5, <2>1 DEF Agreeing, Early, d
<2>3. \A v, w \in Words : Paired("TIME_WAIT", v, opens[e], end[d].state, w, opens[d]) =>
          Paired("CLOSED", v, opens[e], end[d].state, w, opens[d])
  BY TimeWaitEnds
<2>4. Meets("CLOSED", net[e], opens[e], end[d].state, net[d], opens[d])
  BY <2>2, <2>3, MovingMeets
<2>5. QED BY <1>1, <1>3, <1>4, <2>4
<1>6. Activated'
  BY <1>1, <1>2, <1>3, <1>4 DEF Activated
<1>7. QED BY <1>5, <1>6, AgreeingThen DEF d

\* A handshake is over, or a buffer is taken: no end changes.
LEMMA RestKeepsAgreeing ==
    ASSUME Counted, Activated, Agreeing,
           UNCHANGED vars \/ SinkWork \/ (\E e \in Ends : OpenEnds(e) \/ CloseEnds(e))
    PROVE  Agreeing' /\ Activated'
<1>1. UNCHANGED <<end, net, opens, failures>>
  BY DEF vars, history, SinkWork, OpenEnds, CloseEnds
<1>2. Agreeing'
  BY <1>1 DEF Agreeing, Early
<1>3. CASE phase' = phase
  BY <1>1, <1>2, <1>3 DEF Activated
<1>4. CASE phase' # phase
<2>1. PICK e \in Ends : OpenEnds(e) \/ CloseEnds(e)
  BY <1>4 DEF vars, SinkWork
<2>2. /\ phase[e] # "off" /\ (phase'[e] = "off" => end[e].state = "CLOSED")
      /\ phase'[Peer(e)] = phase[Peer(e)]
  BY <2>1, PeersPeer DEF Counted, Types, OpenEnds, CloseEnds
<2>3. opens[e] >= 1
  BY <2>2 DEF Activated
<2>4. /\ end'[e] = end[e] /\ opens'[e] = opens[e]
      /\ end'[Peer(e)] = end[Peer(e)] /\ opens'[Peer(e)] = opens[Peer(e)]
  BY <1>1
<2>5. QED BY <1>2, <2>2, <2>3, <2>4, ActivatedThen
<1>5. QED BY <1>2, <1>3, <1>4

LEMMA SinkSendKeepsAgreeing ==
    ASSUME Counted, Activated, Agreeing, SinkSend PROVE Agreeing' /\ Activated'
<1> DEFINE p == Head(todo)
           quiet == Quiet(end["sink"])
           x == Send(quiet, {"Psh"}, p.type, p.index, p.payload)
           packet == [flags |-> {"Psh"}, type |-> p.type, index |-> p.index, payload |-> p.payload,
                      packetCount |-> quiet.end.lastSentPacketCount]
<1>1. todo # <<>> /\ Becomes("sink", x) /\ UNCHANGED <<phase, opens, failures>>
  BY DEF SinkSend, history
<1>2. /\ Types /\ "sink" \in Ends /\ Peer("sink") = "source" /\ todo \in Seq(Item)
  BY BothEnds DEF Counted, Types
<1>3. p.type \in Kinds /\ p.index \in Nat /\ p.payload \in Short
<2>1. p \in Item
  BY <1>1, <1>2
<2>2. QED BY <2>1 DEF Item
<1>4. /\ "source" \in Ends /\ \A f \in Ends : f = "sink" \/ f = "source"
      /\ end \in [Ends -> Endpoint] /\ net \in [Ends -> Seq(Packet)]
      /\ end["sink"] \in Endpoint /\ net["source"] \in Seq(Packet)
  BY <1>2, BothTypes
<1>5. quiet \in Sending /\ quiet.end = end["sink"] /\ quiet.out = <<>>
  BY <1>4 DEF Quiet, Sending
<1>6. {"Psh"} \in SUBSET Flags
  BY DEF Flags
<1> HIDE DEF p, quiet
<1>7. /\ packet \in Packet /\ x.out = Append(quiet.out, packet) /\ x.end.state = quiet.end.state
  BY <1>3, <1>5, <1>6, SendFacts
<1>8. packet.flags = {"Psh"}
  OBVIOUS
<1>9. end' = [end EXCEPT !["sink"] = x.end] /\ net' = [net EXCEPT !["source"] = @ \o x.out]
  BY <1>1, <1>2 DEF Becomes
<1> HIDE DEF x, packet
<1>10. x.out = <<packet>> /\ x.end.state = end["sink"].state
  BY <1>5, <1>7
<1>11. /\ end'["sink"].state = end["sink"].state /\ end'["source"] = end["source"]
       /\ net'["sink"] = net["sink"] /\ net'["source"] = net["source"] \o <<packet>>
  BY <1>2, <1>4, <1>9, <1>10
<1>12. ASSUME Early'
       PROVE  Meets(end'["sink"].state, net'["sink"], opens'["sink"],
                    end'["source"].state, net'["source"], opens'["source"])
<2>1. Meets(end["sink"].state, net["sink"], opens["sink"],
            end["source"].state, net["source"], opens["source"])
  BY <1>1, <1>2, <1>12 DEF Agreeing, Early
<2>2. PICK v \in Words, w \in Words :
          /\ Carries(net["sink"], v) /\ Carries(net["source"], w)
          /\ Paired(end["sink"].state, v, opens["sink"], end["source"].state, w, opens["source"])
  BY <2>1 DEF Meets
<2>3. Carries(net["source"] \o <<packet>>, w)
  BY <1>4, <1>7, <1>8, <2>2, CarriesOne, SteersFacts
<2>4. QED BY <1>1, <1>11, <2>2, <2>3 DEF Meets
<1>13. Activated'
  BY <1>1, <1>4, <1>11 DEF Activated
<1>14. QED BY <1>2, <1>12, <1>13, AgreeingThen

\* End e, which is at work, receives something.
LEMMA ReceivingKeepsAgreeing ==
    ASSUME Counted, Activated, Agreeing, NEW e \in Ends, NEW room \in Nat, isRecvReady(e),
           end[e].state # "CLOSED", phase[e] # "off",
           Receives(e, recv(end[e], net[e], room)), UNCHANGED <<phase, opens, failures>>
    PROVE  Agreeing' /\ Activated'
<1> DEFINE d == Peer(e)
           x == recv(end[e], net[e], room)
<1>1. /\ d \in Ends /\ d # e /\ \A f \in Ends : f = e \/ f = d
      /\ end \in [Ends -> Endpoint] /\ net \in [Ends -> Seq(Packet)] /\ opens \in [Ends -> Nat]
      /\ end[e] \in Endpoint /\ net[e] \in Seq(Packet) /\ net[d] \in Seq(Packet)
      /\ net[e] # <<>> \/ end[e].part.rest # <<>>
  BY BothTypes DEF Counted, isRecvReady
<1>2. end' = [end EXCEPT ![e] = x.end] /\ net' = [net EXCEPT ![d] = @ \o x.out, ![e] = x.packets]
  BY DEF Receives
<1>3. /\ end'[e] = x.end /\ end'[d] = end[d] /\ net'[e] = x.packets /\ net'[d] = net[d] \o x.out
<2> HIDE DEF d, x
<2>1. QED BY <1>1, <1>2
<1>4. ASSUME Early'
      PROVE  Meets(end'[e].state, net'[e], opens'[e], end'[d].state, net'[d], opens'[d])
<2>1. Meets(end[e].state, net[e], opens[e], end[d].state, net[d], opens[d])
  BY <1>4 DEF Agreeing, Early
<2>2. end[e].state = "LISTEN" => opens[e] = 1
<3>1. ASSUME end[e].state = "LISTEN" PROVE opens[e] = 1
<4>1. PICK v \in Words, w \in Words : Paired("LISTEN", v, opens[e], end[d].state, w, opens[d])
  BY <2>1, <3>1 DEF Meets
<4>2. opens[e] \in {0, 1}
  BY <4>1 DEF Paired, Ordered, Opening, First, Between, Second, At
<4>3. QED BY <4>2 DEF Activated
<3>2. QED BY <3>1
<2>3. Meets(x.end.state, x.packets, opens[e], end[d].state, net[d] \o x.out, opens[d])
  BY <1>1, <2>1, <2>2, ReceivingMeets
<2>4. QED BY <1>3, <2>3
<1>5. Activated'
<2>1. opens[e] >= 1
  BY DEF Activated
<2> HIDE DEF d, x
<2>2. /\ phase'[e] # "off" /\ opens'[e] >= 1
      /\ phase'[d] = phase[d] /\ opens'[d] = opens[d]
  BY <2>1
<2>3. QED BY <1>3, <2>2, ActivatedThen DEF d
<1>6. QED BY <1>4, <1>5, AgreeingThen

LEMMA StepKeepsAgreeing == Counted /\ Activated /\ Agreeing /\ [Next]_vars => Agreeing' /\ Activated'
<1> SUFFICES ASSUME Counted, Activated, Agreeing, [Next]_vars PROVE Agreeing' /\ Activated'
  OBVIOUS
<1>1. Types /\ "sink" \in Ends /\ "source" \in Ends
  BY DEF Counted, Ends
<1>2. ASSUME NEW e \in Ends, HandshakeRecv(e) PROVE Agreeing' /\ Activated'
<2>1. /\ length[e] \in Nat /\ isRecvReady(e) /\ Receives(e, recv(end[e], net[e], length[e]))
      /\ phase[e] # "off" /\ UNCHANGED <<phase, opens, failures>>
  BY <1>1, <1>2 DEF Receivable, HandshakeRecv, Types
<2>2. end[e].state # "CLOSED"
  BY <1>2 DEF HandshakeRecv, Counted, Sessions, Possible
<2>3. QED BY <2>1, <2>2, ReceivingKeepsAgreeing
<1>3. ASSUME SinkHandleState PROVE Agreeing' /\ Activated'
<2>1. /\ isRecvReady("sink") /\ Receives("sink", recv(end["sink"], net["sink"], 0)) /\ 0 \in Nat
      /\ phase["sink"] = "on" /\ UNCHANGED <<phase, opens, failures>>
  BY <1>3 DEF Receivable, SinkHandleState, history
<2>2. end["sink"].state # "CLOSED"
  BY <1>1, <2>1 DEF Counted, Sessions, Possible
<2>3. QED BY <1>1, <2>1, <2>2, ReceivingKeepsAgreeing
<1>4. ASSUME SourceWork PROVE Agreeing' /\ Activated'
<2>1. PICK room \in 1..MaxBuffer : Receives("source", recv(end["source"], net["source"], room))
  BY <1>4 DEF SourceWork
<2>2. /\ isRecvReady("source") /\ room \in Nat
      /\ phase["source"] = "on" /\ UNCHANGED <<phase, opens, failures>>
  BY <1>4 DEF Receivable, SourceWork
<2>3. end["source"].state # "CLOSED"
  BY <1>1, <2>2 DEF Counted, Sessions, Possible
<2>4. QED BY <1>1, <2>1, <2>2, <2>3, ReceivingKeepsAgreeing
<1>5. ASSUME NEW e \in Ends, OpenTimesOut(e) \/ CloseTimesOut(e) PROVE Agreeing' /\ Activated'
  BY <1>5, TimesOutKeepsAgreeing
<1>6. ASSUME NEW e \in Ends, Activate(e) PROVE Agreeing' /\ Activated'
  BY <1>6, ActivateKeepsAgreeing
<1>7. ASSUME NEW e \in Ends, Deactivate(e) PROVE Agreeing' /\ Activated'
  BY <1>7, DeactivateKeepsAgreeing
<1>8. QED
  BY <1>2, <1>3, <1>4, <1>5, <1>6, <1>7, RestKeepsAgreeing, SinkSendKeepsAgreeing DEF Next

LEMMA InitAgreeing == Init => Agreeing /\ Activated
<1> SUFFICES ASSUME Init PROVE Agreeing /\ Activated
  OBVIOUS
<1>1. PICK server \in Ends : end = [e \in Ends |-> NewEnd(e = server)]
  BY DEF Init
<1>2. /\ Peer(server) \in Ends /\ Peer(server) # server /\ Peer(Peer(server)) = server
      /\ \A f \in Ends : f = server \/ f = Peer(server)
  BY PeersPeer
<1>3. \A e \in Ends : net[e] = <<>> /\ opens[e] = 0 /\ phase[e] = "off"
  BY DEF Init
<1>4. end[server].state = "LISTEN" /\ end[Peer(server)].state = "CLOSED"
<2>1. end[server] = NewEnd(server = server) /\ end[Peer(server)] = NewEnd(Peer(server) = server)
  BY <1>1, <1>2
<2>2. QED BY <1>2, <2>1 DEF NewEnd
<1>5. Meets("LISTEN", <<>>, 0, "CLOSED", <<>>, 0)
<2>1. Paired("LISTEN", Nothing, 0, "CLOSED", Nothing, 0)
  BY DEF Paired, Ordered, Opening, At
<2>2. Nothing \in Words
  BY DEF Nothing, Words
<2>3. QED BY <2>1, <2>2, NoneCarried DEF Meets
<1>6. Meets("CLOSED", <<>>, 0, "LISTEN", <<>>, 0)
  BY <1>5, MeetsFlips
<1>7. ASSUME NEW e \in Ends
      PROVE  Meets(end[e].state, net[e], opens[e], end[Peer(e)].state, net[Peer(e)], opens[Peer(e)])
<2>1. CASE e = server
  BY <1>2, <1>3, <1>4, <1>5, <2>1
<2>2. CASE e = Peer(server)
  BY <1>2, <1>3, <1>4, <1>6, <2>2
<2>3. QED BY <1>2, <2>1, <2>2
<1>8. QED BY <1>3, <1>7 DEF Agreeing, Activated

\* In the first two sessions, as long as no handshake has timed out, an end that
\* is connected when nothing is on its way has a connected peer, whichever block
\* begins or ends a session, and even if both do at once (HandshakesAgree).
THEOREM EndsAgree == Spec => []HandshakesAgree
<1>1. Counted /\ Agreeing => HandshakesAgree
<2> SUFFICES ASSUME Agreeing, Early, Silent
             PROVE  (end["sink"].state = "ESTABLISHED") = (end["source"].state = "ESTABLISHED")
  BY DEF HandshakesAgree, Early
<2>1. "sink" \in Ends /\ "source" \in Ends /\ Peer("sink") = "source"
  BY BothEnds DEF Ends, Peer
<2>2. net["sink"] = <<>> /\ net["source"] = <<>>
  BY <2>1 DEF Silent, isRecvReady
<2>3. Meets(end["sink"].state, <<>>, opens["sink"], end["source"].state, <<>>, opens["source"])
  BY <2>1, <2>2 DEF Agreeing
<2>4. PICK v \in Words, w \in Words :
          /\ Carries(<<>>, v) /\ Carries(<<>>, w)
          /\ Paired(end["sink"].state, v, opens["sink"], end["source"].state, w, opens["source"])
  BY <2>3 DEF Meets
<2>5. v = Nothing /\ w = Nothing
  BY <2>4, NoneCarried
<2>6. QED BY <2>4, <2>5, SilentAgree
<1>2. Spec => []Counted
  BY AlwaysCounted
<1>3. Init => Agreeing /\ Activated
  BY InitAgreeing
<1>4. Counted /\ Activated /\ Agreeing /\ [Next]_vars => Agreeing' /\ Activated'
  BY StepKeepsAgreeing
<1>5. QED BY <1>1, <1>2, <1>3, <1>4, PTL DEF Spec
=============================================================================
