--------------------------- MODULE SocketEndpoint ---------------------------
(***************************************************************************)
(* pothos-blocks/network/SocketEndpoint.cpp: one end of a packet stream,   *)
(* as functions from the end and what it does to the end after it and the  *)
(* packets that it has sent.  The socket is reliable and in order.  A byte *)
(* of a header or payload counts for one unit of flow control.  The header *)
(* gives the length of its payload in 16 bits, but all of it is sent: what *)
(* is not announced is stray, where the next header is expected.           *)
(***************************************************************************)
EXTENDS Integers, Sequences, SequencesExt, FiniteSetsExt

CONSTANTS CountMod,  \* 2^16: packet counts wrap around
          LengthMod, \* 2^16: so do the lengths of payloads
          Starts,    \* values that openComms() may draw for the first count
          Window,    \* flowControlWindowBytes()
          FlowStep,  \* an eighth of it
          Header     \* size of a packet's header

ASSUME SocketAssumption ==
    /\ CountMod \in Nat \ {0, 1} /\ Starts \subseteq 0..(CountMod - 1)
    /\ LengthMod \in Nat \ {0}
    /\ Header \in Nat \ {0} /\ FlowStep \in Nat /\ Window \in Nat /\ FlowStep < Window

States == {"LISTEN", "SYN_SENT", "SYN_RECEIVED", "ESTABLISHED", "FIN_WAIT_1", "FIN_WAIT_2",
           "CLOSE_WAIT", "CLOSING", "LAST_ACK", "TIME_WAIT", "CLOSED"}

\* The part of the last packet that has not been received
NoPart == [type |-> "none", index |-> 0, rest |-> <<>>]

\* A server listens until its first handshake, and never again.
NewEnd(isServer) ==
    [state |-> IF isServer THEN "LISTEN" ELSE "CLOSED",
     lastSentPacketCount |-> 0, nextRecvPacketCount |-> 0, part |-> NoPart,
     totalBytesRecv |-> 0, totalBytesSent |-> 0, lastFlowMsgRecv |-> 0, lastFlowMsgSent |-> 0]

isReady(end) ==
    end.state = "ESTABLISHED" /\ end.lastFlowMsgRecv + Window > end.totalBytesSent

\* An end and the packets that it has sent
Quiet(end) == [end |-> end, out |-> <<>>]

Size(packet) == Header + Len(packet.payload)

\* uint16_t(numBytes): what the header announces of a payload, and the rest
Announced(payload) == SubSeq(payload, 1, Len(payload) % LengthMod)
Unannounced(payload) == SubSeq(payload, (Len(payload) % LengthMod) + 1, Len(payload))

\* send(): the count and the bytes of a packet go out under one lock.
Send(x, flags, type, index, payload) ==
    LET packet == [flags |-> flags, type |-> type, index |-> index, payload |-> Announced(payload),
                   packetCount |-> x.end.lastSentPacketCount]
        stray == [packet EXCEPT !.type = "stray", !.payload = Unannounced(payload)]
    IN  [end |-> [x.end EXCEPT !.lastSentPacketCount = (@ + 1) % CountMod,
                               !.totalBytesSent = @ + (Header + Len(payload))],
         out |-> IF Len(payload) < LengthMod THEN Append(x.out, packet)
                                             ELSE x.out \o <<packet, stray>>]

SendFlags(x, flags) == Send(x, flags, "none", 0, <<>>)

\* The flags that the state machine sends and the state it goes to
Transition(state, flags) ==
    CASE state = "LISTEN" /\ "Syn" \in flags -> <<{"Syn", "Ack"}, "SYN_RECEIVED">>
      [] state = "SYN_SENT" /\ flags \cap {"Syn", "Ack"} # {} -> <<{"Ack"}, "ESTABLISHED">>
      [] state = "SYN_RECEIVED" /\ "Ack" \in flags -> <<{}, "ESTABLISHED">>
      [] state = "ESTABLISHED" /\ "Fin" \in flags -> <<{"Ack"}, "CLOSE_WAIT">>
      [] state = "FIN_WAIT_1" /\ "Ack" \in flags -> <<{}, "FIN_WAIT_2">>
      [] state = "FIN_WAIT_1" /\ "Fin" \in flags /\ "Ack" \notin flags -> <<{"Ack"}, "CLOSING">>
      [] state = "FIN_WAIT_2" /\ "Fin" \in flags -> <<{"Ack"}, "TIME_WAIT">>
      [] state = "CLOSING" /\ "Ack" \in flags -> <<{}, "TIME_WAIT">>
      [] state = "LAST_ACK" /\ "Ack" \in flags -> <<{}, "CLOSED">>
      [] OTHER -> <<{}, state>>

handleState(x, flags) ==
    LET to == Transition(x.end.state, flags)
        y == IF to[1] = {} THEN x ELSE SendFlags(x, to[1])
    IN  [y EXCEPT !.end.state = to[2]]

\* Mutant: a SYN does not start a new sequence.
ExpectedMutant(end, packet) == end.nextRecvPacketCount
\* The packet count that unpackHeader() demands of a packet
Expected(end, packet) ==
    IF "Syn" \in packet.flags THEN packet.packetCount ELSE end.nextRecvPacketCount

\* unpackHeader(), of a packet with the right count
unpackHeader(end, packet) ==
    handleState(
        Quiet([end EXCEPT !.nextRecvPacketCount = (Expected(end, packet) + 1) % CountMod,
                          !.part = [type |-> packet.type, index |-> packet.index,
                                    rest |-> packet.payload],
                          !.totalBytesRecv = @ + Header]),
        packet.flags)

\* Mutant: an end reports what it has sent.
ReportMutant(end) == end.totalBytesSent
\* The index of a flow control message
Report(end) == end.totalBytesRecv

\* Tell the peer what has been received, each time it is a step more.
flowControl(x) ==
    IF x.end.totalBytesRecv <= x.end.lastFlowMsgSent + FlowStep
      THEN x
      ELSE LET y == Send(x, {"Flo"}, "none", Report(x.end), <<>>)
           IN  [y EXCEPT !.end.lastFlowMsgSent = x.end.totalBytesRecv]

\* Mutant: what did not fit into the buffer is forgotten.
LeftMutant(part, n) == <<>>
\* What is left in the stream after n more bytes of a packet
Left(part, n) == SubSeq(part.rest, n + 1, Len(part.rest))

\* recv() into a buffer of `length` bytes: only a packet of type Buffer may be
\* received in parts, which have the index of the whole.
recv(end, packets, length) ==
    LET isNew == end.part.rest = <<>>
        x == IF isNew THEN unpackHeader(end, Head(packets)) ELSE Quiet(end)
        part == x.end.part
        taken == IF part.type = "Buffer" THEN Min({length, Len(part.rest)}) ELSE Len(part.rest)
        y == [x EXCEPT !.end.part.rest = Left(part, taken), !.end.totalBytesRecv = @ + taken]
        z == IF isNew /\ "Flo" \in Head(packets).flags
               THEN [y EXCEPT !.end.lastFlowMsgRecv = part.index] ELSE y
        done == flowControl(z)
    IN  [end |-> done.end, out |-> done.out,
         packets |-> IF isNew THEN Tail(packets) ELSE packets,
         type |-> part.type, index |-> part.index,
         data |-> SubSeq(part.rest, 1, taken), length |-> taken]

\* Does an end that expects a header find one?  If not, unpackHeader() throws
\* "headerWord fail"; what becomes of the stream then is not modelled.
HeaderFollows(end, packets) ==
    end.part.rest = <<>> /\ packets # <<>> => Head(packets).type # "stray"

\* The start of openComms(): counters begin anew; who does not listen sends SYN.
openComms(end, start) ==
    LET fresh == [end EXCEPT !.lastSentPacketCount = start,
                             !.totalBytesRecv = 0, !.totalBytesSent = 0,
                             !.lastFlowMsgRecv = 0, !.lastFlowMsgSent = 0]
    IN  IF end.state # "CLOSED" THEN Quiet(fresh)
        ELSE [SendFlags(Quiet(fresh), {"Syn"}) EXCEPT !.end.state = "SYN_SENT"]

\* Mutant: an end that takes part in the stream leaves without FIN.
closeCommsMutant(end) == [Quiet(end) EXCEPT !.end.state = "CLOSED"]
\* The start of closeComms()
closeComms(end) ==
    CASE end.state = "ESTABLISHED" -> [SendFlags(Quiet(end), {"Fin"}) EXCEPT !.end.state = "FIN_WAIT_1"]
      [] end.state = "CLOSE_WAIT" -> [SendFlags(Quiet(end), {"Fin"}) EXCEPT !.end.state = "LAST_ACK"]
      [] OTHER -> [Quiet(end) EXCEPT !.end.state = "CLOSED"]
=============================================================================
