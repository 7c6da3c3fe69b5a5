--------------------------- MODULE NetworkStream ---------------------------
(***************************************************************************)
(* A NetworkSink and a NetworkSource of pothos-blocks at the two ends of a *)
(* socket, with elements and labels that go from one to the other.  Both   *)
(* are activated and deactivated by their topologies whenever these like,  *)
(* and either may wait in vain for the other: a handshake that takes 100   *)
(* milliseconds fails.                                                     *)
(***************************************************************************)
EXTENDS SocketEndpoint

CONSTANTS MaxElements,  \* that the sink is given
          MaxBuffer,    \* elements in one buffer
          MaxLabels,    \* sent before one buffer
          MaxOpens,     \* activations of each block
          MaxFailures,  \* handshakes that fail
          Scratch       \* buffer of the handshakes: 1024 bytes

ASSUME StreamAssumption ==
    {MaxElements, MaxBuffer, MaxLabels, MaxOpens, MaxFailures, Scratch} \subseteq Nat

Ends == {"sink", "source"}
Peer(e) == IF e = "sink" THEN "source" ELSE "sink"

VARIABLES
    end,      \* the PothosPacketSocketEndpoint of each block
    net,      \* packets on the way to each end
    phase,    \* of each block
    length,   \* of the buffer with which a handshake receives
    todo,     \* packets that work() of the sink has still to send
    taken,    \* elements that the sink has taken from its input
    output,   \* elements that the source has posted
    labels,   \* labels that it has posted: index in the next buffer, position in the output
    nextExpectedIndex,
    opens,    \* activations of each block
    failures, \* handshakes that have failed
    dropped,  \* has a handshake dropped elements or labels?
    parted    \* has a buffer been received in parts?

blocks == <<todo, taken, output, labels, nextExpectedIndex>>
history == <<opens, failures, dropped, parted>>
vars == <<end, net, phase, length, blocks, history>>

Init ==
    /\ \E server \in Ends : end = [e \in Ends |-> NewEnd(e = server)]
    /\ net = [e \in Ends |-> <<>>]
    /\ phase = [e \in Ends |-> "off"]
    /\ length = [e \in Ends |-> 0]
    /\ todo = <<>> /\ taken = 0
    /\ output = <<>> /\ labels = {} /\ nextExpectedIndex = 0
    /\ opens = [e \in Ends |-> 0]
    /\ failures = 0 /\ dropped = FALSE /\ parted = FALSE

\* End e becomes x.end and sends x.out.
Becomes(e, x) ==
    /\ end' = [end EXCEPT ![e] = x.end]
    /\ net' = [net EXCEPT ![Peer(e)] = @ \o x.out]

\* End e has received something: what it did not take is still on the way.
Receives(e, x) ==
    /\ end' = [end EXCEPT ![e] = x.end]
    /\ net' = [net EXCEPT ![Peer(e)] = @ \o x.out, ![e] = x.packets]

isRecvReady(e) == net[e] # <<>> \/ end[e].part.rest # <<>>

\* Something can be received that begins with a header, or goes on after one.
Receivable(e) == isRecvReady(e) /\ HeaderFollows(end[e], net[e])

(***************************************************************************)
(* activate() and deactivate()                                             *)
(***************************************************************************)

Activate(e) ==
    /\ phase[e] = "off" /\ opens[e] < MaxOpens
    /\ \E start \in Starts : Becomes(e, openComms(end[e], start))
    /\ phase' = [phase EXCEPT ![e] = "opening"]
    /\ length' = [length EXCEPT ![e] = Scratch]
    /\ opens' = [opens EXCEPT ![e] = @ + 1]
    /\ UNCHANGED <<blocks, failures, dropped, parted>>

\* A block whose actor was activated in vain does not work.
OpenEnds(e) ==
    /\ phase[e] = "opening" /\ end[e].state = "ESTABLISHED"
    /\ phase' = [phase EXCEPT ![e] = "on"]
    /\ UNCHANGED <<end, net, length, blocks, history>>

OpenTimesOut(e) ==
    /\ phase[e] = "opening" /\ end[e].state # "ESTABLISHED"
    /\ phase' = [phase EXCEPT ![e] = "off"]
    /\ end' = [end EXCEPT ![e].state = "CLOSED"]
    /\ failures' = failures + 1
    /\ failures < MaxFailures
    /\ UNCHANGED <<net, length, blocks, opens, dropped, parted>>

\* The sink's handler thread has been joined.
Deactivate(e) ==
    /\ phase[e] = "on" /\ (e = "sink" => todo = <<>>)
    /\ Becomes(e, closeComms(end[e]))
    /\ phase' = [phase EXCEPT ![e] = "closing"]
    /\ length' = [length EXCEPT ![e] = Scratch]
    /\ UNCHANGED <<blocks, history>>

CloseEnds(e) ==
    /\ phase[e] = "closing" /\ end[e].state = "CLOSED"
    /\ phase' = [phase EXCEPT ![e] = "off"]
    /\ UNCHANGED <<end, net, length, blocks, history>>

\* "The loop is meant to timeout in the time-wait state."
CloseTimesOut(e) ==
    /\ phase[e] = "closing" /\ end[e].state # "CLOSED"
    /\ phase' = [phase EXCEPT ![e] = "off"]
    /\ end' = [end EXCEPT ![e].state = "CLOSED"]
    /\ failures' = IF end[e].state = "TIME_WAIT" THEN failures ELSE failures + 1
    /\ failures' <= MaxFailures
    /\ UNCHANGED <<net, length, blocks, opens, dropped, parted>>

\* The loops of openComms() and closeComms() drop what they receive, into one
\* buffer, which becomes as short as the shortest part it has held.
HandshakeRecv(e) ==
    /\ \/ phase[e] = "opening" /\ end[e].state # "ESTABLISHED"
       \/ phase[e] = "closing" /\ end[e].state # "CLOSED"
    /\ Receivable(e)
    /\ LET x == recv(end[e], net[e], length[e])
       IN  /\ Receives(e, x)
           /\ length' = [length EXCEPT ![e] = x.length]
           /\ dropped' = (dropped \/ x.type # "none")
    /\ UNCHANGED <<phase, blocks, opens, failures, parted>>

(***************************************************************************)
(* The sink                                                                *)
(***************************************************************************)

\* The packets of a buffer of n elements and of the labels in the queue, which
\* go first: each has the number of its element, which need not be in this
\* buffer.  Elements are numbered from 1, indices from 0.
Packets(n, queue) ==
    Append([i \in 1..Len(queue) |->
                [type |-> "Label", index |-> queue[i] - 1, payload |-> <<queue[i]>>]],
           [type |-> "Buffer", index |-> taken, payload |-> [i \in 1..n |-> taken + i]])

\* work() of the sink begins; it asks isReady() once, and finds any labels of
\* elements that it has not taken in its queue, in the order of their arrival.
SinkWork ==
    /\ phase["sink"] = "on" /\ todo = <<>>
    /\ isReady(end["sink"])
    /\ \E n \in 1..MaxBuffer, m \in 0..MaxLabels :
       \E queue \in [1..m -> taken + 1..MaxElements] :
          /\ taken + n <= MaxElements
          /\ todo' = Packets(n, queue)
          /\ taken' = taken + n
    /\ UNCHANGED <<end, net, phase, length, output, labels, nextExpectedIndex, history>>

SinkSend ==
    /\ todo # <<>>
    /\ LET p == Head(todo) IN Becomes("sink", Send(Quiet(end["sink"]), {"Psh"}, p.type, p.index, p.payload))
    /\ todo' = Tail(todo)
    /\ UNCHANGED <<phase, length, taken, output, labels, nextExpectedIndex, history>>

\* The handler thread, beside work(): it receives into an empty buffer.
SinkHandleState ==
    /\ phase["sink"] = "on" /\ Receivable("sink")
    /\ Receives("sink", recv(end["sink"], net["sink"], 0))
    /\ UNCHANGED <<phase, length, blocks, history>>

(***************************************************************************)
(* The source                                                              *)
(***************************************************************************)

\* Mutants: the header counts for elements; the length is left out.
HeaderIndexMutant(x) == x.index + Header + x.length
NextIndexMutant(x) == x.index
\* The index that the next buffer is expected to have after x was received
NextIndex(x) == x.index + x.length

\* work() of the source: a buffer of the output port takes up to `room` bytes.
SourceWork ==
    /\ phase["source"] = "on" /\ Receivable("source")
    /\ \E room \in 1..MaxBuffer :
          LET x == recv(end["source"], net["source"], room)
          IN  /\ Receives("source", x)
              /\ output' = IF x.type = "Buffer" THEN output \o x.data ELSE output
              /\ nextExpectedIndex' = IF x.type = "Buffer" THEN NextIndex(x) ELSE nextExpectedIndex
              /\ labels' = IF x.type = "Label"
                    THEN LET index == x.index - nextExpectedIndex
                         IN  labels \cup {[of |-> x.data[1], index |-> index, at |-> Len(output) + index]}
                    ELSE labels
              /\ parted' = (parted \/ x.end.part.rest # <<>>)
    /\ UNCHANGED <<phase, length, todo, taken, opens, failures, dropped>>

-----------------------------------------------------------------------------
Next ==
    \/ \E e \in Ends :
          \/ Activate(e) \/ OpenEnds(e) \/ OpenTimesOut(e)
          \/ Deactivate(e) \/ CloseEnds(e) \/ CloseTimesOut(e)
          \/ HandshakeRecv(e)
    \/ SinkWork \/ SinkSend \/ SinkHandleState \/ SourceWork

Spec == Init /\ [][Next]_vars

(***************************************************************************)
(* Properties                                                              *)
(***************************************************************************)

TypeOK ==
    /\ \A e \in Ends :
          /\ end[e].state \in States
          /\ {end[e].lastSentPacketCount, end[e].nextRecvPacketCount} \subseteq 0..CountMod - 1
          /\ phase[e] = "off" => end[e].state \in {"LISTEN", "CLOSED"}
          /\ phase[e] = "on" => end[e].state \in {"ESTABLISHED", "CLOSE_WAIT"}
          /\ \A i \in DOMAIN net[e] : net[e][i].type \in {"none", "Buffer", "Label"}
    /\ todo # <<>> => phase["sink"] = "on"
    /\ nextExpectedIndex \in 0..taken

\* CountsInSync: the next packet always has the count that unpackHeader()
\* demands, over all sessions and with two threads that send: it never throws
\* "packetCount fail", after which the stream could not be used any more.
CountsInSync ==
    \A e \in Ends : net[e] # <<>> =>
        Head(net[e]).packetCount = Expected(end[e], Head(net[e]))

\* Nothing is on its way.
Silent == \A e \in Ends : ~isRecvReady(e)

\* HandshakesAgree: in the first two sessions, as long as no handshake has timed
\* out, an end that is connected when nothing is on its way has a connected peer
\* (openComms(), closeComms() and handleState(), whichever block begins).  The
\* second session may leave an ACK that the third takes for an answer.
HandshakesAgree ==
    failures = 0 /\ (\A e \in Ends : opens[e] <= 2) /\ Silent /\ todo = <<>> =>
        (end["sink"].state = "ESTABLISHED") = (end["source"].state = "ESTABLISHED")

\* NoFlowDeadlock: a sink that has used up its window will hear from the source
\* (flow control of recv() against isReady(): bytes lost in a failed handshake
\* do not add up to a window that nobody opens again).
NoFlowDeadlock ==
    Silent /\ (\A e \in Ends : end[e].state = "ESTABLISHED") => isReady(end["sink"])

\* What the source has in its hands, what has been sent and what is about to be
InHand == [type |-> end["source"].part.type, index |-> end["source"].part.index,
           payload |-> end["source"].part.rest]
OnTheWay == <<InHand>> \o net["source"] \o todo

Elements(packet) == IF packet.type = "Buffer" THEN Range(packet.payload) ELSE {}

\* StreamInOrder: elements come out in order and at most once, whatever
\* handshakes come between; if none were dropped, they come out without a gap,
\* in parts or whole, and all others are on their way (recv() and its
\* bytesLeftInStream).  That is so of buffers and labels whose length the header
\* can give (ShortStream): of a longer one the rest is taken for a header.
StreamInOrder ==
    /\ \A i \in 1..Len(output) - 1 : output[i] < output[i + 1]
    /\ \A i \in DOMAIN OnTheWay : \A b \in Elements(OnTheWay[i]) :
          /\ \A a \in Range(output) : a < b
          /\ \A j \in 1..i - 1 : \A a \in Elements(OnTheWay[j]) : a < b
    /\ ~dropped =>
          /\ output = [i \in 1..Len(output) |-> i]
          /\ Range(output) \cup UNION {Elements(OnTheWay[i]) : i \in DOMAIN OnTheWay} = 1..taken

\* LabelsKeepTheirElement: a label is never posted behind its element, and at
\* its element as long as buffers come whole and nothing is dropped
\* (NetworkSource::work(); "all labels are sent before buffers to ensure
\* ordering at the destination", NetworkSink.cpp:165).
LabelsKeepTheirElement ==
    \A label \in labels :
        /\ label.index >= 0
        /\ ~dropped /\ ~parted => label.at + 1 = label.of
=============================================================================
