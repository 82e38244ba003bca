------------------------------- MODULE Sending -------------------------------
(***************************************************************************)
(* The outgoing stream of a NetworkClient, byte by byte, and what the peer *)
(* can make of it.  The application, the heartbeat thread and              *)
(* disconnectAsync call sendAsync, which starts one asio::async_write each *)
(* time: asio writes what the socket takes at once while the call is       *)
(* running, and the rest later, in the I/O thread, a part at a time, out   *)
(* of the vector the caller passed.  Nothing keeps the parts of two writes *)
(* apart, and nothing keeps the vector.                                    *)
(*                                                                         *)
(* Module NetworkClient says which threads call, when they start and stop  *)
(* and what follows an error; here is what ends up on the wire.  As there, *)
(* Impl is taken to be owned by a shared_ptr.                              *)
(***************************************************************************)
EXTENDS InternalPackets, SequencesExt

CONSTANTS
  Payloads,                   \* what the application puts in a packet, and
  AppIDs,                     \* under which IDs; Parlo's own are reserved
  applyCompression,
  MAX_PACKET_SIZE,
  COMPRESSION_THRESHOLD, RTT_COMPRESSION_THRESHOLD,
  RTTs,                       \* lastRTT; no constructor sets it
  Times,                      \* what system_clock may say
  WriteSizes,                 \* the part of a write a socket may take
  Junk,                       \* a byte in memory that was freed
  MaxCalls                    \* bound: how many writes are started

ASSUME SendingAssumption ==
  /\ \A payload \in Payloads : payload \in Seq(Byte) /\ Constructible(payload)
  /\ AppIDs \subseteq 0 .. Heartbeat - 1
  /\ applyCompression \in BOOLEAN
  /\ MAX_PACKET_SIZE \in 1 .. MaxUint16
  /\ COMPRESSION_THRESHOLD \in Nat /\ RTT_COMPRESSION_THRESHOLD \in Int
  /\ RTTs \subseteq Int /\ Times \subseteq Nat /\ WriteSizes \subseteq Nat
  /\ Junk \in Byte /\ MaxCalls \in Nat

(* The count of a clock is an int64_t: it fits in 63 bits. *)
ASSUME TimesAssumption ==
  \A now \in Times : Shift16(Shift16(Shift16(now))) < 32768

VARIABLES
  connected,
  socket,             \* "open", "broken" or "closed"
  lastHeartbeatSent,
  disconnecting,      \* where disconnectAsync is: "idle", "goodbye",
                      \* "close", "join" or "done"
  writes,             \* the outstanding writes: the bytes left of each, and
                      \* whether the caller's vector outlasts it
  wire,               \* history: the bytes the socket has taken
  taken, given,       \* history: the data of the calls that started a write,
                      \* and all their bytes
  built,              \* history: the GoodbyePackets and HeartbeatPackets sent
  orderly             \* history: no write has been started while another was
                      \* outstanding, or gone on without its vector

stream == << writes, wire, taken, given, orderly >>
vars   == << connected, socket, lastHeartbeatSent, disconnecting, stream,
             built >>

Write == [ rest : Seq(Byte) \ { << >> }, lasting : BOOLEAN ]

TypeOK ==
  /\ connected \in BOOLEAN
  /\ socket \in { "open", "broken", "closed" }
  /\ lastHeartbeatSent \in Times \cup { 0 }
  /\ disconnecting \in { "idle", "goodbye", "close", "join", "done" }
  /\ writes \in Seq(Write)
  /\ wire \in Seq(Byte)
  /\ given \in Seq(Byte)
  /\ taken \in Seq(Seq(Byte)) /\ Len(taken) <= MaxCalls
  /\ orderly \in BOOLEAN
  /\ orderly => Len(writes) <= 1

(* A connection that is up; lastHeartbeatSent is the epoch. *)
Init ==
  /\ connected = TRUE /\ socket = "open"
  /\ lastHeartbeatSent = 0
  /\ disconnecting = "idle"
  /\ writes = << >> /\ wire = << >> /\ taken = << >> /\ given = << >>
  /\ built = { }
  /\ orderly = TRUE

-----------------------------------------------------------------------------
(* sendAsync                                                               *)

ShouldCompressData(data, rtt) ==
  /\ applyCompression
  /\ Len(data) >= COMPRESSION_THRESHOLD
  /\ rtt > RTT_COMPRESSION_THRESHOLD

(* Mutant: the size is taken from the packet's length field. *)
AcceptsByLengthField(data, rtt) ==
  /\ data # << >>
  /\ LengthAt(data, 0) <= MAX_PACKET_SIZE
  /\ connected
  /\ ~ShouldCompressData(data, rtt)

(***************************************************************************)
(* sendAsync throws for other data, and where connected is FALSE.  It also *)
(* throws where it should compress: the packet it then constructs is given *)
(* finalData, which is still empty.                                        *)
(***************************************************************************)
Accepts(data, rtt) ==
  /\ data # << >>
  /\ Len(data) <= MAX_PACKET_SIZE
  /\ connected
  /\ ~ShouldCompressData(data, rtt)

(* How many bytes of data the socket may take at a time. *)
Parts(data) ==
  IF socket = "open" THEN (WriteSizes \cap (0 .. Len(data))) \cup { Len(data) }
                     ELSE { 0 }

Behind(data, n) == SubSeq(data, n + 1, Len(data))

(* Mutant: async_write_some, which is content with a part. *)
StartWriteSome(data, lasting) ==
  /\ taken' = Append(taken, data) /\ given' = given \o data
  /\ orderly' = (orderly /\ writes = << >>)
  /\ \E n \in Parts(data) : wire' = wire \o SubSeq(data, 1, n)
  /\ UNCHANGED writes

(***************************************************************************)
(* async_write of data itself: finalData, whatever became of it, is not    *)
(* used.                                                                   *)
(***************************************************************************)
StartWrite(data, lasting) ==
  /\ taken' = Append(taken, data) /\ given' = given \o data
  /\ orderly' = (orderly /\ writes = << >>)
  /\ \E n \in Parts(data) :
       /\ wire' = wire \o SubSeq(data, 1, n)
       /\ writes' = IF n = Len(data) THEN writes
                    ELSE Append(writes, [ rest |-> Behind(data, n),
                                          lasting |-> lasting ])

(* A call of sendAsync that starts a write, and one that throws. *)
SendAsync(data, lasting) ==
  /\ Len(taken) < MaxCalls
  /\ \E rtt \in RTTs : Accepts(data, rtt)
  /\ StartWrite(data, lasting)

SendAsyncThrows(data) ==
  (\E rtt \in RTTs : ~Accepts(data, rtt)) /\ UNCHANGED stream

-----------------------------------------------------------------------------
(* The callers of sendAsync.                                               *)

AppSends ==
  /\ \E id \in AppIDs, payload \in Payloads, lasting \in BOOLEAN :
       SendAsync(BuildPacket(TCPPacket(id, payload, FALSE)), lasting)
  /\ UNCHANGED << connected, socket, lastHeartbeatSent, disconnecting, built >>

Distance(t, u) == IF t > u THEN t - u ELSE u - t

(***************************************************************************)
(* One turn of sendHeartbeatAsync, which logs what sendAsync throws.  What *)
(* buildPacket returns is gone after the call.                             *)
(***************************************************************************)
SendHeartbeat ==
  /\ disconnecting # "done"
  /\ \E now \in Times :
       LET heartbeat == [ timeSinceLast |-> Distance(now, lastHeartbeatSent),
                          sentTimestamp |-> now ]
           pulse == BuildPacket(TCPPacket(Heartbeat,
                                          HeartbeatToByteArray(heartbeat),
                                          FALSE))
       IN /\ lastHeartbeatSent' = now
          /\ \/ SendAsync(pulse, FALSE) /\ built' = built \cup { heartbeat }
             \/ SendAsyncThrows(pulse) /\ UNCHANGED built
  /\ UNCHANGED << connected, socket, disconnecting >>

(* disconnectAsync.  An exception ends it where it is. *)
DisconnectAsync ==
  /\ disconnecting = "idle"
  /\ connected /\ socket # "closed"
  /\ disconnecting' \in { "goodbye", "close" }
  /\ UNCHANGED << connected, socket, lastHeartbeatSent, stream, built >>

(* Mutant: the body is sent, and not the packet. *)
SayGoodbyeWithoutHeader ==
  /\ disconnecting = "goodbye"
  /\ \E now \in Times :
       LET bye == [ timeout |-> ClientTimeout, sentTime |-> now ]
           byeData == GoodbyeToByteArray(bye)
       IN \/ /\ SendAsync(byeData, FALSE) /\ built' = built \cup { bye }
             /\ disconnecting' = "close"
          \/ /\ SendAsyncThrows(byeData) /\ UNCHANGED built
             /\ disconnecting' = "idle"
  /\ UNCHANGED << connected, socket, lastHeartbeatSent >>

SayGoodbye ==
  /\ disconnecting = "goodbye"
  /\ \E now \in Times :
       LET bye == [ timeout |-> ClientTimeout, sentTime |-> now ]
           goodbye == BuildPacket(TCPPacket(CGoodbye, GoodbyeToByteArray(bye),
                                            FALSE))
       IN \/ /\ SendAsync(goodbye, FALSE) /\ built' = built \cup { bye }
             /\ disconnecting' = "close"
          \/ /\ SendAsyncThrows(goodbye) /\ UNCHANGED built
             /\ disconnecting' = "idle"
  /\ UNCHANGED << connected, socket, lastHeartbeatSent >>

(* shutdown may throw where the connection is not established any more. *)
CloseSocket ==
  /\ disconnecting = "close"
  /\ \/ socket = "broken" /\ disconnecting' = "idle" /\ UNCHANGED socket
     \/ socket' = "closed" /\ disconnecting' = "join"
  /\ UNCHANGED << connected, lastHeartbeatSent, stream, built >>

(* The threads have been joined. *)
EndDisconnect ==
  /\ disconnecting = "join" /\ disconnecting' = "done"
  /\ connected' = FALSE
  /\ UNCHANGED << socket, lastHeartbeatSent, stream, built >>

-----------------------------------------------------------------------------
(* asio and the network.                                                   *)

(* Mutant: a write that has come to its end stays outstanding. *)
ContinueWriteStaying(i) ==
  /\ socket = "open"
  /\ \E n \in Parts(writes[i].rest) \ { 0 } :
       /\ wire' = wire \o SubSeq(writes[i].rest, 1, n)
       /\ writes' = [ writes EXCEPT ![i].rest = Behind(@, n) ]
       /\ orderly' = (orderly /\ writes[i].lasting)
  /\ UNCHANGED << connected, socket, lastHeartbeatSent, disconnecting, taken,
                  given, built >>

(* The next part of write i, as the vector's memory now is. *)
ContinueWrite(i) ==
  /\ socket = "open"
  /\ LET write == writes[i]
         rest  == write.rest
     IN \E n \in Parts(rest) \ { 0 } :
          /\ \/ wire' = wire \o SubSeq(rest, 1, n)
             \/ ~write.lasting /\ wire' = wire \o [ k \in 1 .. n |-> Junk ]
          /\ writes' = IF n = Len(rest) THEN RemoveAt(writes, i)
                       ELSE [ writes EXCEPT ![i].rest = Behind(rest, n) ]
          /\ orderly' = (orderly /\ write.lasting)
  /\ UNCHANGED << connected, socket, lastHeartbeatSent, disconnecting, taken,
                  given, built >>

(* The handler of sendAsync, called with an error. *)
FailWrite(i) ==
  /\ socket # "open"
  /\ writes' = RemoveAt(writes, i)
  /\ connected' = FALSE
  /\ UNCHANGED << socket, lastHeartbeatSent, disconnecting, wire, taken, given,
                  built, orderly >>

ConnectionBreaks ==
  /\ socket = "open" /\ socket' = "broken"
  /\ UNCHANGED << connected, lastHeartbeatSent, disconnecting, stream, built >>

IoStep == \E i \in DOMAIN writes : ContinueWrite(i) \/ FailWrite(i)

Next ==
  \/ AppSends \/ SendHeartbeat
  \/ DisconnectAsync \/ SayGoodbye \/ CloseSocket \/ EndDisconnect
  \/ IoStep \/ ConnectionBreaks

Spec == Init /\ [][Next]_vars

(* asio goes on with a write as long as the socket takes something. *)
FairSpec == Spec /\ WF_vars(IoStep)

-----------------------------------------------------------------------------
Received == FramesIn(wire)

(***************************************************************************)
(* As long as the writes keep out of each other's way and their vectors    *)
(* live, the peer gets the packets of the calls of sendAsync that did not  *)
(* throw, each once, whole, unaltered and in the order of the calls; and   *)
(* all of them when no write is outstanding on a connection that is up.    *)
(***************************************************************************)
PeerReceivesPackets ==
  orderly =>
    /\ IsPrefix([ k \in DOMAIN Received |-> BuildPacket(Received[k]) ], taken)
    /\ writes = << >> /\ socket = "open" => Len(Received) = Len(taken)

(***************************************************************************)
(* Whatever sendAsync has taken states its own size in its length field,   *)
(* which the constructor of Packet cuts to 16 bits: a packet whose length  *)
(* has wrapped never goes out.                                             *)
(***************************************************************************)
LengthIsTold ==
  \A k \in DOMAIN taken :
    Len(taken[k]) > STANDARD /\ LengthAt(taken[k], 0) = Len(taken[k])

(* What fromByteArray makes of data is bye, its time cut to seconds. *)
ReadsBackAs(data, bye) ==
  /\ "timeout" \in DOMAIN bye
  /\ GoodbyeIsParsed(data)
  /\ GoodbyeFromByteArray(data) =
       [ bye EXCEPT !.sentTime = 1000 * (@ \div 1000) ]

(***************************************************************************)
(* The GoodbyePacket a peer gets reads back as one that was built, with    *)
(* the time it was sent cut to seconds.                                    *)
(***************************************************************************)
GoodbyesReadBack ==
  orderly =>
    \A k \in DOMAIN Received :
      Received[k].id = CGoodbye =>
        \E bye \in built : ReadsBackAs(Received[k].data, bye)

(***************************************************************************)
(* disconnectAsync with a message closes the socket only when the peer has *)
(* the goodbye, unless a write is outstanding and cut off, or the          *)
(* connection is broken.                                                   *)
(***************************************************************************)
PeerIsTold ==
  [][ /\ socket = "open" /\ socket' = "closed"
      /\ orderly /\ writes = << >>
      /\ \E bye \in built : "timeout" \in DOMAIN bye
      => \E k \in DOMAIN Received : Received[k].id = CGoodbye ]_vars

(***************************************************************************)
(* A packet that sendAsync has taken gets to the peer, unless writes meet, *)
(* a vector is gone or the connection is.                                  *)
(***************************************************************************)
EveryPacketArrives ==
  \A n \in 1 .. MaxCalls :
    Len(taken) = n ~> Len(Received) >= n \/ ~orderly \/ socket # "open"

(***************************************************************************)
(* The handler of a peer that is Parlo too reads from the heartbeats it is *)
(* sent what their sender put in.                                          *)
(***************************************************************************)
PeerUnderstands ==
  orderly =>
    \A k \in DOMAIN Received :
      LET frame == Received[k] IN
        frame.id = Heartbeat =>
          /\ HeartbeatIsParsed(frame.data)
          /\ HeartbeatFromByteArray(frame.data) \in built
=============================================================================
