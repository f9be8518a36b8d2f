--------------------------- MODULE CommonSession ---------------------------
(***************************************************************************)
(* Common::Network::Session and Packet: one connection of a main or cast   *)
(* server and its client, byte by byte.                                    *)
(*                                                                         *)
(* The server sends an acknowledgement with the key of the session, cuts   *)
(* what it reads into frames, decrypts and dispatches them and writes the  *)
(* answers.  TCP delivers the bytes in order, in pieces of any length.     *)
(* asyncWrite hands asio a buffer that it frees when it returns: what the  *)
(* socket does not take at once is written later, from freed memory, and   *)
(* behind whatever was written meanwhile.                                  *)
(*                                                                         *)
(* The client is not part of the repository.  Here it sends frames that    *)
(* are well formed, once it has understood the acknowledgement, and reads  *)
(* frames as the server does.                                              *)
(***************************************************************************)
EXTENDS Crypt

CONSTANTS
  SessionBits, SizeBits, CryptBits,                 \* 14, 11, 3: above 4 bits of padding
  MissionBits, OrderBits, ExtraBits, OptionBits,    \* 2, 10, 8, 8: above 4 bits of padding
  BufferSize,      \* 1024: the most bytes one read takes
  SendBuffer,      \* the bytes a socket holds until the client reads them
  ListSize,        \* the bytes of a list of all rooms
  Requests,        \* the packets a client may send
  MaxSent          \* bound: how many of them it sends

HeaderSize == 4
CommandSize == 4

SessionAssumption ==
  /\ {BufferSize, SendBuffer, ListSize, MaxSent} \subseteq Nat \ {0}
  /\ SessionBits + SizeBits + CryptBits <= WordBits
  /\ MissionBits + OrderBits + ExtraBits + OptionBits <= WordBits
ASSUME SessionAssumption

\* What stands in memory that is written after it was freed: unlike any byte.
Freed == 2^ByteBits

VARIABLES
  server,       \* "main" or "cast"
  isUsed,       \* m_crypt.isUsed
  userKey,      \* m_crypt.UserKey
  open,         \* m_socket.is_open()
  reading,      \* an async_read_some is pending
  removed,      \* m_onCloseSocketCallback has been called
  reader,       \* m_reader
  toServer,     \* the bytes that were sent and not read, of the client
  toClient,     \*   and of the server
  posted,       \* writes the socket took in part: the bytes left, to be tried again
  queued,       \* writes that wait until the socket takes bytes
  answer,       \* what the client holds of a frame not yet complete
  sent,         \* history: the packets the client sent
  received,     \* history: the packets the server has dispatched
  written,      \* history: the packets given to asyncWrite while the socket was open
  understood,   \* history: the packets the client made of what it read
  late          \* history: some write was not finished at once

crypt == <<server, isUsed, userKey>>
life == <<open, reading, removed>>
writes == <<toClient, posted, queued, written, late>>
vars == <<crypt, life, writes, reader, toServer, answer, sent, received, understood>>

----------------------------------------------------------------------------
(* Headers: bit fields, the padding in the lowest bits *)

HeaderFields == <<WordBits - SessionBits - SizeBits - CryptBits, SessionBits, SizeBits, CryptBits>>
CommandFields ==
  <<WordBits - MissionBits - OrderBits - ExtraBits - OptionBits,
    MissionBits, OrderBits, ExtraBits, OptionBits>>

\* The bytes of a word made of fields, each cut to its width; and the fields of such bytes.
Packed(values, widths) ==
  LET from[i \in 1 .. Len(widths) + 1] ==
        IF i > Len(widths) THEN 0 ELSE (values[i] % 2^widths[i]) + 2^widths[i] * from[i + 1]
  IN  BytesOf(from[1], 4)
Unpacked(bytes, widths) ==
  LET from[i \in 1 .. Len(widths)] ==
        IF i = 1 THEN NumberOf(bytes) ELSE from[i - 1] \div 2^widths[i - 1]
  IN  [i \in 1 .. Len(widths) |-> from[i] % 2^widths[i]]

\* A packet, as the setters of Packet leave it: new ones are never encrypted, since
\* setTcpHeader ignores the kind it is given.
Packet(session, mission, order, extra, option, data) ==
  [session |-> session, crypt |-> 0, mission |-> mission, order |-> order,
   extra |-> extra, option |-> option, data |-> data]

FullSize(packet) == HeaderSize + CommandSize + Len(packet.data)

\* The bytes with the encryption of a kind, or without it.
KeyOf(kind, key) == IF kind \in {2, 4} THEN key ELSE 0
Encrypted(bytes, kind, key) ==
  CASE kind \in {1, 2} -> RC5Encrypt64(bytes, KeyOf(kind, key))
    [] kind \in {3, 4} -> RC6Encrypt128(bytes, KeyOf(kind, key))
    [] OTHER -> bytes
Decrypted(bytes, kind, key) ==
  CASE kind \in {1, 2} -> RC5Decrypt64(bytes, KeyOf(kind, key))
    [] kind \in {3, 4} -> RC6Decrypt128(bytes, KeyOf(kind, key))
    [] OTHER -> bytes

\* The fields of the header at the front of some bytes.
HeaderAt(bytes, hidden) ==
  LET front == SubSeq(bytes, 1, HeaderSize)
  IN  Unpacked(IF hidden THEN RC5Decrypt32(front, 0) ELSE front, HeaderFields)

\* Packet::generateOutgoingPacket; the size goes into a field of few bits.
GenerateOutgoingPacket(packet, hidden, key) ==
  LET header == Packed(<<0, packet.session, FullSize(packet), packet.crypt>>, HeaderFields)
      command == Packed(<<0, packet.mission, packet.order, packet.extra, packet.option>>,
                        CommandFields)
  IN  (IF hidden THEN RC5Encrypt32(header, 0) ELSE header)
      \o Encrypted(command \o packet.data, packet.crypt, key)

\* Packet::processIncomingPacket
ProcessIncomingPacket(frame, hidden, key) ==
  LET Fields(header, command, data) ==
        [Packet(header[2], command[2], command[3], command[4], command[5], data)
           EXCEPT !.crypt = header[4]]
      WithBody(header, body) ==
        Fields(header, Unpacked(SubSeq(body, 1, CommandSize), CommandFields),
               SubSeq(body, CommandSize + 1, Len(body)))
      WithHeader(header) ==
        WithBody(header, Decrypted(SubSeq(frame, HeaderSize + 1, Len(frame)), header[4], key))
  IN  WithHeader(HeaderAt(frame, hidden))

\* The loop of onRead: the frames at the front of what was read, what is left, and whether
\* the loop met a size that no packet has.
Frames(bytes, hidden) ==
  LET Result(frames, rest, bad) == [frames |-> frames, rest |-> rest, bad |-> bad]
      from[k \in 0 .. Len(bytes)] ==
        LET rest == SubSeq(bytes, k + 1, Len(bytes))
            Sized(size) ==
              IF size >= 2^SizeBits - 1 THEN Result(<< >>, rest, TRUE)
              ELSE IF Len(rest) < size THEN Result(<< >>, rest, FALSE)
              ELSE [from[k + size] EXCEPT !.frames = <<SubSeq(rest, 1, size)>> \o @]
        IN  IF Len(rest) <= HeaderSize THEN Result(<< >>, rest, FALSE)
            ELSE Sized(HeaderAt(rest, hidden)[3])
  IN  from[0]

----------------------------------------------------------------------------
(* Writing *)

Io == [socket |-> toClient, posted |-> posted, queued |-> queued, written |-> written,
       late |-> late]
Becomes(io) ==
  /\ toClient' = io.socket /\ posted' = io.posted /\ queued' = io.queued
  /\ written' = io.written /\ late' = io.late

\* One attempt to send bytes: behind the writes that wait, or what fits at once and the
\* rest in an attempt of its own.
Attempt(io, bytes) ==
  LET n == Min({Len(bytes), SendBuffer - Len(io.socket)})
      rest == Len(bytes) - n
  IN  IF io.queued # << >> \/ n = 0
      THEN [io EXCEPT !.queued = Append(@, Len(bytes)), !.late = TRUE]
      ELSE [io EXCEPT !.socket = @ \o SubSeq(bytes, 1, n),
                      !.posted = IF rest > 0 THEN Append(@, rest) ELSE @,
                      !.late = @ \/ rest > 0]

\* mutant: packets are encrypted as if no key had been agreed on
AsyncWriteKeyless(io, packet) ==
  IF open
  THEN [Attempt(io, GenerateOutgoingPacket(packet, isUsed, 0)) EXCEPT !.written = Append(@, packet)]
  ELSE io

\* Session::asyncWrite
AsyncWrite(io, packet) ==
  IF open
  THEN [Attempt(io, GenerateOutgoingPacket(packet, isUsed, IF isUsed THEN userKey ELSE 0))
          EXCEPT !.written = Append(@, packet)]
  ELSE io

\* A write that was finished in part is tried again by a handler of its own; one that waits
\* is tried when the socket takes bytes.  Both send from memory that was freed.
Stale(n) == [i \in 1 .. n |-> Freed]

RetryWrite ==
  /\ open /\ posted # << >>
  /\ Becomes(Attempt([Io EXCEPT !.posted = Tail(@)], Stale(Head(posted))))
  /\ UNCHANGED <<crypt, life, reader, toServer, answer, sent, received, understood>>

SocketWritable ==
  /\ open /\ queued # << >> /\ Len(toClient) < SendBuffer
  /\ LET n == Min({Head(queued), SendBuffer - Len(toClient)}) IN
     /\ toClient' = toClient \o Stale(n)
     /\ queued' = Tail(queued)
     /\ posted' = IF n < Head(queued) THEN Append(posted, Head(queued) - n) ELSE posted
  /\ UNCHANGED <<crypt, life, reader, toServer, answer, sent, received, understood,
                 written, late>>

----------------------------------------------------------------------------
(* The server *)

Ack == 5    \* 401
Refused == 1
Echoed == 2
Listed == 3

\* sendConnectionACK: a key and, of the main server, the unique id: the session's id and
\* the server's, 4.  The cast server gives a key too, and uses none.
SendConnectionACK(key) ==
  /\ ~reading /\ open /\ written = << >>
  /\ isUsed' = (server = "main")
  /\ userKey' = IF server = "main" THEN key ELSE 0
  /\ reading' = TRUE
  /\ Becomes(LET data == IF server = "main" THEN BytesOf(key, 4) \o BytesOf(1, 2) \o BytesOf(4, 2)
                         ELSE BytesOf(key, 4)
                 packet == Packet(1, 0, Ack, 1, IF server = "main" THEN 1 ELSE 0, data)
             IN  [Attempt(Io, GenerateOutgoingPacket(packet, server = "main", key))
                    EXCEPT !.written = <<packet>>])
  /\ UNCHANGED <<server, open, removed, reader, toServer, answer, sent, received, understood>>

\* What the handlers of the registered orders write: an answer without data, the request
\* itself (with the encryption it came in), a list of the rooms.  Other orders are dropped.
Answers(request) ==
  CASE request.order = Refused -> <<Packet(request.session, 0, Refused, 2, 0, << >>)>>
    [] request.order = Echoed -> <<request>>
    [] request.order = Listed ->
         <<Packet(request.session, 0, Listed, 5, 0, [i \in 1 .. ListSize |-> i % 2])>>
    [] OTHER -> << >>

\* What onPacket makes of a frame: the main server asks whether there is a key, the cast
\* server has none.
ProcessedByMain(frame) == ProcessIncomingPacket(frame, isUsed, IF isUsed THEN userKey ELSE 0)
ProcessedByCast(frame) == ProcessIncomingPacket(frame, FALSE, 0)
ProcessedByServer(frame) ==
  IF server = "main" THEN ProcessedByMain(frame) ELSE ProcessedByCast(frame)

\* The packets of the frames that onRead has found are dispatched (onPacket) and answered.
Dispatch(loop, packets) ==
  LET After(io) == Becomes(IF loop.bad THEN [io EXCEPT !.posted = << >>, !.queued = << >>] ELSE io)
  IN  /\ reader' = loop.rest
      /\ received' = received \o packets
      /\ After(FoldLeft(AsyncWrite, Io, FlattenSeq([i \in DOMAIN packets |-> Answers(packets[i])])))
      /\ open' = ~loop.bad /\ reading' = ~loop.bad /\ removed' = loop.bad

\* onRead for the next n bytes: every complete frame is dispatched, and the next read is
\* armed unless the socket was closed.
OnRead(n) ==
  LET Loop(loop) ==
        Dispatch(loop, [i \in DOMAIN loop.frames |-> ProcessedByServer(loop.frames[i])])
  IN  /\ open /\ reading
      /\ toServer' = SubSeq(toServer, n + 1, Len(toServer))
      /\ Loop(Frames(reader \o SubSeq(toServer, 1, n), isUsed))
      /\ UNCHANGED <<crypt, answer, sent, understood>>

\* mutant: the writes that wait survive the socket
CloseSocketKeepingWrites ==
  /\ open
  /\ open' = FALSE /\ removed' = TRUE
  /\ reading' \in {reading, FALSE}
  /\ UNCHANGED <<crypt, writes, reader, toServer, answer, sent, received, understood>>

\* closeSocket, after a read error (the client is gone) or by the command /shutdown: writes
\* that wait are given up.  After the latter the pending read ends with an error of its own
\* and closeSocket is called once more.
CloseSocket ==
  /\ open
  /\ open' = FALSE /\ removed' = TRUE
  /\ posted' = << >> /\ queued' = << >>
  /\ reading' \in {reading, FALSE}
  /\ UNCHANGED <<crypt, reader, toServer, toClient, answer, sent, received, understood,
                 written, late>>
ReadAborted ==
  /\ ~open /\ reading
  /\ reading' = FALSE /\ removed' = TRUE
  /\ UNCHANGED <<crypt, open, writes, reader, toServer, answer, sent, received, understood>>

----------------------------------------------------------------------------
(* The client *)

\* Packets of which the size does not fit its field: a reader of frames is lost behind them.
Oversize(packet) == FullSize(packet) >= 2^SizeBits - 1

ClientKey == IF server = "main" THEN NumberOf(SubSeq(understood[1].data, 1, 4)) ELSE 0

ClientSends(request) ==
  /\ understood # << >> /\ Len(sent) < MaxSent
  /\ server = "main" \/ request.crypt \in {0, 1, 3}
  /\ LET packet == [request EXCEPT !.session = understood[1].session] IN
     /\ sent' = Append(sent, packet)
     /\ toServer' = toServer \o GenerateOutgoingPacket(packet, server = "main", ClientKey)
  /\ UNCHANGED <<crypt, life, writes, reader, answer, received, understood>>

\* The client reads all there is.  What it does with bytes that are no frames is not known.
ClientReads ==
  /\ toClient # << >>
  /\ toClient' = << >>
  /\ IF late \/ \E i \in DOMAIN written : Oversize(written[i])
     THEN UNCHANGED <<answer, understood>>
     ELSE LET hidden == server = "main"
              key == IF understood = << >> THEN 0 ELSE ClientKey
              Reads(loop) ==
                /\ answer' = loop.rest
                /\ understood' = understood \o
                     [i \in DOMAIN loop.frames |->
                        ProcessIncomingPacket(loop.frames[i], hidden, key)]
          IN  Reads(Frames(answer \o toClient, hidden))
  /\ UNCHANGED <<crypt, life, reader, toServer, posted, queued, sent, received, written, late>>

----------------------------------------------------------------------------
Init ==
  /\ server \in {"main", "cast"}
  /\ isUsed = TRUE /\ userKey = 0
  /\ open = TRUE /\ reading = FALSE /\ removed = FALSE
  /\ reader = << >> /\ toServer = << >> /\ toClient = << >> /\ answer = << >>
  /\ posted = << >> /\ queued = << >> /\ late = FALSE
  /\ sent = << >> /\ received = << >> /\ written = << >> /\ understood = << >>

Next ==
  \/ \E key \in Keys : SendConnectionACK(key)
  \/ \E n \in 1 .. Min({BufferSize, Len(toServer)}) : OnRead(n)
  \/ CloseSocket \/ ReadAborted
  \/ RetryWrite \/ SocketWritable
  \/ \E request \in Requests : ClientSends(request)
  \/ ClientReads

Spec == Init /\ [][Next]_vars

----------------------------------------------------------------------------
(* Properties *)

Bytes == Seq(Byte)

\* Bytes are bytes, lengths are lengths; nothing waits to be written to a closed socket and
\* no socket holds more than it can.
TypeOK ==
  /\ server \in {"main", "cast"} /\ userKey \in Keys
  /\ {isUsed, open, reading, removed, late} \subseteq BOOLEAN
  /\ reader \in Bytes /\ toServer \in Bytes /\ answer \in Bytes
  /\ toClient \in Seq(Byte \cup {Freed}) /\ Len(toClient) <= SendBuffer
  /\ posted \in Seq(Nat \ {0}) /\ queued \in Seq(Nat \ {0})
  /\ open \/ posted \o queued = << >>
  /\ Len(sent) <= MaxSent

\* However TCP cuts the bytes of the client into pieces, the server dispatches the packets
\* that were sent, in order, each once and with its fields and data as they were, under
\* every encryption; and while the connection is open a packet that has arrived as a whole
\* is not left in the reader (onRead, onPacket, processIncomingPacket).
ReceivedAsSent ==
  /\ IsPrefix(received, sent)
  /\ open /\ toServer = << >> => received = sent

\* As long as the socket takes at once what is written and no packet is larger than its size
\* field can say, the client makes of the bytes what the server wrote; an answer that is the
\* request itself still has the request's encryption (asyncWrite, generateOutgoingPacket).
ClientUnderstands ==
  ~late /\ (\A i \in DOMAIN written : ~Oversize(written[i])) =>
    /\ IsPrefix(understood, written)
    /\ toClient = << >> => understood = written
============================================================================
