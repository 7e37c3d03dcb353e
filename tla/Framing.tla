------------------------------ MODULE Framing ------------------------------
(* transport_iroh.c: frames over one direction of a byte stream.  io_send     *)
(* writes a length header and then the body; io_recv reads the stream in      *)
(* whatever pieces it comes until it has a header, then until it has a body.  *)
(* The stream keeps its bytes in order but, once closed or cut, may lose the  *)
(* ones not yet read.                                                         *)
EXTENDS Naturals, Sequences

CONSTANTS HeaderBytes,   \* 4 in the code
          MaxFrame,      \* MB_SHARE_MAX_FRAME
          MaxBody,       \* bound: the largest body a sender is handed
          MaxSent        \* bound: frames sent
ASSUME FramingAssumption == /\ HeaderBytes \in Nat \ {0}
                            /\ {MaxFrame, MaxBody, MaxSent} \subseteq Nat

VARIABLES bodies,    \* sizes of the frames io_send was called for, in order
          sender,    \* "ready", "body" (header written), "failed"
          open,      \* the sender's side has not closed and the link is up
          stream,    \* bytes written and not yet read
          reader,    \* "header", "body" or "stopped"
          need,      \* size of the body being read
          buf,       \* bytes read of the current header or body
          taken, returned   \* frames, as the sequences of their bytes
streamVars == <<bodies, sender, open, stream, reader, need, buf, taken, returned>>

\* Byte i of frame n, counted from the first byte of its header.
Byte(n, i) == [frame |-> n, at |-> i]
Bytes(n, from, to) == [i \in 1 .. to - from + 1 |-> Byte(n, from + i - 1)]
HeaderOf(n) == Bytes(n, 1, HeaderBytes)
BodyOf(n, size) == Bytes(n, HeaderBytes + 1, HeaderBytes + size)
Body(n) == BodyOf(n, bodies[n])
Bodies == {BodyOf(n, size) : n \in 1 .. MaxSent, size \in 0 .. MaxBody}

StreamInit ==
  /\ bodies = << >> /\ sender = "ready" /\ open = TRUE /\ stream = << >>
  /\ reader = "header" /\ need = 0 /\ buf = << >>
  /\ taken = << >> /\ returned = << >>

UnchangedReader == UNCHANGED <<reader, need, buf, returned>>
UnchangedSender == UNCHANGED <<bodies, sender, taken, open>>

\* send_stream_write puts all of it in the stream, or fails after a part.
WriteHeader(size) ==
  /\ sender = "ready" /\ open /\ Len(bodies) < MaxSent
  /\ bodies' = Append(bodies, size)
  /\ LET n == Len(bodies) + 1 IN
       \/ /\ stream' = stream \o HeaderOf(n)
          /\ sender' = IF size = 0 THEN "ready" ELSE "body"
          /\ taken' = IF size = 0 THEN Append(taken, << >>) ELSE taken
       \/ /\ \E k \in 0 .. HeaderBytes - 1 : stream' = stream \o Bytes(n, 1, k)
          /\ sender' = "failed"
          /\ UNCHANGED taken
  /\ UNCHANGED open
  /\ UnchangedReader

WriteBody ==
  /\ sender = "body" /\ open
  /\ LET n == Len(bodies) IN
       \/ /\ stream' = stream \o Body(n)
          /\ sender' = "ready"
          /\ taken' = Append(taken, Body(n))
       \/ /\ \E k \in 0 .. bodies[n] - 1 :
                stream' = stream \o Bytes(n, HeaderBytes + 1, HeaderBytes + k)
          /\ sender' = "failed"
          /\ UNCHANGED taken
  /\ UNCHANGED <<bodies, open>>
  /\ UnchangedReader

\* t_close, which both callers also reach after a failed send, or the link going
\* down under a send in progress: a suffix of the unread bytes may be lost.
Finish ==
  /\ open
  /\ open' = FALSE
  /\ \E k \in 0 .. Len(stream) : stream' = SubSeq(stream, 1, k)
  /\ UNCHANGED <<bodies, sender, taken>>
  /\ UnchangedReader

\* read_exact: one recv_stream_read returns between one byte and all it asked for.
Wanted == (IF reader = "header" THEN HeaderBytes ELSE need) - Len(buf)
ReadSome(n) ==
  /\ reader # "stopped" /\ n \in 1 .. Wanted /\ n <= Len(stream)
  /\ buf' = buf \o SubSeq(stream, 1, n)
  /\ stream' = SubSeq(stream, n + 1, Len(stream))
  /\ UNCHANGED <<reader, need, returned>>
  /\ UnchangedSender

\* The length a full header buffer spells: the frame's own when the four bytes
\* are one frame's header, anything at all when they are not.
Lengths(h) == IF \E n \in DOMAIN bodies : h = HeaderOf(n)
                THEN {bodies[n] : n \in {m \in DOMAIN bodies : h = HeaderOf(m)}}
                ELSE 0 .. MaxBody

\* io_recv between its two reads: a length over the limit ends the session.
ReadLength ==
  /\ reader = "header" /\ Len(buf) = HeaderBytes
  /\ \E size \in Lengths(buf) :
       /\ need' = size
       /\ reader' = IF size > MaxFrame THEN "stopped" ELSE "body"
  /\ buf' = << >>
  /\ UNCHANGED <<stream, returned>>
  /\ UnchangedSender

ReturnShort ==  \* slip: one short read is taken for the whole body
  /\ reader = "body" /\ (need > 0 => buf # << >>)
  /\ returned' = Append(returned, buf)
  /\ reader' = "header" /\ buf' = << >> /\ need' = 0
  /\ UNCHANGED stream
  /\ UnchangedSender

ReturnNonEmpty ==  \* slip: a read of no bytes is waited for
  /\ reader = "body" /\ Len(buf) = need /\ need > 0
  /\ returned' = Append(returned, buf)
  /\ reader' = "header" /\ buf' = << >> /\ need' = 0
  /\ UNCHANGED stream
  /\ UnchangedSender

Return ==
  /\ reader = "body" /\ Len(buf) = need
  /\ returned' = Append(returned, buf)
  /\ reader' = "header" /\ buf' = << >> /\ need' = 0
  /\ UNCHANGED stream
  /\ UnchangedSender

\* recv_stream_read returns 0 or -1; the caller closes and reads no more.
ReadFails ==
  /\ reader # "stopped" /\ Wanted > 0
  /\ ~open /\ stream = << >>
  /\ reader' = "stopped" /\ buf' = << >>
  /\ UNCHANGED <<need, stream, returned>>
  /\ UnchangedSender

Read == (\E n \in 1 .. Wanted : ReadSome(n)) \/ ReadLength \/ Return \/ ReadFails
StreamNext == (\E size \in 0 .. MaxBody : WriteHeader(size)) \/ WriteBody \/ Finish \/ Read

\* The receiver sits in io_recv and takes what comes; a begun send goes on.
StreamFairness == WF_streamVars(Read) /\ WF_streamVars(WriteBody)
StreamSpec == StreamInit /\ [][StreamNext]_streamVars /\ StreamFairness
-----------------------------------------------------------------------------
\* The stream carries the transport contract, for frames within the limit: io_recv
\* returns exactly the bodies io_send took, in order and never a torn or shifted
\* one, however the stream was cut into reads, and gives up only after the end.
Channel == INSTANCE FrameChannel WITH Frames <- Bodies, Drains <- FALSE,
             accepted <- taken, delivered <- returned,
             closed <- ~open, ended <- reader = "stopped"
StreamImplementsFrameChannel == Channel!Spec

\* io_recv makes progress on whatever pieces the stream gives it, an empty body
\* included: each frame taken is returned unless the connection ends first.
EveryFrameArrives == \A n \in 1 .. MaxSent :
  (Len(taken) >= n) ~> (Len(returned) >= n \/ reader = "stopped")

\* The receiver reports the end only of a connection that has ended.
EndsOnlyWhenClosed == reader = "stopped" => ~open
=============================================================================
