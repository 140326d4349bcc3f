------------------------------- MODULE Framing -------------------------------
(***************************************************************************)
(* How messages cross a connection of the netty component: ProtostuffEncoder*)
(* writes a frame, a length of four bytes and the message; ProtostuffDecoder*)
(* finds the frames again in whatever pieces the bytes arrive.              *)
(*                                                                         *)
(* Bytes are counted and not stored: TCP keeps their order, so a position   *)
(* in the stream tells which byte it is.  ByteToMessageDecoder, which calls *)
(* decode for as long as it makes progress, is external.                   *)
(***************************************************************************)
EXTENDS Integers, Sequences

CONSTANTS Lengths,    \* the lengths of serialized messages
          MaxMessages \* bound: messages on one connection

ASSUME FramingAssumption == Lengths \subseteq Nat /\ MaxMessages \in Nat

VARIABLES stream,      \* the frames written so far: where each one begins, its
                       \* length and whether the receiver can deserialize it
          arrived,     \* how many bytes have arrived
          readerIndex, \* how many of them have been read
          decoding,    \* the event loop is in channelRead
          thrown,      \* decode has thrown since bytes arrived last
          decoded      \* the messages passed on

framingVars == <<stream, arrived, readerIndex, decoding, thrown, decoded>>

HEADER == 4

EndOf(f) == f.at + HEADER + f.length
Written == IF stream = <<>> THEN 0 ELSE EndOf(stream[Len(stream)])

FramingTypeOK ==
    /\ stream \in Seq([at : Nat, length : Lengths, readable : BOOLEAN])
    /\ Len(stream) <= MaxMessages
    /\ arrived \in 0 .. Written /\ readerIndex \in 0 .. arrived
    /\ decoding \in BOOLEAN /\ thrown \in BOOLEAN
    /\ decoded \in Seq(Nat)

FramingInit ==
    /\ stream = <<>> /\ arrived = 0 /\ readerIndex = 0
    /\ decoding = FALSE /\ thrown = FALSE /\ decoded = <<>>

----------------------------------------------------------------------------
\* The message is serialized and its frame written; when it cannot be
\* serialized encode throws before the first byte, and nothing changes.
Encode(l, ok) ==
    /\ Len(stream) < MaxMessages
    /\ stream' = Append(stream, [at |-> Written, length |-> l, readable |-> ok])
    /\ UNCHANGED <<arrived, readerIndex, decoding, thrown, decoded>>

\* Some more bytes arrive.
ReadBytes(n) ==
    /\ ~decoding /\ arrived + n <= Written
    /\ arrived' = arrived + n
    /\ decoding' = TRUE /\ thrown' = FALSE
    /\ UNCHANGED <<stream, readerIndex, decoded>>

readableBytes == arrived - readerIndex

FramesAt(p) == {i \in 1 .. Len(stream) : stream[i].at = p}

\* What readInt may return at the reader index: the length of the frame that
\* begins there, or anything if none does.
ReadInt == IF FramesAt(readerIndex) = {} THEN Lengths
           ELSE {stream[i].length : i \in FramesAt(readerIndex)}

\* A mutation: the reader index is not reset when the message is incomplete.
DecodeWithoutReset ==
    /\ decoding
    /\ \/ readableBytes < HEADER /\ UNCHANGED readerIndex
       \/ /\ readableBytes >= HEADER
          /\ \E l \in ReadInt : readableBytes - HEADER < l
          /\ readerIndex' = readerIndex + HEADER
    /\ decoding' = FALSE
    /\ UNCHANGED <<stream, arrived, thrown, decoded>>

\* decode returns without a message, since the length or the message is not
\* complete, and reads nothing: the loop ends.
DecodeNothing ==
    /\ decoding
    /\ \/ readableBytes < HEADER
       \/ readableBytes >= HEADER /\ \E l \in ReadInt : readableBytes - HEADER < l
    /\ decoding' = FALSE
    /\ UNCHANGED <<stream, arrived, readerIndex, thrown, decoded>>

\* A frame is complete: its message is passed on and the loop goes on, or
\* deserialize returns null, and the list of messages takes no null: decode
\* throws and the rest waits for more bytes to arrive.
DecodeFrame ==
    /\ decoding /\ readableBytes >= HEADER
    /\ \E l \in ReadInt :
           /\ readableBytes - HEADER >= l
           /\ readerIndex' = readerIndex + HEADER + l
    /\ \/ \E i \in FramesAt(readerIndex) :
              /\ stream[i].readable
              /\ decoded' = Append(decoded, i)
              /\ UNCHANGED <<decoding, thrown>>
       \/ /\ \A i \in FramesAt(readerIndex) : ~stream[i].readable
          /\ decoding' = FALSE /\ thrown' = TRUE
          /\ UNCHANGED decoded
    /\ UNCHANGED <<stream, arrived>>

FramingNext ==
    \/ \E l \in Lengths, ok \in BOOLEAN : Encode(l, ok)
    \/ \E n \in 1 .. Written - arrived : ReadBytes(n)
    \/ DecodeNothing \/ DecodeFrame

----------------------------------------------------------------------------
(* Properties.                                                             *)

(* In whatever pieces the bytes arrive, the reader stands between two       *)
(* frames and has passed on the readable messages before it, in the order   *)
(* in which they were sent, each one once.                                 *)
FramesAreMessages ==
    \E k \in 0 .. Len(stream) :
        /\ readerIndex = IF k = 0 THEN 0 ELSE EndOf(stream[k])
        /\ {decoded[j] : j \in DOMAIN decoded} = {i \in 1 .. k : stream[i].readable}
        /\ \A i, j \in DOMAIN decoded : i < j => decoded[i] < decoded[j]

(* When the event loop is done with what arrived no complete frame is left, *)
(* unless a message that cannot be deserialized ended the loop: those       *)
(* behind it wait for more bytes, although they are there                  *)
(* (ProtostuffDecoder.java:40-41).                                         *)
NoFrameWaits ==
    ~decoding /\ ~thrown =>
        \A i \in 1 .. Len(stream) :
            EndOf(stream[i]) <= arrived => EndOf(stream[i]) <= readerIndex

(* Both together: the receiver gets the sender's messages.                  *)
FramingIsSound == FramesAreMessages /\ NoFrameWaits
=============================================================================
