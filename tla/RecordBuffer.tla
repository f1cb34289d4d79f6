---------------------------- MODULE RecordBuffer ----------------------------
(***************************************************************************)
(* tls_web_server/tls/framing.py, byte by byte: frame_payload puts a       *)
(* big-endian length in front of a payload, TCP delivers the bytes in      *)
(* chunks of any size, and RecordBuffer gives the payloads back.  Its      *)
(* caller, feed_wire_data, feeds one chunk and pops until pop_record       *)
(* returns None; when pop_record raises the caller gives the session up.   *)
(* A definition Name_Change is Name with a bug a maintainer might          *)
(* introduce; the mutants of PROJECT.json put it in the place of Name.     *)
(*                                                                         *)
(* The number base and the header's length are parameters (256 and 4 in    *)
(* the code), so that a small instance reaches every boundary of both.     *)
(***************************************************************************)
EXTENDS Naturals, Sequences, SequencesExt

CONSTANTS
    Base,              \* values of a byte
    HeaderLen,         \* bytes of the length prefix
    MAX_RECORD_SIZE,   \* the longest payload pop_record accepts
    Payloads,          \* payloads the peer frames
    MaxFramed          \* bound: payloads framed

Byte == 0 .. Base - 1
Power[k \in 0 .. HeaderLen] == IF k = 0 THEN 1 ELSE Base * Power[k - 1]

ASSUME ConstantsAssumption ==
    /\ Base \in Nat \ {0, 1}
    /\ HeaderLen \in Nat \ {0}
    /\ MAX_RECORD_SIZE \in Nat
    /\ Payloads \subseteq Seq(Byte)
    /\ MaxFramed \in Nat
    \* struct.pack("!I", ...) can represent every length
    /\ \A p \in Payloads : Len(p) < Power[HeaderLen]

\* struct.pack("!I", n) and struct.unpack("!I", h)
Pack_NoCarry(n) == [i \in 1 .. HeaderLen |-> n \div Power[HeaderLen - i]]
Pack(n) == [i \in 1 .. HeaderLen |-> (n \div Power[HeaderLen - i]) % Base]
Unpack_LittleEndian(h) ==
    LET value[i \in 0 .. Len(h)] ==
            IF i = 0 THEN 0 ELSE value[i - 1] * Base + h[Len(h) + 1 - i]
    IN value[Len(h)]
Unpack(h) ==
    LET value[i \in 0 .. Len(h)] == IF i = 0 THEN 0 ELSE value[i - 1] * Base + h[i]
    IN value[Len(h)]

\* frame_payload does not look at MAX_RECORD_SIZE.
FramePayload(p) == Pack(Len(p)) \o p

VARIABLES
    framed,     \* history: payloads given to frame_payload
    stream,     \* bytes in flight
    buffer,     \* self._buffer
    draining,   \* the caller is in its loop over pop_record
    popped,     \* history: payloads pop_record returned
    refused     \* pop_record raised

vars == <<framed, stream, buffer, draining, popped, refused>>

TypeOK ==
    /\ framed \in Seq(Payloads)
    /\ stream \in Seq(Byte)
    /\ buffer \in Seq(Byte)
    /\ draining \in BOOLEAN
    /\ popped \in Seq(Seq(Byte))
    /\ refused \in BOOLEAN

Init ==
    /\ framed = <<>>
    /\ stream = <<>>
    /\ buffer = <<>>
    /\ draining = FALSE
    /\ popped = <<>>
    /\ refused = FALSE

Write(p) ==
    /\ Len(framed) < MaxFramed
    /\ framed' = Append(framed, p)
    /\ stream' = stream \o FramePayload(p)
    /\ UNCHANGED <<buffer, draining, popped, refused>>

\* feed: a chunk of n bytes.
Feed(n) ==
    /\ ~draining
    /\ ~refused
    /\ buffer' = buffer \o SubSeq(stream, 1, n)
    /\ stream' = SubSeq(stream, n + 1, Len(stream))
    /\ draining' = TRUE
    /\ UNCHANGED <<framed, popped, refused>>

\* pop_record: too short for the header, too long, too short for the payload,
\* or a payload.
HasHeader_OneMore(b) == Len(b) > HeaderLen
HasHeader(b) == Len(b) >= HeaderLen
Length(b) == Unpack(SubSeq(b, 1, HeaderLen))
Oversize_OrEqual(b) == HasHeader(b) /\ Length(b) >= MAX_RECORD_SIZE
Oversize(b) == HasHeader(b) /\ Length(b) > MAX_RECORD_SIZE
HasRecord(b) == HasHeader(b) /\ ~Oversize(b) /\ Len(b) >= HeaderLen + Length(b)

Payload(b) == SubSeq(b, HeaderLen + 1, HeaderLen + Length(b))
\* del self._buffer[: 4 + length]
Rest_KeepsHeader(b) == SubSeq(b, Length(b) + 1, Len(b))
Rest(b) == SubSeq(b, HeaderLen + Length(b) + 1, Len(b))

PopReturnsRecord ==
    /\ draining
    /\ HasRecord(buffer)
    /\ popped' = Append(popped, Payload(buffer))
    /\ buffer' = Rest(buffer)
    /\ UNCHANGED <<framed, stream, draining, refused>>

PopReturnsNone ==
    /\ draining
    /\ ~Oversize(buffer)
    /\ ~HasRecord(buffer)
    /\ draining' = FALSE
    /\ UNCHANGED <<framed, stream, buffer, popped, refused>>

PopRaises ==
    /\ draining
    /\ Oversize(buffer)
    /\ refused' = TRUE
    /\ draining' = FALSE
    /\ UNCHANGED <<framed, stream, buffer, popped>>

PopRecord == PopReturnsRecord \/ PopReturnsNone \/ PopRaises

Next ==
    \/ \E p \in Payloads : Write(p)
    \/ \E n \in 1 .. Len(stream) : Feed(n)
    \/ PopRecord

Spec == Init /\ [][Next]_vars

\* A caller that has bytes feeds them, and its loop runs to the end.
FairSpec ==
    /\ Spec
    /\ WF_vars(\E n \in 1 .. Len(stream) : Feed(n))
    /\ WF_vars(PopRecord)

-----------------------------------------------------------------------------
(* Properties *)

Wire(payloads) ==
    LET upTo[i \in 0 .. Len(payloads)] ==
            IF i = 0 THEN <<>> ELSE upTo[i - 1] \o FramePayload(payloads[i])
    IN upTo[Len(payloads)]

\* Chunking never moves a boundary: the payloads popped are the first ones
\* framed, and what is buffered and in flight is the wire form of the others.
BoundariesAreKept ==
    /\ IsPrefix(popped, framed)
    /\ buffer \o stream = Wire(SubSeq(framed, Len(popped) + 1, Len(framed)))

\* The state of the buffer, its type included; once pop_record has raised its
\* caller pops no more.
BufferInv == TypeOK /\ BoundariesAreKept /\ (refused => ~draining)

\* pop_record raises on a payload that is too long and on nothing else, so a
\* length is never read from the wrong bytes.
OnlyOversizeIsRefused ==
    refused => /\ Len(popped) < Len(framed)
               /\ Len(framed[Len(popped) + 1]) > MAX_RECORD_SIZE

\* When the caller's loop is over, no complete record is left behind to wait
\* for bytes that may never come.
NothingIsLeftBehind ==
    ~draining /\ ~refused /\ Len(popped) < Len(framed) =>
        Len(buffer) < Len(FramePayload(framed[Len(popped) + 1]))

\* Every payload framed arrives, unless one that is too long stands before it.
FramedIsPopped ==
    \A n \in 1 .. MaxFramed : Len(framed) >= n ~> Len(popped) >= n \/ refused
=============================================================================
