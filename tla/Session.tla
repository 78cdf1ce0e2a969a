------------------------------- MODULE Session -------------------------------
(***************************************************************************)
(* What http_get_task does with the messages of a connection: hello, codec  *)
(* headers and wire chunks, the decoders and the buffers that live on from  *)
(* message to message and from connection to connection (main.c and         *)
(* snapcast_protocol_parser.c).                                            *)
(*                                                                         *)
(* The audio is a sequence of blocks, numbered modulo Span; the timestamp of*)
(* a chunk is the number of its first block.  A size counts words; a message *)
(* is as long as its header says.                                          *)
(***************************************************************************)
EXTENDS Naturals, Sequences, SequencesExt

CONSTANTS
  Sizes,      \* bound: the sizes of wire chunks
  MaxBlocks,  \* bound: FLAC frames in one wire chunk
  Span,       \* bound: block numbers
  Formats     \* sample formats

ASSUME SessionAssumption ==
  /\ Sizes \subseteq Nat \ {0} /\ MaxBlocks \in Nat \ {0}
  /\ Span \in Nat /\ Span > 2 * MaxBlocks

Codecs == {"opus", "flac", "pcm"}
NULL == 0

VARIABLES
  pc,          \* where http_get_task is
  stream,      \* what the server sends: its codec, format and next block
  helloKept,   \* hello_message_serialized # NULL
  helloSent,   \* what the server got as hello message
  header,      \* received_codec_header
  codec,
  decoders,    \* which of opusDecoder and flacDecoder are not NULL
  inData,      \* size of the buffer decoderChunk.inData, or NULL
  backlog,     \* blocks inside the FLAC decoder, not yet written
  pcmData,     \* the PCM chunk being assembled
  set,         \* scSet
  out,         \* history: the last chunk given to insert_pcm_chunk
  fault        \* history: what went wrong with decoder or input buffer

client == <<header, codec, decoders, inData, backlog, pcmData, set>>
vars == <<pc, stream, helloKept, helloSent, client, out, fault>>

\* 0 is the format scSet starts with.
Default == [codec |-> "none", fmt |-> 0]

\* Block n + k.
Plus(n, k) == (n + k) % Span

\* The next k blocks from n on.
Blocks(n, k) == [i \in 1..k |-> Plus(n, i - 1)]

\* A PCM chunk: its payload's size; do the samples start on a word?
NoChunk == [size |-> NULL, aligned |-> TRUE]

\* Nothing was handed over since the decoder was set up.
Nothing == [blocks |-> <<>>, time |-> 0, chunk |-> NoChunk, wire |-> NULL]

Init ==
  /\ pc = "keep"
  /\ stream \in [codec : Codecs, fmt : Formats, next : {0}]
  /\ helloKept = FALSE /\ helloSent = "none"
  /\ header = FALSE /\ codec = "none" /\ decoders = {}
  /\ inData = NULL /\ backlog = <<>> /\ pcmData = NoChunk
  /\ set = Default /\ out = Nothing /\ fault = "none"

-----------------------------------------------------------------------------
(* Connecting *)

\* Mutant: a lost connection leaves received_codec_header set.
KeepHeader ==
  /\ pc = "keep"
  /\ decoders' = {} /\ inData' = NULL /\ backlog' = <<>>
  /\ pc' = "hello"
  /\ UNCHANGED <<stream, helloKept, helloSent, header, codec, pcmData, set, out,
                 fault>>

\* "do some house keeping": decoders and input buffer are released, then
\* setup_network returns with a connection.
HouseKeeping ==
  /\ pc = "keep"
  /\ header' = FALSE /\ decoders' = {} /\ inData' = NULL /\ backlog' = <<>>
  /\ pc' = "hello"
  /\ UNCHANGED <<stream, helloKept, helloSent, codec, pcmData, set, out, fault>>

\* The hello message is serialised, and its size set, unless there is one left
\* from an attempt that failed; the size is 0 then.
Serialized == IF helloKept THEN "empty" ELSE "full"

\* netconn_write fails, the serialised message is kept.
HelloFails ==
  /\ pc = "hello"
  /\ helloKept' = TRUE
  /\ pc' = "keep"
  /\ UNCHANGED <<stream, helloSent, client, out, fault>>

\* Mutant: the serialised message is kept after it was sent, too.
HelloKept ==
  /\ pc = "hello"
  /\ helloSent' = Serialized /\ helloKept' = TRUE
  /\ set' = Default
  /\ out' = Nothing
  /\ stream' \in [codec : Codecs, fmt : Formats, next : {stream.next}]
  /\ pc' = "read"
  /\ UNCHANGED <<header, codec, decoders, inData, backlog, pcmData, fault>>

\* The hello message is sent; the server may stream something else by now.
Hello ==
  /\ pc = "hello"
  /\ helloSent' = Serialized /\ helloKept' = FALSE
  /\ set' = Default
  /\ out' = Nothing
  /\ stream' \in [codec : Codecs, fmt : Formats, next : {stream.next}]
  /\ pc' = "read"
  /\ UNCHANGED <<header, codec, decoders, inData, backlog, pcmData, fault>>

-----------------------------------------------------------------------------
(* Codec headers *)

\* parse_codec_header_message and codec_header_received: the old decoders go,
\* a new one is set up.  A FLAC header goes through inData into its decoder,
\* which reports the format; scSet.codec is set for the others only.
CodecHeader(c, f) ==
  /\ pc = "read"
  /\ stream' = [stream EXCEPT !.codec = c, !.fmt = f]
  /\ header' = TRUE /\ codec' = c
  /\ decoders' = {c} \cap {"opus", "flac"} /\ backlog' = <<>>
  /\ set' = [codec |-> IF c = "flac" THEN set.codec ELSE c, fmt |-> f]
  /\ fault' = IF c = "flac" /\ inData # NULL THEN "lost buffer" ELSE fault
  /\ inData' = IF c = "flac" THEN NULL ELSE inData
  /\ out' = Nothing
  /\ UNCHANGED <<pc, helloKept, helloSent, pcmData>>

\* A codec that is not supported, or the connection ends within the header.
CodecHeaderFails ==
  /\ pc = "read"
  /\ header' = FALSE
  /\ codec' \in Codecs \cup {"none"}
  /\ pc' = "keep"
  /\ UNCHANGED <<stream, helloKept, helloSent, decoders, inData, backlog,
                 pcmData, set, out, fault>>

-----------------------------------------------------------------------------
(* Wire chunks *)

\* Without a codec header a wire chunk is skipped.
SkipChunk ==
  /\ pc = "read" /\ ~header
  /\ stream' = [stream EXCEPT !.next = Plus(@, 1)]
  /\ UNCHANGED <<pc, helloKept, helloSent, client, out, fault>>

\* Mutant: the input buffer is one word too large.
InputExtra(n) == IF inData = NULL THEN n + 1 ELSE inData

\* decoderChunk.inData for a payload of n words: allocated unless there is one.
Input(n) == IF inData = NULL THEN n ELSE inData

\* What can go wrong while a wire chunk of n words is read: a PCM payload is put
\* into the chunk that is there, whatever its size ...
ReadFault(n) ==
  CASE codec = "none" -> "unsupported codec"
    [] codec = "pcm" /\ pcmData # NoChunk /\ pcmData.size < n -> "pcm overrun"
    [] codec # "pcm" /\ Input(n) < n -> "overrun"
    [] OTHER -> fault

\* ... and when it is decoded.
DecodeFault(n) ==
  IF codec \in {"opus", "flac"} \ decoders THEN "no decoder" ELSE ReadFault(n)

\* Where the task goes on; what the heap holds after a fault is not modelled.
GoOn(next) == pc' = IF fault' = "none" THEN next ELSE "broken"

\* The first attempts to decode a packet fail, or wait for memory: there is no
\* way out of the loops but success.  An opus packet may succeed with a larger
\* buffer; a FLAC decoder that write_callback aborted never does.
DecodeFails(n) ==
  /\ pc = "read" /\ header /\ codec \in {"opus", "flac"}
  /\ fault' = DecodeFault(n)
  /\ inData' = Input(n)
  /\ GoOn("decode")
  /\ UNCHANGED <<stream, helloKept, helloSent, header, codec, decoders, backlog,
                 pcmData, set, out>>

\* The loop goes round again, or there is nothing more to say.
Stuck == pc \in {"decode", "broken"} /\ UNCHANGED vars

\* A wire chunk of n words with k blocks was read, and decoded unless it is PCM.
ChunkRead(n, k) ==
  /\ header /\ (pc = "read" \/ (pc = "decode" /\ inData = n))
  /\ stream' = [stream EXCEPT !.next = Plus(@, k)]
  /\ fault' = DecodeFault(n)
  /\ GoOn("read")

\* The chunk is given to insert_pcm_chunk if there was memory for it.
HandOver(chunk, memory) == out' = IF memory THEN chunk ELSE Nothing

\* Mutant: the input buffer is not freed after decoding.
OpusChunkKeeps(n, memory) ==
  /\ ChunkRead(n, 1) /\ codec = "opus"
  /\ HandOver([Nothing EXCEPT !.blocks = <<stream.next>>, !.time = stream.next],
              memory)
  /\ pcmData' = IF memory THEN pcmData ELSE NoChunk
  /\ inData' = Input(n)
  /\ UNCHANGED <<helloKept, helloSent, header, codec, decoders, backlog, set>>

\* OPUS: one packet, one chunk; the input buffer is freed.
OpusChunk(n, memory) ==
  /\ ChunkRead(n, 1) /\ codec = "opus"
  /\ HandOver([Nothing EXCEPT !.blocks = <<stream.next>>, !.time = stream.next],
              memory)
  /\ pcmData' = IF memory THEN pcmData ELSE NoChunk
  /\ inData' = NULL
  /\ UNCHANGED <<helloKept, helloSent, header, codec, decoders, backlog, set>>

\* What the decoder writes while the k blocks of a chunk go in: the blocks left in
\* it (cached, as read_callback did not run yet), then the first j of the new ones.
Written(k, j) == backlog \o SubSeq(Blocks(stream.next, k), 1, j)

\* Mutant: the cached blocks do not move the timestamp.
Unrepaired(time) == time

\* The timestamp moves back by the cached blocks.
Repaired(time) == Plus(time, Span - Len(backlog))

\* Mutant: what is left in the decoder is flushed before the next chunk.
FlacChunkFlushes(n, k, j, memory) ==
  /\ ChunkRead(n, k) /\ codec = "flac"
  /\ HandOver([Nothing EXCEPT !.blocks = Blocks(stream.next, j),
                              !.time = stream.next], memory)
  /\ inData' = NULL /\ backlog' = <<>>
  /\ UNCHANGED <<helloKept, helloSent, header, codec, decoders, pcmData, set>>

\* FLAC: process_single is called until the input is used up, and j of the k
\* blocks are written then; read_callback frees the input buffer.
FlacChunk(n, k, j, memory) ==
  /\ ChunkRead(n, k) /\ codec = "flac"
  /\ HandOver([Nothing EXCEPT !.blocks = Written(k, j),
                              !.time = Repaired(stream.next)], memory)
  /\ backlog' = SubSeq(Blocks(stream.next, k), j + 1, k)
  /\ inData' = NULL
  /\ UNCHANGED <<helloKept, helloSent, header, codec, decoders, pcmData, set>>

\* The PCM chunk the words are put into: a new one, if there is memory for it,
\* or the one of a chunk that was not read to its end; the first word is then
\* complete after its first byte, and all others are shifted.
Assembled(n, memory) ==
  IF pcmData # NoChunk THEN [pcmData EXCEPT !.aligned = FALSE]
  ELSE IF memory THEN [size |-> n, aligned |-> TRUE] ELSE NoChunk

\* PCM: the chunk is assembled while it is read.
PcmChunk(n, memory) ==
  /\ ChunkRead(n, 1) /\ codec = "pcm"
  /\ LET chunk == Assembled(n, memory)
     IN HandOver([blocks |-> <<stream.next>>, time |-> stream.next,
                  chunk |-> chunk, wire |-> n], chunk # NoChunk)
  /\ pcmData' = NoChunk /\ inData' = NULL
  /\ UNCHANGED <<helloKept, helloSent, header, codec, decoders, backlog, set>>

\* The connection ends while a wire chunk is read, before or after it went wrong.
ChunkInterrupted(n, memory) ==
  /\ pc = "read" /\ header
  /\ stream' = [stream EXCEPT !.next = Plus(@, 1)]
  /\ fault' \in {fault, ReadFault(n)}
  /\ GoOn("keep")
  /\ inData' = Input(n)
  /\ pcmData' = IF codec = "pcm" THEN Assembled(n, memory) ELSE pcmData
  /\ UNCHANGED <<helloKept, helloSent, header, codec, decoders, backlog, set, out>>

\* ... or within or between other messages.
ConnectionLost ==
  /\ pc = "read"
  /\ pc' = "keep"
  /\ UNCHANGED <<stream, helloKept, helloSent, client, out, fault>>

-----------------------------------------------------------------------------
WireChunk(memory) ==
  \E n \in Sizes :
    \/ OpusChunk(n, memory) \/ PcmChunk(n, memory)
    \/ \E k \in 1..MaxBlocks : \E j \in 1..k : FlacChunk(n, k, j, memory)

Restarts ==
  \/ HelloFails \/ CodecHeaderFails \/ ConnectionLost
  \/ \E n \in Sizes, memory \in BOOLEAN : ChunkInterrupted(n, memory)

NewHeader == \E c \in Codecs, f \in Formats : CodecHeader(c, f)

Next ==
  \/ HouseKeeping \/ Hello \/ NewHeader \/ SkipChunk \/ Restarts
  \/ \E memory \in BOOLEAN : WireChunk(memory)
  \/ \E n \in Sizes : DecodeFails(n)
  \/ Stuck

Spec == Init /\ [][Next]_vars

\* The task runs.  A server that got a hello message sends a codec header and
\* chunks; one that got an empty hello ends the connection.  No decoder is fair:
\* nothing makes an attempt to decode succeed.
FairSpec ==
  /\ Spec
  /\ WF_vars(HouseKeeping) /\ WF_vars(Hello)
  /\ WF_vars(helloSent = "empty" /\ ConnectionLost)
  /\ WF_vars(helloSent = "full" /\ ~header /\ NewHeader)
  /\ WF_vars(helloSent = "full" /\ pc = "read" /\ WireChunk(TRUE))

-----------------------------------------------------------------------------
TypeOK ==
  /\ pc \in {"keep", "hello", "read", "decode", "broken"}
  /\ stream \in [codec : Codecs, fmt : Formats, next : 0..(Span - 1)]
  /\ helloKept \in BOOLEAN /\ helloSent \in {"none", "full", "empty"}
  /\ header \in BOOLEAN /\ codec \in Codecs \cup {"none"}
  /\ decoders \subseteq {"opus", "flac"} /\ inData \in Sizes \cup {NULL}
  /\ backlog \in Seq(0..(Span - 1))
  /\ pcmData \in [size : Sizes \cup {NULL}, aligned : BOOLEAN]
  /\ set \in [codec : Codecs \cup {"none"}, fmt : Formats \cup {0}]

\* "This should never happen" (snapcast_protocol_parser.c:169, main.c:984): no
\* wire chunk reaches a codec without its decoder, no input buffer is lost, and
\* each OPUS and FLAC packet fits the one it is read into.  A PCM chunk need not
\* fit: one that a lost connection left half read takes the next, however long
\* (snapcast_protocol_parser.c:115-159).
NoFault == fault \in {"none", "pcm overrun"}

\* While wire chunks are taken, codec, decoder and the settings the player is
\* told are those of the stream the server sends.
StreamKnown ==
  pc \in {"read", "decode"} /\ header =>
    /\ codec = stream.codec /\ set.fmt = stream.fmt
    /\ decoders = {codec} \cap {"opus", "flac"}

\* "alternating chunk sizes need time stamp repair" (main.c:845): a chunk starts
\* at its timestamp and its blocks follow each other.
ChunkOnTime ==
  out.blocks # <<>> =>
    \A i \in 1..Len(out.blocks) : out.blocks[i] = Plus(out.time, i - 1)

\* Within a stream the player gets every block once: a chunk goes on where the
\* last one ended.
Gapless ==
  [][(out # Nothing /\ out' \notin {out, Nothing})
       => Head(out'.blocks) = Plus(Last(out.blocks), 1)]_vars

\* A PCM chunk that is played is the wire chunk it came from: as long, and its
\* samples where they belong.
PcmIntact == out.chunk # NoChunk => out.chunk.size = out.wire /\ out.chunk.aligned

\* When the network is good and memory is there, and as long as no packet keeps
\* its decoder busy for ever and no PCM chunk overruns, the player is given
\* chunks again.  A hello message that a failed attempt left behind, and that goes
\* out empty, costs one more connection and no more.
Quiet == <>[][/\ ~HelloFails /\ ~WireChunk(FALSE)
              /\ helloSent = "full" => ~Restarts]_vars
Decodes == []<>(pc \notin {"decode", "broken"})
Resumes == Quiet /\ Decodes => []<>(out # Nothing)
===============================================================================
