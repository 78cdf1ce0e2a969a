---------------------------- MODULE SessionProofs ----------------------------
(***************************************************************************)
(* What Session keeps for all chunk sizes, numbers of FLAC frames and        *)
(* formats, over any interruption: its types, that every wire chunk finds its *)
(* decoder and every packet a buffer it fits, and that chunks carry the right *)
(* timestamps and follow each other without a gap.                           *)
(***************************************************************************)
EXTENDS Session, TLAPS

USE SessionAssumption DEF NULL

\* The housekeeping was done and leaves nothing of the last connection behind.
Tidy ==
  /\ pc \in {"hello", "read"} => inData = NULL
  /\ pc = "hello" => ~header
  /\ pc = "decode" => header /\ codec # "pcm"
  /\ fault = "none" \/ pc = "broken"
  /\ pc = "hello" \/ (pc = "read" /\ ~header) => backlog = <<>>

SInv == TypeOK /\ Tidy /\ StreamKnown /\ NoFault

-----------------------------------------------------------------------------
LEMMA PlusTypes ==
  ASSUME NEW n \in Nat, NEW k \in Nat
  PROVE  Plus(n, k) \in 0..(Span - 1)
BY DEF Plus

\* Addition of what is at most Span wraps around once or not at all.
LEMMA PlusWraps ==
  ASSUME NEW n \in 0..(Span - 1), NEW k \in 0..Span
  PROVE  Plus(n, k) = IF n + k < Span THEN n + k ELSE n + k - Span
<1>1. CASE n + k < Span
  BY <1>1 DEF Plus
<1>2. CASE n + k >= Span
  <2>1. n + k = Span * 1 + (n + k - Span) /\ n + k - Span \in 0..(Span - 1)
    BY <1>2
  <2> QED BY <1>2, <2>1 DEF Plus
<1> QED BY <1>1, <1>2

LEMMA PlusZero ==
  ASSUME NEW n \in 0..(Span - 1)
  PROVE  Plus(n, 0) = n
<1>1. 0 \in 0..Span /\ n + 0 = n /\ n < Span
  OBVIOUS
<1>2. Plus(n, 0) = IF n + 0 < Span THEN n + 0 ELSE n + 0 - Span
  BY <1>1, PlusWraps
<1> QED BY <1>1, <1>2

LEMMA BlocksTypes ==
  ASSUME NEW n \in Nat, NEW k \in Nat
  PROVE  /\ Blocks(n, k) \in Seq(0..(Span - 1)) /\ Len(Blocks(n, k)) = k
         /\ \A i \in 1..k : Blocks(n, k)[i] = Plus(n, i - 1)
<1>1. \A i \in 1..k : Plus(n, i - 1) \in 0..(Span - 1)
  BY PlusTypes
<1> QED BY <1>1 DEF Blocks

LEMMA SubSeqTypes ==
  ASSUME NEW S, NEW s \in Seq(S), NEW m \in 1..(Len(s) + 1), NEW n \in (m - 1)..Len(s)
  PROVE  /\ SubSeq(s, m, n) \in Seq(S) /\ Len(SubSeq(s, m, n)) = n - m + 1
         /\ \A i \in 1..(n - m + 1) : SubSeq(s, m, n)[i] = s[m + i - 1]
OBVIOUS

-----------------------------------------------------------------------------
(* Types, decoders and buffers                                               *)

LEMMA NoBlocks == <<>> \in Seq(0..(Span - 1))
OBVIOUS

LEMMA InitS == Init => SInv
<1> SUFFICES ASSUME Init PROVE SInv
  OBVIOUS
<1>1. stream \in [codec : Codecs, fmt : Formats, next : 0..(Span - 1)]
  BY DEF Init
<1>2. /\ pcmData \in [size : Sizes \cup {NULL}, aligned : BOOLEAN]
      /\ set \in [codec : Codecs \cup {"none"}, fmt : Formats \cup {0}]
  BY DEF Init, NoChunk, Default
<1>3. TypeOK
  BY <1>1, <1>2, NoBlocks DEF Init, TypeOK
<1>4. Tidy /\ StreamKnown /\ NoFault
  BY DEF Init, Tidy, StreamKnown, NoFault
<1> QED BY <1>3, <1>4 DEF SInv

\* What can go wrong with a wire chunk, whatever was left by earlier ones.
LEMMA OnlyOverrun ==
  ASSUME SInv, NEW n \in Sizes, header, pc = "read" \/ (pc = "decode" /\ inData = n)
  PROVE  /\ Input(n) = n /\ codec \in Codecs /\ fault = "none"
         /\ ReadFault(n) \in {"none", "pcm overrun"} /\ DecodeFault(n) = ReadFault(n)
         /\ codec # "pcm" => ReadFault(n) = "none"
<1>1. inData \in {NULL, n} /\ codec \in Codecs /\ fault = "none"
  BY DEF SInv, Tidy, StreamKnown, TypeOK
<1>2. codec \notin {"opus", "flac"} \ decoders /\ codec # "none"
  BY <1>1 DEF SInv, StreamKnown, Codecs
<1>3. Input(n) = n /\ ~(Input(n) < n)
  BY <1>1 DEF Input
<1>4. ReadFault(n) \in {"none", "pcm overrun"} /\ (codec # "pcm" => ReadFault(n) = "none")
  BY <1>1, <1>2, <1>3 DEF ReadFault
<1> QED BY <1>1, <1>2, <1>3, <1>4 DEF DecodeFault

\* What reading a wire chunk does to the stream, and what can go wrong.
LEMMA ChunkReads ==
  ASSUME SInv, NEW n \in Sizes, NEW k \in Nat, ChunkRead(n, k)
  PROVE  /\ stream' = [stream EXCEPT !.next = Plus(stream.next, k)]
         /\ stream' \in [codec : Codecs, fmt : Formats, next : 0..(Span - 1)]
         /\ stream'.codec = stream.codec /\ stream'.fmt = stream.fmt
         /\ stream'.next = Plus(stream.next, k)
         /\ pc \in {"read", "decode"} /\ header /\ codec \in Codecs
         /\ \/ fault' = "none" /\ pc' = "read"
            \/ fault' = "pcm overrun" /\ pc' = "broken"
<1>1. stream.next \in 0..(Span - 1) /\ Plus(stream.next, k) \in 0..(Span - 1)
  <2>1. stream.next \in 0..(Span - 1) /\ stream.next \in Nat
    BY DEF SInv, TypeOK
  <2> QED BY <2>1, PlusTypes
<1>2. /\ stream' = [stream EXCEPT !.next = Plus(stream.next, k)]
      /\ stream' \in [codec : Codecs, fmt : Formats, next : 0..(Span - 1)]
      /\ stream'.codec = stream.codec /\ stream'.fmt = stream.fmt
      /\ stream'.next = Plus(stream.next, k)
  BY <1>1 DEF ChunkRead, SInv, TypeOK
<1>3. fault' = DecodeFault(n) /\ pc' = (IF fault' = "none" THEN "read" ELSE "broken")
      /\ header /\ (pc = "read" \/ (pc = "decode" /\ inData = n))
  BY DEF ChunkRead, GoOn
<1>4. DecodeFault(n) \in {"none", "pcm overrun"} /\ codec \in Codecs
  BY <1>3, OnlyOverrun
<1> QED BY <1>2, <1>3, <1>4

LEMMA AssembledTypes ==
  ASSUME TypeOK, NEW n \in Sizes, NEW memory \in BOOLEAN
  PROVE  Assembled(n, memory) \in [size : Sizes \cup {NULL}, aligned : BOOLEAN]
BY DEF TypeOK, Assembled, NoChunk

\* The blocks of a FLAC chunk that are written and those that stay behind.
LEMMA FlacBlocks ==
  ASSUME TypeOK, NEW k \in 1..MaxBlocks, NEW j \in 1..k
  PROVE  LET n == stream.next
             rest == SubSeq(Blocks(n, k), j + 1, k)
             b == Len(backlog)
         IN /\ rest \in Seq(0..(Span - 1)) /\ Len(rest) = k - j
            /\ \A i \in 1..(k - j) : rest[i] = Plus(n, j + i - 1)
            /\ Written(k, j) \in Seq(0..(Span - 1)) /\ Len(Written(k, j)) = b + j
            /\ \A i \in 1..b : Written(k, j)[i] = backlog[i]
            /\ \A i \in 1..j : Written(k, j)[b + i] = Plus(n, i - 1)
<1> DEFINE n == stream.next
           all == Blocks(n, k)
           first == SubSeq(all, 1, j)
           rest == SubSeq(all, j + 1, k)
<1>1. n \in Nat /\ k \in Nat /\ backlog \in Seq(0..(Span - 1))
  BY DEF TypeOK
<1>2. /\ all \in Seq(0..(Span - 1)) /\ Len(all) = k
      /\ \A i \in 1..k : all[i] = Plus(n, i - 1)
  BY <1>1, BlocksTypes
<1> HIDE DEF all
<1>3. /\ first \in Seq(0..(Span - 1)) /\ Len(first) = j
      /\ \A i \in 1..j : first[i] = Plus(n, i - 1)
  <2>1. /\ first \in Seq(0..(Span - 1)) /\ Len(first) = j - 1 + 1
        /\ \A i \in 1..(j - 1 + 1) : first[i] = all[1 + i - 1]
    BY <1>2, SubSeqTypes
  <2> QED BY <1>2, <2>1
<1>4. /\ rest \in Seq(0..(Span - 1)) /\ Len(rest) = k - j
      /\ \A i \in 1..(k - j) : rest[i] = Plus(n, j + i - 1)
  <2>1. /\ rest \in Seq(0..(Span - 1)) /\ Len(rest) = k - (j + 1) + 1
        /\ \A i \in 1..(k - (j + 1) + 1) : rest[i] = all[(j + 1) + i - 1]
    BY <1>2, SubSeqTypes
  <2> QED BY <1>2, <2>1
<1> HIDE DEF first, rest
<1>5. Written(k, j) = backlog \o first
  BY DEF Written, first, all
<1>6. /\ Written(k, j) \in Seq(0..(Span - 1)) /\ Len(Written(k, j)) = Len(backlog) + j
      /\ \A i \in 1..Len(backlog) : Written(k, j)[i] = backlog[i]
      /\ \A i \in 1..j : Written(k, j)[Len(backlog) + i] = first[i]
  <2> DEFINE S == 0..(Span - 1)
  <2>1. backlog \in Seq(S) /\ first \in Seq(S) /\ Len(first) = j
    BY <1>1, <1>3
  <2> HIDE DEF S
  <2>2. /\ backlog \o first \in Seq(S) /\ Len(backlog \o first) = Len(backlog) + Len(first)
        /\ \A i \in 1..Len(backlog) : (backlog \o first)[i] = backlog[i]
        /\ \A i \in 1..Len(first) : (backlog \o first)[Len(backlog) + i] = first[i]
    BY <2>1
  <2> QED BY <1>5, <2>1, <2>2 DEF S
<1> QED BY <1>3, <1>4, <1>6 DEF rest, all

LEMMA StepS == SInv /\ [Next]_vars => SInv'
<1> SUFFICES ASSUME SInv, [Next]_vars PROVE SInv'
  OBVIOUS
<1> USE DEF SInv
<1>1. CASE HouseKeeping
  BY <1>1, NoBlocks DEF HouseKeeping, TypeOK, Tidy, StreamKnown, NoFault
<1>2. CASE HelloFails
  BY <1>2 DEF HelloFails, TypeOK, Tidy, StreamKnown, NoFault, client
<1>3. CASE Hello
  <2>1. stream' \in [codec : Codecs, fmt : Formats, next : 0..(Span - 1)]
    BY <1>3 DEF Hello, TypeOK
  <2> QED BY <1>3, <2>1 DEF Hello, Serialized, Default, TypeOK, Tidy, StreamKnown, NoFault
<1>4. ASSUME NEW c \in Codecs, NEW f \in Formats, CodecHeader(c, f)
      PROVE  SInv'
  <2>1. /\ stream' \in [codec : Codecs, fmt : Formats, next : 0..(Span - 1)]
        /\ stream'.codec = c /\ stream'.fmt = f
    BY <1>4 DEF CodecHeader, TypeOK
  <2>2. /\ set' \in [codec : Codecs \cup {"none"}, fmt : Formats \cup {0}]
        /\ set'.fmt = f
    BY <1>4 DEF CodecHeader, TypeOK
  <2> QED BY <1>4, <2>1, <2>2 DEF CodecHeader, TypeOK, Tidy, StreamKnown, NoFault
<1>5. CASE CodecHeaderFails
  BY <1>5 DEF CodecHeaderFails, TypeOK, Tidy, StreamKnown, NoFault
<1>6. CASE SkipChunk
  <2>1. Plus(stream.next, 1) \in 0..(Span - 1)
    BY PlusTypes DEF TypeOK
  <2>2. stream' \in [codec : Codecs, fmt : Formats, next : 0..(Span - 1)]
    BY <1>6, <2>1 DEF SkipChunk, TypeOK
  <2> QED BY <1>6, <2>2 DEF SkipChunk, client, TypeOK, Tidy, StreamKnown, NoFault
<1>7. ASSUME NEW n \in Sizes, NEW memory \in BOOLEAN, OpusChunk(n, memory)
      PROVE  SInv'
  <2>1. ChunkRead(n, 1)
    BY <1>7 DEF OpusChunk
  <2>2. pcmData' \in [size : Sizes \cup {NULL}, aligned : BOOLEAN]
    BY <1>7 DEF OpusChunk, TypeOK, NoChunk
  <2>3. /\ stream' \in [codec : Codecs, fmt : Formats, next : 0..(Span - 1)]
        /\ stream'.codec = stream.codec /\ stream'.fmt = stream.fmt
        /\ pc \in {"read", "decode"} /\ header /\ codec \in Codecs
        /\ \/ fault' = "none" /\ pc' = "read"
           \/ fault' = "pcm overrun" /\ pc' = "broken"
    BY <2>1, ChunkReads
  <2>4. TypeOK'
    BY <1>7, <2>2, <2>3 DEF OpusChunk, TypeOK
  <2> QED BY <1>7, <2>3, <2>4 DEF OpusChunk, TypeOK, Tidy, StreamKnown, NoFault
<1>8. ASSUME NEW n \in Sizes, NEW memory \in BOOLEAN, PcmChunk(n, memory)
      PROVE  SInv'
  <2>1. ChunkRead(n, 1)
    BY <1>8 DEF PcmChunk
  <2>2. pcmData' \in [size : Sizes \cup {NULL}, aligned : BOOLEAN]
    BY <1>8 DEF PcmChunk, NoChunk
  <2>3. /\ stream' \in [codec : Codecs, fmt : Formats, next : 0..(Span - 1)]
        /\ stream'.codec = stream.codec /\ stream'.fmt = stream.fmt
        /\ pc \in {"read", "decode"} /\ header /\ codec \in Codecs
        /\ \/ fault' = "none" /\ pc' = "read"
           \/ fault' = "pcm overrun" /\ pc' = "broken"
    BY <2>1, ChunkReads
  <2>4. TypeOK'
    BY <1>8, <2>2, <2>3 DEF PcmChunk, TypeOK
  <2> QED BY <1>8, <2>3, <2>4 DEF PcmChunk, TypeOK, Tidy, StreamKnown, NoFault
<1>9. ASSUME NEW n \in Sizes, NEW memory \in BOOLEAN, NEW k \in 1..MaxBlocks,
             NEW j \in 1..k, FlacChunk(n, k, j, memory)
      PROVE  SInv'
  <2>1. ChunkRead(n, k) /\ k \in Nat
    BY <1>9 DEF FlacChunk
  <2>2. backlog' \in Seq(0..(Span - 1))
    BY <1>9, FlacBlocks DEF FlacChunk
  <2>3. /\ stream' \in [codec : Codecs, fmt : Formats, next : 0..(Span - 1)]
        /\ stream'.codec = stream.codec /\ stream'.fmt = stream.fmt
        /\ pc \in {"read", "decode"} /\ header /\ codec \in Codecs
        /\ \/ fault' = "none" /\ pc' = "read"
           \/ fault' = "pcm overrun" /\ pc' = "broken"
    BY <2>1, ChunkReads
  <2>4. TypeOK'
    BY <1>9, <2>2, <2>3 DEF FlacChunk, TypeOK
  <2> QED BY <1>9, <2>3, <2>4 DEF FlacChunk, TypeOK, Tidy, StreamKnown, NoFault
<1>10. ASSUME NEW n \in Sizes, NEW memory \in BOOLEAN, ChunkInterrupted(n, memory)
       PROVE  SInv'
  <2>1. pcmData' \in [size : Sizes \cup {NULL}, aligned : BOOLEAN]
    BY <1>10, AssembledTypes DEF ChunkInterrupted, TypeOK
  <2>2. Plus(stream.next, 1) \in 0..(Span - 1)
    BY PlusTypes DEF TypeOK
  <2>3. stream' \in [codec : Codecs, fmt : Formats, next : 0..(Span - 1)]
    BY <1>10, <2>2 DEF ChunkInterrupted, TypeOK
  <2>4. Input(n) = n /\ ReadFault(n) \in {"none", "pcm overrun"} /\ fault = "none"
    BY <1>10, OnlyOverrun DEF ChunkInterrupted
  <2>5. \/ fault' = "none" /\ pc' = "keep"
        \/ fault' = "pcm overrun" /\ pc' = "broken"
    BY <1>10, <2>4 DEF ChunkInterrupted, GoOn
  <2>6. TypeOK'
    BY <1>10, <2>1, <2>3, <2>4, <2>5 DEF ChunkInterrupted, TypeOK
  <2> QED BY <2>5, <2>6 DEF Tidy, StreamKnown, NoFault
<1>11. CASE ConnectionLost
  BY <1>11 DEF ConnectionLost, client, TypeOK, Tidy, StreamKnown, NoFault
<1>12. CASE UNCHANGED vars
  <2>1. TypeOK'
    BY <1>12 DEF vars, client, TypeOK
  <2>2. Tidy' /\ StreamKnown' /\ NoFault'
    BY <1>12 DEF vars, client, Tidy, StreamKnown, NoFault
  <2> QED BY <2>1, <2>2
<1>13. ASSUME NEW n \in Sizes, DecodeFails(n) PROVE SInv'
  <2>1. pc = "read" /\ header /\ codec # "pcm"
    BY <1>13 DEF DecodeFails
  <2>2. Input(n) = n /\ DecodeFault(n) = "none"
    BY <2>1, OnlyOverrun
  <2>3. fault' = "none" /\ pc' = "decode" /\ inData' = n
    BY <1>13, <2>2 DEF DecodeFails, GoOn
  <2> QED BY <1>13, <2>1, <2>3 DEF DecodeFails, TypeOK, Tidy, StreamKnown, NoFault
<1> QED BY <1>1, <1>2, <1>3, <1>4, <1>5, <1>6, <1>7, <1>8, <1>9, <1>10, <1>11, <1>12, <1>13
        DEF Stuck, Next, NewHeader, Restarts, WireChunk

\* The types hold in every reachable state.
THEOREM SessionTypes == Spec => []TypeOK
<1>1. Init => SInv BY InitS
<1>2. SInv /\ [Next]_vars => SInv' BY StepS
<1>3. SInv => TypeOK BY DEF SInv
<1> QED BY <1>1, <1>2, <1>3, PTL DEF Spec

\* However connections and messages end, no wire chunk reaches a codec without
\* its decoder, and no OPUS or FLAC packet overruns the buffer it is read into
\* (snapcast_protocol_parser.c:84, main.c:984); only a PCM chunk that a lost
\* connection left half read can be overrun, by the next one.
THEOREM NothingGoesWrong == Spec => []NoFault
<1>1. Init => SInv BY InitS
<1>2. SInv /\ [Next]_vars => SInv' BY StepS
<1>3. SInv => NoFault BY DEF SInv
<1> QED BY <1>1, <1>2, <1>3, PTL DEF Spec

\* While wire chunks are taken, codec, decoder and settings are the stream's
\* (main.c:1027-1076).
THEOREM StreamAlwaysKnown == Spec => []StreamKnown
<1>1. Init => SInv BY InitS
<1>2. SInv /\ [Next]_vars => SInv' BY StepS
<1>3. SInv => StreamKnown BY DEF SInv
<1> QED BY <1>1, <1>2, <1>3, PTL DEF Spec

-----------------------------------------------------------------------------
(* Timestamps                                                                *)

\* The number of the first block the decoder still has, or of the next one.
First == Plus(stream.next, Span - Len(backlog))

\* The blocks in s follow each other from number n on.
Run(s, n) == \A i \in 1..Len(s) : s[i] = Plus(n, i - 1)

\* While a stream is read, the decoder keeps less than a chunk, the blocks just
\* before the next one; and what was handed over last ends where they begin.
Linked ==
  pc \in {"read", "decode"} =>
    /\ Len(backlog) < MaxBlocks /\ Run(backlog, First)
    /\ codec # "flac" => backlog = <<>>
    /\ ~header => out = Nothing
    /\ out # Nothing => Plus(Last(out.blocks), 1) = First

\* The last chunk handed over.
Handed ==
  /\ out.blocks \in Seq(0..(Span - 1)) /\ out.time \in 0..(Span - 1)
  /\ Run(out.blocks, out.time)
  /\ out # Nothing => out.blocks # <<>>

CInv == SInv /\ Linked /\ Handed

LEMMA NothingHanded ==
  /\ Nothing.blocks = <<>> /\ Nothing.blocks \in Seq(0..(Span - 1))
  /\ Nothing.time \in 0..(Span - 1) /\ Run(Nothing.blocks, Nothing.time)
BY NoBlocks DEF Nothing, Run

LEMMA InitC == Init => CInv
<1> SUFFICES ASSUME Init PROVE CInv
  OBVIOUS
<1>1. Linked /\ Handed
  BY NothingHanded DEF Init, Linked, Handed
<1> QED BY <1>1, InitS DEF CInv

\* A chunk of one block, with nothing in the decoder.
LEMMA OneBlock ==
  ASSUME CInv, NEW n \in Sizes, NEW chunk, ChunkRead(n, 1),
         chunk.blocks = <<stream.next>>, chunk.time = stream.next,
         out' \in {chunk, Nothing}, codec # "flac",
         UNCHANGED <<header, codec, backlog>>
  PROVE  Linked' /\ Handed' /\ (out' # Nothing => Head(out'.blocks) = First)
<1> DEFINE m == stream.next
<1>1. /\ m \in 0..(Span - 1) /\ stream'.next = Plus(m, 1) /\ pc \in {"read", "decode"} /\ header
      /\ stream'.next \in 0..(Span - 1)
  BY ChunkReads, PlusTypes DEF CInv, SInv, TypeOK
<1>2. backlog' = <<>> /\ First' = stream'.next /\ First = m
  <2>1. backlog' = <<>> /\ backlog = <<>>
    BY <1>1 DEF CInv, Linked
  <2>2. First' = Plus(stream'.next, Span) /\ First = Plus(m, Span)
    BY <2>1 DEF First
  <2> QED BY <1>1, <2>1, <2>2, PlusWraps
<1>3. CASE out' = Nothing
  BY <1>1, <1>2, <1>3, NothingHanded DEF Linked, Handed, Run
<1>4. CASE out' = chunk
  <2>0. out'.blocks = <<m>> /\ out'.time = m
    BY <1>4
  <2>1. Last(out'.blocks) = m /\ Len(out'.blocks) = 1 /\ out'.blocks[1] = m
    BY <2>0 DEF Last
  <2>2. Plus(m, 0) = m
    BY <1>1, PlusZero
  <2>3. out'.blocks \in Seq(0..(Span - 1)) /\ out'.blocks # <<>>
    BY <1>1, <2>0
  <2>4. Handed'
    BY <1>1, <2>0, <2>1, <2>2, <2>3 DEF Handed, Run
  <2>5. Linked'
    BY <1>1, <1>2, <2>1 DEF Linked, Run
  <2>6. Head(out'.blocks) = First
    BY <1>2, <2>0
  <2> QED BY <2>4, <2>5, <2>6
<1> QED BY <1>3, <1>4

\* Adding and going back, by less than two chunks.
LEMMA PlusShifts ==
  ASSUME NEW n \in 0..(Span - 1), NEW a \in 0..MaxBlocks, NEW c \in 0..MaxBlocks
  PROVE  /\ Plus(Plus(n, a), c) = Plus(n, a + c)
         /\ Plus(Plus(n, Span - a), a + c) = Plus(n, c)
         /\ c <= a => Plus(Plus(n, a), Span - c) = Plus(n, a - c)
<1>1. Plus(n, a) \in 0..(Span - 1) /\ Plus(n, Span - a) \in 0..(Span - 1)
  <2>1. n \in Nat /\ a \in Nat /\ Span - a \in Nat
    OBVIOUS
  <2> QED BY <2>1, PlusTypes
<1>2. /\ Plus(n, a) = IF n + a < Span THEN n + a ELSE n + a - Span
      /\ Plus(n, Span - a) = IF n + (Span - a) < Span THEN n + (Span - a)
                                                     ELSE n + (Span - a) - Span
      /\ Plus(n, a + c) = IF n + (a + c) < Span THEN n + (a + c) ELSE n + (a + c) - Span
      /\ Plus(n, c) = IF n + c < Span THEN n + c ELSE n + c - Span
  BY PlusWraps
<1>3. Plus(Plus(n, a), c) = Plus(n, a + c)
  <2> DEFINE m == Plus(n, a)
  <2>1. Plus(m, c) = IF m + c < Span THEN m + c ELSE m + c - Span
    BY <1>1, PlusWraps
  <2> QED BY <1>2, <2>1
<1>4. Plus(Plus(n, Span - a), a + c) = Plus(n, c)
  <2> DEFINE m == Plus(n, Span - a)
  <2>1. Plus(m, a + c) = IF m + (a + c) < Span THEN m + (a + c) ELSE m + (a + c) - Span
    BY <1>1, PlusWraps
  <2> QED BY <1>2, <2>1
<1>5. ASSUME c <= a
      PROVE  Plus(Plus(n, a), Span - c) = Plus(n, a - c)
  <2> DEFINE m == Plus(n, a)
  <2>1. Plus(m, Span - c) = IF m + (Span - c) < Span THEN m + (Span - c)
                                                    ELSE m + (Span - c) - Span
    BY <1>1, PlusWraps
  <2>2. Plus(n, a - c) = IF n + (a - c) < Span THEN n + (a - c) ELSE n + (a - c) - Span
    BY <1>5, PlusWraps
  <2> QED BY <1>2, <1>5, <2>1, <2>2
<1> QED BY <1>3, <1>4, <1>5

\* A FLAC chunk: what the decoder had comes first, at its own time, and what it
\* keeps is linked to the next chunk.
LEMMA FlacSteps ==
  ASSUME CInv, NEW n \in Sizes, NEW memory \in BOOLEAN, NEW k \in 1..MaxBlocks,
         NEW j \in 1..k, FlacChunk(n, k, j, memory)
  PROVE  /\ Linked' /\ Handed'
         /\ out' # Nothing => Head(out'.blocks) = First
<1> DEFINE m == stream.next
           b == Len(backlog)
           w == Written(k, j)
           chunk == [Nothing EXCEPT !.blocks = w, !.time = Repaired(m)]
<1>1. /\ m \in 0..(Span - 1) /\ stream'.next = Plus(m, k) /\ pc \in {"read", "decode"}
      /\ header /\ header' /\ codec' = "flac" /\ codec = "flac"
  <2>1. ChunkRead(n, k) /\ k \in Nat /\ SInv
    BY DEF FlacChunk, CInv
  <2>2. stream'.next = Plus(m, k) /\ pc \in {"read", "decode"} /\ header
    BY <2>1, ChunkReads
  <2> QED BY <2>2 DEF FlacChunk, CInv, SInv, TypeOK
<1>2. b \in 0..MaxBlocks /\ b < MaxBlocks /\ Run(backlog, First)
  BY <1>1 DEF CInv, SInv, TypeOK, Linked
<1>3. First \in 0..(Span - 1) /\ Repaired(m) = First
  <2>1. m \in Nat /\ Span - b \in Nat
    BY <1>1, <1>2
  <2>2. Plus(m, Span - b) \in 0..(Span - 1)
    BY <2>1, PlusTypes
  <2> QED BY <2>2 DEF First, Repaired
<1>4. /\ backlog' \in Seq(0..(Span - 1)) /\ Len(backlog') = k - j
      /\ \A i \in 1..(k - j) : backlog'[i] = Plus(m, j + i - 1)
      /\ w \in Seq(0..(Span - 1)) /\ Len(w) = b + j
      /\ \A i \in 1..b : w[i] = backlog[i]
      /\ \A i \in 1..j : w[b + i] = Plus(m, i - 1)
  <2>1. TypeOK /\ backlog' = SubSeq(Blocks(m, k), j + 1, k)
    BY DEF FlacChunk, CInv, SInv
  <2> DEFINE rest == SubSeq(Blocks(m, k), j + 1, k)
  <2>2. /\ rest \in Seq(0..(Span - 1)) /\ Len(rest) = k - j
        /\ \A i \in 1..(k - j) : rest[i] = Plus(m, j + i - 1)
    BY <2>1, FlacBlocks
  <2>3. /\ w \in Seq(0..(Span - 1)) /\ Len(w) = b + j
        /\ \A i \in 1..b : w[i] = backlog[i]
        /\ \A i \in 1..j : w[b + i] = Plus(m, i - 1)
    BY <2>1, FlacBlocks
  <2>4. backlog' = rest
    BY <2>1
  <2> HIDE DEF rest, w
  <2> QED BY <2>2, <2>3, <2>4
<1> HIDE DEF w
<1>5. Run(w, First)
  <2> SUFFICES ASSUME NEW i \in 1..(b + j) PROVE w[i] = Plus(First, i - 1)
    BY <1>4 DEF Run
  <2>1. CASE i <= b
    BY <1>2, <1>4, <2>1 DEF Run
  <2>2. CASE i > b
    <3> DEFINE l == i - b
    <3>1. l \in 1..j /\ l - 1 \in 0..MaxBlocks /\ i = b + l
      BY <1>2, <2>2
    <3>2. w[b + l] = Plus(m, l - 1)
      BY <1>4, <3>1
    <3>3. Plus(First, b + (l - 1)) = Plus(m, l - 1)
      BY <1>1, <1>2, <3>1, PlusShifts DEF First
    <3>4. b + (l - 1) = i - 1 /\ b + l = i
      BY <1>2
    <3> QED BY <3>2, <3>3, <3>4
  <2> QED BY <1>2, <2>1, <2>2
<1>6. First' = Plus(m, j)
  <2>1. k \in 0..MaxBlocks /\ k - j \in 0..MaxBlocks /\ k - j <= k /\ k - (k - j) = j
    OBVIOUS
  <2>2. Plus(Plus(m, k), Span - (k - j)) = Plus(m, j)
    BY <1>1, <2>1, PlusShifts
  <2> QED BY <1>1, <1>4, <2>2 DEF First
<1>7. Run(backlog', First')
  <2> SUFFICES ASSUME NEW i \in 1..(k - j) PROVE backlog'[i] = Plus(Plus(m, j), i - 1)
    BY <1>4, <1>6 DEF Run
  <2>1. j \in 0..MaxBlocks /\ i - 1 \in 0..MaxBlocks /\ j + (i - 1) = j + i - 1
    OBVIOUS
  <2>2. Plus(Plus(m, j), i - 1) = Plus(m, j + (i - 1))
    BY <1>1, <2>1, PlusShifts
  <2> QED BY <1>4, <2>1, <2>2
<1>8. out' = IF memory THEN chunk ELSE Nothing
  BY DEF FlacChunk, HandOver, w
<1>9. CASE out' = Nothing
  BY <1>1, <1>4, <1>7, <1>9, NothingHanded DEF Linked, Handed
<1>10. CASE out' # Nothing
  <2>1. out'.blocks = w /\ out'.time = First
    BY <1>3, <1>8, <1>10 DEF Nothing
  <2>2. w # <<>> /\ Last(w) = Plus(m, j - 1) /\ Head(w) = w[1]
    <3>1. Last(w) = w[b + j] /\ b + j \in Nat /\ b + j # 0
      BY <1>2, <1>4 DEF Last
    <3> QED BY <1>4, <3>1
  <2>3. Plus(Last(w), 1) = First'
    <3>1. j - 1 \in 0..MaxBlocks /\ 1 \in 0..MaxBlocks /\ (j - 1) + 1 = j
      OBVIOUS
    <3>2. Plus(Plus(m, j - 1), 1) = Plus(m, (j - 1) + 1)
      BY <1>1, <3>1, PlusShifts
    <3> QED BY <1>6, <2>2, <3>1, <3>2
  <2>4. Head(w) = First
    <3>1. w[1] = Plus(First, 1 - 1)
      <4>1. 1 \in 1..Len(w)
        BY <1>2, <1>4
      <4> QED BY <1>5, <4>1 DEF Run
    <3> QED BY <1>3, <2>2, <3>1, PlusZero
  <2>5. Handed'
    BY <1>3, <1>4, <1>5, <2>1, <2>2 DEF Handed
  <2>6. Linked'
    BY <1>1, <1>4, <1>7, <2>1, <2>3 DEF Linked
  <2> QED BY <2>1, <2>4, <2>5, <2>6
<1> QED BY <1>9, <1>10
\* Any wire chunk that is read to its end.
LEMMA ChunkSteps ==
  ASSUME CInv, NEW memory \in BOOLEAN, WireChunk(memory)
  PROVE  /\ Linked' /\ Handed' /\ pc \in {"read", "decode"}
         /\ out' # Nothing => Head(out'.blocks) = First
<1>1. ASSUME NEW n \in Sizes, OpusChunk(n, memory)
      PROVE  Linked' /\ Handed' /\ pc \in {"read", "decode"} /\ (out' # Nothing => Head(out'.blocks) = First)
  <2> DEFINE chunk == [Nothing EXCEPT !.blocks = <<stream.next>>, !.time = stream.next]
  <2>1. chunk.blocks = <<stream.next>> /\ chunk.time = stream.next
    BY DEF Nothing
  <2>2. /\ out' \in {chunk, Nothing} /\ ChunkRead(n, 1) /\ codec # "flac"
        /\ UNCHANGED <<header, codec, backlog>> /\ pc \in {"read", "decode"}
    BY <1>1 DEF OpusChunk, HandOver, ChunkRead
  <2> HIDE DEF chunk
  <2> QED BY <2>1, <2>2, OneBlock
<1>2. ASSUME NEW n \in Sizes, PcmChunk(n, memory)
      PROVE  Linked' /\ Handed' /\ pc \in {"read", "decode"} /\ (out' # Nothing => Head(out'.blocks) = First)
  <2> DEFINE chunk == [blocks |-> <<stream.next>>, time |-> stream.next,
                       chunk |-> Assembled(n, memory), wire |-> n]
  <2>1. chunk.blocks = <<stream.next>> /\ chunk.time = stream.next
    OBVIOUS
  <2>2. /\ out' \in {chunk, Nothing} /\ ChunkRead(n, 1) /\ codec # "flac"
        /\ UNCHANGED <<header, codec, backlog>> /\ pc \in {"read", "decode"}
    BY <1>2 DEF PcmChunk, HandOver, ChunkRead
  <2> HIDE DEF chunk
  <2> QED BY <2>1, <2>2, OneBlock
<1>3. ASSUME NEW n \in Sizes, NEW k \in 1..MaxBlocks, NEW j \in 1..k,
             FlacChunk(n, k, j, memory)
      PROVE  Linked' /\ Handed' /\ pc \in {"read", "decode"} /\ (out' # Nothing => Head(out'.blocks) = First)
  BY <1>3, FlacSteps DEF FlacChunk, ChunkRead
<1> QED BY <1>1, <1>2, <1>3 DEF WireChunk

LEMMA StepC == CInv /\ [Next]_vars => CInv'
<1> SUFFICES ASSUME CInv, [Next]_vars PROVE CInv'
  OBVIOUS
<1>1. SInv'
  BY StepS DEF CInv
<1>2. Linked' /\ Handed'
  <2>1. ASSUME pc' \notin {"read", "decode"}, out' = out PROVE Linked' /\ Handed'
    BY <2>1 DEF CInv, Linked, Handed, Run
  <2>2. CASE HouseKeeping
    BY <2>1, <2>2 DEF HouseKeeping
  <2>3. CASE Hello
    <3>1. pc = "hello" /\ out' = Nothing /\ UNCHANGED <<header, codec, backlog>>
      BY <2>3 DEF Hello
    <3>2. backlog' = <<>> /\ ~header'
      BY <3>1 DEF CInv, SInv, Tidy
    <3> QED BY <3>1, <3>2, NothingHanded DEF Linked, Handed, Run
  <2>4. ASSUME NEW c \in Codecs, NEW f \in Formats, CodecHeader(c, f)
        PROVE  Linked' /\ Handed'
    <3>1. backlog' = <<>> /\ out' = Nothing /\ header'
      BY <2>4 DEF CodecHeader
    <3> QED BY <3>1, NothingHanded DEF Linked, Handed, Run
  <2>5. CASE SkipChunk
    <3>1. pc = "read" /\ ~header /\ UNCHANGED <<pc, header, codec, backlog, out>>
      BY <2>5 DEF SkipChunk, client
    <3>2. backlog = <<>> /\ out = Nothing
      BY <3>1 DEF CInv, SInv, Tidy, Linked
    <3> QED BY <3>1, <3>2, NothingHanded DEF Linked, Handed, Run
  <2>6. ASSUME NEW memory \in BOOLEAN, WireChunk(memory) PROVE Linked' /\ Handed'
    BY <2>6, ChunkSteps
  <2>7. CASE Restarts
    BY <2>1, <2>7 DEF Restarts, HelloFails, CodecHeaderFails, ConnectionLost, ChunkInterrupted,
                      GoOn, client
  <2>8. CASE UNCHANGED vars
    BY <2>8 DEF vars, client, CInv, Linked, Handed, Run, First
  <2>9. ASSUME NEW n \in Sizes, DecodeFails(n) PROVE Linked' /\ Handed'
    BY <2>9 DEF DecodeFails, CInv, Linked, Handed, Run, First
  <2> QED BY <2>2, <2>3, <2>4, <2>5, <2>6, <2>7, <2>8, <2>9 DEF Next, NewHeader, Stuck
<1> QED BY <1>1, <1>2 DEF CInv

\* "alternating chunk sizes need time stamp repair" (main.c:845): the repair is
\* right for any number of frames in a chunk and any number of them left over.
THEOREM ChunksOnTime == Spec => []ChunkOnTime
<1>1. Init => CInv BY InitC
<1>2. CInv /\ [Next]_vars => CInv' BY StepC
<1>3. CInv => ChunkOnTime BY DEF CInv, Handed, Run, ChunkOnTime
<1> QED BY <1>1, <1>2, <1>3, PTL DEF Spec

\* Within a stream a chunk goes on where the last one ended (main.c:846-1019).
THEOREM NoGaps == Spec => Gapless
<1>1. Init => CInv BY InitC
<1>2. CInv /\ [Next]_vars => CInv' BY StepC
<1>3. CInv /\ [Next]_vars =>
        [(out # Nothing /\ out' \notin {out, Nothing})
           => Head(out'.blocks) = Plus(Last(out.blocks), 1)]_vars
  <2> SUFFICES ASSUME CInv, [Next]_vars, out # Nothing, out' \notin {out, Nothing}
               PROVE  Head(out'.blocks) = Plus(Last(out.blocks), 1)
    OBVIOUS
  <2>1. PICK memory \in BOOLEAN : WireChunk(memory)
    BY DEF Next, NewHeader, Restarts, HouseKeeping, Hello, CodecHeader, SkipChunk, HelloFails,
           CodecHeaderFails, ConnectionLost, ChunkInterrupted, DecodeFails, Stuck, client,
           vars
  <2> QED BY <2>1, ChunkSteps DEF CInv, Linked
<1> QED BY <1>1, <1>2, <1>3, PTL DEF Spec, Gapless
=============================================================================
