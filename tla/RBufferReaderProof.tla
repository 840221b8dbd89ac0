------------------------- MODULE RBufferReaderProof -------------------------
(***************************************************************************)
(* RBuffer::Read over any Reader, for every stream and every way it is     *)
(* cut: the loop of Extract(Reader) neither drops nor repeats a byte, and  *)
(* what Reads return is what Delivery promises.                            *)
(*                                                                         *)
(* A fragment that is in a Buffer or was handed out stands in the stream   *)
(* in front of what the cache holds; the one the parser has found stands   *)
(* at the front of it, so it is nowhere yet.                               *)
(***************************************************************************)
EXTENDS RBufferReader, RBufferProof

----------------------------------------------------------------------------
(* The inductive invariant *)

Typed ==
    /\ stream \in Streams /\ written \in stream.ends \cup {0} /\ closed \in BOOLEAN
    /\ fed \in 0..written /\ bs \in Seq(Token) /\ Len(bs) <= Mtu
    /\ exit \in BOOLEAN /\ got \in BOOLEAN
    /\ loop \in {"idle", "buffer", "read", "feed", "parse"}
    /\ want \in Known /\ ret \in {OK, INSUFFICIENT, CHECKSUM}
    /\ buffers \in [Keys -> Buffers]
    /\ delivered \in Seq([types : Known, buffer : Buffers])

\* What was read and not parsed yet: the chunk counts until it is fed.
Chunk == IF loop = "feed" THEN bs ELSE <<>>
Held  == rb.buffer \o Chunk
Edge == fed - Len(Held)

Located == IsTail(Held, Upto(stream.bytes, fed))

\* The parser runs for the loop only, and what it found is fetched at once.  Where
\* nothing is asked of the Reader, nothing was left in `bs' that Extract would get
\* a second time.
Found   == loop = "parse" /\ pc = "caller" /\ ret = OK
Control ==
    /\ pc # "caller" => loop = "parse"
    /\ loop \in {"idle", "buffer", "read"} => ret # OK
    /\ Found => rb.checksum # -1 /\ IntactAt(rb.buffer, 0)
    /\ (more = 0 /\ loop \in {"read", "feed", "parse"})
          => bs = <<>> \/ (loop = "parse" /\ pc = "caller" /\ ret # INSUFFICIENT)

\* Every Buffer is filed under the key of its fragments, those that were handed out
\* were complete and of the class that was asked for.
Kept ==
    /\ Filed(buffers)
    /\ \A n \in DOMAIN delivered :
          /\ Complete(delivered[n].buffer)
          /\ \E id \in TID : FiledUnder(delivered[n].buffer, <<delivered[n].types, id>>)

IInv == Typed /\ ParserInv(Token) /\ Located /\ Control /\ Kept

\* A fragment is in one place: ahead in the stream, in a Buffer, or handed out.
Parsed(f) == \E p \in Places(stream.bytes) :
                 p < Edge /\ FragmentAt(stream.bytes, p).schema = <<f.msg, f.no>>

OnePlace ==
    \A f \in Fragments :
        /\ Holds(buffers[KeyOf(f)], f) => Parsed(f)
        /\ \A n \in DOMAIN delivered :
              Holds(delivered[n].buffer, f) => Parsed(f) /\ ~Holds(buffers[KeyOf(f)], f)
        /\ \A n1, n2 \in DOMAIN delivered :
              Holds(delivered[n1].buffer, f) /\ Holds(delivered[n2].buffer, f) => n1 = n2

LEMMA StreamsHaveLengths == Lengths(Token)
BY RBufferReaderAssumption DEF Lengths

LEMMA StreamIs ==
    ASSUME IInv
    PROVE  /\ stream.bytes \in Seq(Token) /\ rb.buffer \in Seq(Token) /\ bs \in Seq(Token)
           /\ Chunk \in Seq(Token) /\ Held \in Seq(Token)
           /\ Len(Held) = Len(rb.buffer) + Len(Chunk)
           /\ written \in Nat /\ written <= Len(stream.bytes)
           /\ fed \in Nat /\ fed <= written /\ fed \in 0..Len(stream.bytes)
           /\ Len(Held) <= fed /\ Edge \in Nat
<1>1. /\ stream.bytes \in Seq(Token) /\ stream.ends \subseteq 0..Len(stream.bytes)
      /\ bs \in Seq(Token) /\ rb.buffer \in Seq(Token)
  BY RBufferReaderAssumption DEF IInv, Typed, ParserInv, Fields
<1>2. written \in stream.ends \cup {0} /\ fed \in 0..written
  BY DEF IInv, Typed
<1>3. /\ written \in Nat /\ written <= Len(stream.bytes)
      /\ fed \in Nat /\ fed <= written /\ fed \in 0..Len(stream.bytes)
  BY <1>1, <1>2
<1>4. Chunk \in Seq(Token)
  BY <1>1 DEF Chunk
<1>5. Held \in Seq(Token) /\ Len(Held) = Len(rb.buffer) + Len(Chunk)
  BY <1>1, <1>4, ConcatProperties DEF Held
<1>6. Len(Upto(stream.bytes, fed)) = fed
  BY <1>1, <1>3, UptoIs
<1>7. Len(Held) <= fed
  BY <1>6 DEF IInv, Located, IsTail
<1>8. Edge \in Nat
  <2>1. Len(Held) \in Nat
    BY <1>5
  <2> QED
    BY <1>3, <1>7, <2>1 DEF Edge
<1> QED
  BY <1>1, <1>3, <1>4, <1>5, <1>7, <1>8

LEMMA ParserStays ==
    ASSUME ParserInv(Token), UNCHANGED parser
    PROVE  ParserInv(Token)'
<1>1. rb' = rb /\ more' = more /\ ret' = ret /\ pc' = pc
  BY DEF parser
<1> QED
  BY <1>1 DEF ParserInv, Fields, MagicKnown, HeadKnown, PayloadKnown, ChecksumKnown, Stage

\* EnterExtract and ReaderRead set `more' and leave the RBuffer alone.
LEMMA AsksOther ==
    ASSUME ParserInv(Token), rb' = rb, ret' = ret, pc' = pc, more' \in Nat
    PROVE  ParserInv(Token)'
BY DEF ParserInv, Fields, MagicKnown, HeadKnown, PayloadKnown, ChecksumKnown, Stage

\* What is held stays where it is in the stream.
LEMMA HeldStays ==
    ASSUME IInv, stream' = stream, fed' = fed, rb' = rb, Chunk' = Chunk
    PROVE  Located' /\ Edge' = Edge
BY DEF IInv, Located, Held, Edge

\* The RBuffer takes the chunk over, or drops what it parsed.
LEMMA HeldAhead ==
    ASSUME IInv, stream' = stream, fed' = fed, rb'.buffer \in Seq(Token), Chunk' = <<>>,
           IsTail(rb'.buffer, Held)
    PROVE  Located' /\ Edge' \in Nat /\ Edge <= Edge' /\ Edge' = fed - Len(rb'.buffer)
<1>1. Held' = rb'.buffer
  BY DEF Held
<1>2. stream.bytes \in Seq(Token) /\ Held \in Seq(Token) /\ fed \in 0..Len(stream.bytes)
  BY StreamIs
<1>3. Upto(stream.bytes, fed) \in Seq(Token) /\ IsTail(Held, Upto(stream.bytes, fed))
  BY <1>2, UptoIs DEF IInv, Located
<1>4. IsTail(rb'.buffer, Upto(stream.bytes, fed))
  BY <1>2, <1>3, TailOfTail
<1>5. Located'
  BY <1>1, <1>4 DEF Located
<1>6. Edge' = fed - Len(rb'.buffer)
  BY <1>1 DEF Edge
<1>7. Len(rb'.buffer) <= Len(Held)
  BY DEF IsTail
<1>8. Edge <= Edge' /\ Edge' \in Nat
  <2>1. Len(rb'.buffer) \in Nat /\ Len(Held) \in Nat /\ fed \in Nat /\ Len(Held) <= fed
    BY <1>2, StreamIs
  <2> QED
    BY <1>6, <1>7, <2>1 DEF Edge
<1> QED
  BY <1>5, <1>6, <1>8

LEMMA KeptStays ==
    ASSUME Kept, buffers' = buffers, delivered' = delivered
    PROVE  Kept'
BY DEF Kept, Filed

----------------------------------------------------------------------------
(* Extract asks for something, unless it could return or was asked nothing *)

LEMMA Asks ==
    ASSUME NEW T, NEW bytes \in Seq(T), NEW m \in Nat
    PROVE  Ask(bytes, m) \in Nat /\ (Ask(bytes, m) = 0 => m = 0)
<1>1. Len(bytes) \in Nat /\ MinHeader \in Nat
  BY RBufferAssumption
<1> QED
  BY <1>1 DEF Ask

LEMMA DetectMagicAsks ==
    ASSUME NEW T, NEW cache \in Seq(T), NEW data \in Seq(T), NEW m \in Nat, NEW skip \in Nat,
           DetectMagic(cache, data, m, skip)
    PROVE  more' = 0 => m = 0
<1>1. Detected(cache, data, skip) \in Seq(T)
  BY DetectedIs
<1>2. more' = Ask(Detected(cache, data, skip), m)
  BY DEF DetectMagic
<1> QED
  BY <1>1, <1>2, Asks

LEMMA CallAsks ==
    ASSUME NEW T, ParserInv(T), NEW data \in Seq(T), NEW m \in Nat, Call(data, m)
    PROVE  more' = 0 => m = 0
<1>1. rb.buffer \in Seq(T) /\ rb.buffer \o data \in Seq(T) /\ 0 \in Nat
  BY ConcatProperties DEF ParserInv, Fields
<1>2. CASE rb.magic >= 0
  <2>1. more' = Ask(rb.buffer \o data, m)
    BY <1>2 DEF Call
  <2> QED
    BY <1>1, <2>1, Asks
<1>3. CASE ~(rb.magic >= 0)
  <2>1. DetectMagic(rb.buffer, data, m, 0)
    BY <1>3 DEF Call
  <2> QED
    BY <1>1, <2>1, DetectMagicAsks
<1> QED
  BY <1>2, <1>3

LEMMA StepAsks ==
    ASSUME NEW T, Lengths(T), ParserInv(T), Step
    PROVE  more' = 0 => more = 0 \/ (pc' = "caller" /\ ret' \in {OK, CHECKSUM})
<1>1. /\ rb.buffer \in Seq(T) /\ more \in Nat /\ Size \in Nat
      /\ MinHeader \in Nat \ {0} /\ Huge \in Nat \ {0}
  BY RBufferAssumption DEF ParserInv, Fields, Size
<1>2. CASE ParseHeads
  <2>1. \/ more' = more
        \/ Size < MinHeader /\ more' = MinHeader - Size
        \/ more' = MinHeader
        \/ more' = Huge
    BY <1>2 DEF ParseHeads, Goto, Return
  <2> QED
    BY <1>1, <2>1
<1>3. CASE ParsePayload
  <2>1. more' = more \/ (PayloadMissing > 0 /\ more' = PayloadMissing)
    BY <1>3 DEF ParsePayload, Goto, Return
  <2> QED
    BY <2>1
<1>4. CASE ParseChecksum
  BY <1>4 DEF ParseChecksum, Goto, Return
<1>5. CASE Validate
  BY <1>5 DEF Validate, Return
<1>6. CASE Again
  <2>1. DetectMagic(rb.buffer, <<>>, more, Len(Magic))
    BY <1>6 DEF Again
  <2>2. <<>> \in Seq(T) /\ Len(Magic) \in Nat
    BY RBufferAssumption
  <2> QED
    BY <1>1, <2>1, <2>2, DetectMagicAsks
<1> QED
  BY <1>2, <1>3, <1>4, <1>5, <1>6 DEF Step

----------------------------------------------------------------------------
(* Every step keeps it *)

LEMMA Initially ==
    ASSUME Init
    PROVE  IInv /\ OnePlace
<1>1. /\ stream \in Streams /\ written = 0 /\ closed = FALSE /\ fed = 0
      /\ bs = <<>> /\ exit = FALSE /\ got = FALSE /\ loop = "idle" /\ want \in Known
      /\ buffers = [k \in Keys |-> EmptyBuffer] /\ delivered = <<>>
      /\ rb = NewRBuffer /\ more = 0 /\ ret = INSUFFICIENT /\ pc = "caller"
  BY DEF Init
<1>2. /\ stream.bytes \in Seq(Token) /\ <<>> \in Seq(Token) /\ Len(<<>>) = 0
      /\ Mtu \in Nat /\ DOMAIN <<>> = {}
  BY <1>1, RBufferReaderAssumption
<1>3. Typed
  <2>1. 0 \in stream.ends \cup {0} /\ 0 \in 0..0 /\ 0 <= Mtu
    BY <1>2
  <2>2. buffers \in [Keys -> Buffers]
    BY <1>1, EmptyIsABuffer
  <2>3. delivered \in Seq([types : Known, buffer : Buffers])
    BY <1>1
  <2> QED
    BY <1>1, <1>2, <2>1, <2>2, <2>3 DEF Typed
<1>4. rb = [buffer |-> <<>>, magic |-> -1, heads_len |-> -1, payload |-> -1,
            payload_len |-> -1, checksum |-> -1, checksum_len |-> -1]
  BY <1>1 DEF NewRBuffer
<1>5. ParserInv(Token)
  <2>1. Fields(Token)
    BY <1>1, <1>2, <1>4 DEF Fields, Field
  <2>2. rb = Holding(rb.buffer) /\ rb.magic = -1
    BY <1>4 DEF Holding, NewRBuffer
  <2>3. MagicKnown
    BY <2>2 DEF MagicKnown
  <2>4. HeadKnown /\ PayloadKnown /\ ChecksumKnown
    BY <1>4 DEF HeadKnown, PayloadKnown, ChecksumKnown
  <2>5. Stage
    BY <1>1 DEF Stage
  <2> QED
    BY <2>1, <2>3, <2>4, <2>5 DEF ParserInv
<1>6. Located
  <2>1. Held = <<>>
    BY <1>1, <1>2, <1>4, ConcatEmptySeq DEF Held, Chunk
  <2>2. 0 \in 0..Len(stream.bytes)
    BY <1>2
  <2>3. Upto(stream.bytes, 0) \in Seq(Token) /\ Len(Upto(stream.bytes, 0)) = 0
    BY <1>2, <2>2, UptoIs
  <2>4. IsTail(<<>>, Upto(stream.bytes, 0))
    BY <1>2, <2>3, TailByElements
  <2> QED
    BY <1>1, <2>1, <2>4 DEF Located
<1>7. Control
  BY <1>1 DEF Control, Found, OK, INSUFFICIENT
<1>8. Kept
  BY <1>1, <1>2, EmptyIsABuffer DEF Kept, Filed
<1>9. OnePlace
  <2> SUFFICES ASSUME NEW f \in Fragments
               PROVE  ~Holds(buffers[KeyOf(f)], f) /\ DOMAIN delivered = {}
    BY DEF OnePlace
  <2>1. KeyOf(f) \in Keys
    BY FragmentType DEF KeyOf
  <2> QED
    BY <1>1, <2>1, EmptyIsABuffer
<1> QED
  BY <1>3, <1>5, <1>6, <1>7, <1>8, <1>9 DEF IInv

\* Steps that leave the stream behind the cache, the parser and the Buffers alone.
LEMMA QuietStep ==
    ASSUME IInv, stream' = stream, fed' = fed, UNCHANGED parser, Chunk' = Chunk,
           buffers' = buffers, delivered' = delivered, Typed', Control'
    PROVE  IInv' /\ Edge' = Edge
<1>1. rb' = rb
  BY DEF parser
<1>2. Located' /\ Edge' = Edge
  BY <1>1, HeldStays
<1>3. Kept'
  BY KeptStays DEF IInv
<1>4. ParserInv(Token)'
  BY ParserStays DEF IInv
<1> QED
  BY <1>2, <1>3, <1>4 DEF IInv

LEMMA PeerWriteKeeps ==
    ASSUME IInv, PeerWrite
    PROVE  IInv' /\ Edge' = Edge
<1>1. PICK e \in stream.ends : e > written /\ written' = e
  BY DEF PeerWrite
<1>2. /\ stream' = stream /\ closed' = closed /\ fed' = fed /\ bs' = bs /\ exit' = exit
      /\ got' = got /\ loop' = loop /\ want' = want /\ buffers' = buffers
      /\ delivered' = delivered /\ UNCHANGED parser
  BY DEF PeerWrite, history
<1>3. rb' = rb /\ more' = more /\ ret' = ret /\ pc' = pc
  BY <1>2 DEF parser
<1>4. Chunk' = Chunk
  BY <1>2 DEF Chunk
<1>5. fed \in 0..e
  <2>1. stream.ends \subseteq 0..Len(stream.bytes) /\ stream.bytes \in Seq(Token)
    BY RBufferReaderAssumption DEF IInv, Typed
  <2>2. e \in Int /\ fed \in Nat /\ fed <= written /\ written \in Nat
    BY <2>1, StreamIs
  <2> QED
    BY <1>1, <2>2
<1>6. Typed'
  BY <1>1, <1>2, <1>3, <1>5 DEF IInv, Typed
<1>7. Control'
  BY <1>2, <1>3 DEF IInv, Control, Found
<1> QED
  BY <1>2, <1>4, <1>6, <1>7, QuietStep

LEMMA PeerCloseKeeps ==
    ASSUME IInv, PeerClose
    PROVE  IInv' /\ Edge' = Edge
<1>1. /\ stream' = stream /\ written' = written /\ closed' = TRUE /\ fed' = fed /\ bs' = bs
      /\ exit' = exit /\ got' = got /\ loop' = loop /\ want' = want /\ buffers' = buffers
      /\ delivered' = delivered /\ UNCHANGED parser
  BY DEF PeerClose, history
<1>2. rb' = rb /\ more' = more /\ ret' = ret /\ pc' = pc
  BY <1>1 DEF parser
<1>3. Chunk' = Chunk
  BY <1>1 DEF Chunk
<1>4. Typed'
  BY <1>1, <1>2 DEF IInv, Typed
<1>5. Control'
  BY <1>1, <1>2 DEF IInv, Control, Found
<1> QED
  BY <1>1, <1>3, <1>4, <1>5, QuietStep

LEMMA CallReadKeeps ==
    ASSUME IInv, NEW t \in Known, CallRead(t)
    PROVE  IInv' /\ Edge' = Edge /\ delivered' = delivered
<1>1. /\ loop = "idle" /\ loop' = "buffer" /\ want' = t /\ got' = FALSE
      /\ stream' = stream /\ written' = written /\ closed' = closed /\ fed' = fed /\ bs' = bs
      /\ exit' = exit /\ buffers' = buffers /\ delivered' = delivered /\ UNCHANGED parser
  BY DEF CallRead, history, peer
<1>2. rb' = rb /\ more' = more /\ ret' = ret /\ pc' = pc
  BY <1>1 DEF parser
<1>3. Chunk' = Chunk
  BY <1>1 DEF Chunk
<1>4. Typed'
  BY <1>1, <1>2 DEF IInv, Typed
<1>5. Control'
  BY <1>1, <1>2 DEF IInv, Control, Found
<1> QED
  BY <1>1, <1>3, <1>4, <1>5, QuietStep

LEMMA ContinueKeeps ==
    ASSUME IInv, Continue
    PROVE  IInv' /\ Edge' = Edge /\ delivered' = delivered
<1>1. INSUFFICIENT # OK
  BY DEF INSUFFICIENT, OK
<1>2. /\ loop = "parse" /\ pc = "caller" /\ ret = INSUFFICIENT
      /\ loop' \in {"read", "buffer", "idle"} /\ delivered' = delivered
      /\ stream' = stream /\ written' = written /\ closed' = closed /\ fed' = fed /\ bs' = bs
      /\ exit' = exit /\ got' = got /\ want' = want /\ buffers' = buffers /\ UNCHANGED parser
  BY <1>1 DEF Continue, Answer, history, peer
<1>3. rb' = rb /\ more' = more /\ ret' = ret /\ pc' = pc
  BY <1>2 DEF parser
<1>4. Chunk' = Chunk
  BY <1>2 DEF Chunk
<1>5. Typed'
  BY <1>2, <1>3 DEF IInv, Typed
<1>6. Control'
  BY <1>1, <1>2, <1>3 DEF IInv, Control, Found
<1> QED
  BY <1>2, <1>4, <1>5, <1>6, QuietStep

LEMMA FailKeeps ==
    ASSUME IInv, Fail
    PROVE  IInv' /\ Edge' = Edge /\ delivered' = delivered
<1>1. CHECKSUM # OK
  BY DEF CHECKSUM, OK
<1>2. /\ loop = "parse" /\ pc = "caller" /\ ret = CHECKSUM
      /\ loop' = "idle" /\ delivered' = delivered
      /\ stream' = stream /\ written' = written /\ closed' = closed /\ fed' = fed /\ bs' = bs
      /\ exit' = exit /\ got' = got /\ want' = want /\ buffers' = buffers /\ UNCHANGED parser
  BY <1>1 DEF Fail, Answer, peer
<1>3. rb' = rb /\ more' = more /\ ret' = ret /\ pc' = pc
  BY <1>2 DEF parser
<1>4. Chunk' = Chunk
  BY <1>2 DEF Chunk
<1>5. Typed'
  BY <1>2, <1>3 DEF IInv, Typed
<1>6. Control'
  BY <1>1, <1>2, <1>3 DEF IInv, Control, Found
<1> QED
  BY <1>2, <1>4, <1>5, <1>6, QuietStep

LEMMA NothingAskedKeeps ==
    ASSUME IInv, NothingAsked
    PROVE  IInv' /\ Edge' = Edge /\ delivered' = delivered
<1>1. /\ loop = "read" /\ more = 0 /\ loop' = "feed"
      /\ stream' = stream /\ written' = written /\ closed' = closed /\ fed' = fed /\ bs' = bs
      /\ exit' = exit /\ got' = got /\ want' = want /\ buffers' = buffers
      /\ delivered' = delivered /\ UNCHANGED parser
  BY DEF NothingAsked, history, peer
<1>2. rb' = rb /\ more' = more /\ ret' = ret /\ pc' = pc
  BY <1>1 DEF parser
<1>3. bs = <<>>
  BY <1>1 DEF IInv, Control
<1>4. Chunk' = Chunk
  BY <1>1, <1>3 DEF Chunk
<1>5. Typed'
  BY <1>1, <1>2 DEF IInv, Typed
<1>6. Control'
  BY <1>1, <1>2, <1>3 DEF IInv, Control, Found
<1> QED
  BY <1>1, <1>4, <1>5, <1>6, QuietStep

LEMMA HandOutKeeps ==
    ASSUME IInv, NEW id \in TID, TakeBuffer(id)
    PROVE  IInv' /\ Edge' = Edge
<1>1. /\ loop = "buffer" /\ Complete(buffers[<<want, id>>]) /\ loop' = "idle"
      /\ delivered' = Append(delivered, [types |-> want, buffer |-> buffers[<<want, id>>]])
      /\ buffers' = [buffers EXCEPT ![<<want, id>>] = EmptyBuffer]
      /\ stream' = stream /\ written' = written /\ closed' = closed /\ fed' = fed /\ bs' = bs
      /\ exit' = exit /\ got' = got /\ want' = want /\ UNCHANGED parser
  BY DEF TakeBuffer, Answer, peer
<1>2. rb' = rb /\ more' = more /\ ret' = ret /\ pc' = pc
  BY <1>1 DEF parser
<1>3. want \in Known /\ <<want, id>> \in Keys
  BY RBufferReaderAssumption DEF IInv, Typed, Keys
<1> PICK b : b = buffers[<<want, id>>]
  OBVIOUS
<1>4. b \in Buffers /\ FiledUnder(b, <<want, id>>) /\ Complete(b)
  BY <1>1, <1>3 DEF IInv, Typed, Kept, Filed
<1> PICK d : d = [types |-> want, buffer |-> b]
  OBVIOUS
<1>5. d \in [types : Known, buffer : Buffers] /\ d.types = want /\ d.buffer = b
  BY <1>3, <1>4
<1>6. delivered \in Seq([types : Known, buffer : Buffers]) /\ delivered' = Append(delivered, d)
  BY <1>1 DEF IInv, Typed
<1>7. /\ delivered' \in Seq([types : Known, buffer : Buffers])
      /\ \A n \in DOMAIN delivered' :
            delivered'[n] = d \/ (n \in DOMAIN delivered /\ delivered'[n] = delivered[n])
  BY <1>5, <1>6
<1>8. Typed'
  <2>1. buffers' \in [Keys -> Buffers]
    BY <1>1, EmptyIsABuffer DEF IInv, Typed
  <2> QED
    BY <1>1, <1>2, <1>7, <2>1 DEF IInv, Typed
<1>9. Control'
  BY <1>1, <1>2 DEF IInv, Control, Found
<1>10. Kept'
  <2>1. Filed(buffers')
    BY <1>1, <1>3, EmptyIsABuffer DEF IInv, Typed, Kept, Filed
  <2>2. ASSUME NEW n \in DOMAIN delivered'
        PROVE  /\ Complete(delivered'[n].buffer)
               /\ \E i \in TID : FiledUnder(delivered'[n].buffer, <<delivered'[n].types, i>>)
    <3>1. CASE delivered'[n] = d
      BY <1>4, <1>5, <3>1
    <3>2. CASE n \in DOMAIN delivered /\ delivered'[n] = delivered[n]
      BY <3>2 DEF IInv, Kept
    <3> QED
      BY <1>7, <3>1, <3>2
  <2> QED
    BY <2>1, <2>2 DEF Kept
<1>11. Chunk' = Chunk
  BY <1>1 DEF Chunk
<1>12. Located' /\ Edge' = Edge
  BY <1>1, <1>2, <1>11, HeldStays
<1>13. ParserInv(Token)'
  BY <1>1, ParserStays DEF IInv
<1> QED
  BY <1>8, <1>9, <1>10, <1>12, <1>13 DEF IInv

LEMMA EnterExtractKeeps ==
    ASSUME IInv, EnterExtract
    PROVE  IInv' /\ Edge' = Edge /\ delivered' = delivered
<1>1. /\ loop = "buffer" /\ loop' = "read" /\ more' = Mtu
      /\ bs' = <<>> /\ exit' = FALSE /\ got' = FALSE
      /\ stream' = stream /\ written' = written /\ closed' = closed /\ fed' = fed
      /\ want' = want /\ buffers' = buffers /\ delivered' = delivered
      /\ rb' = rb /\ ret' = ret /\ pc' = pc
  BY DEF EnterExtract, history, peer
<1>2. Mtu \in Nat /\ Mtu # 0 /\ <<>> \in Seq(Token) /\ Len(<<>>) <= Mtu
  BY RBufferReaderAssumption
<1>3. Typed'
  BY <1>1, <1>2 DEF IInv, Typed
<1>4. Control'
  BY <1>1, <1>2 DEF IInv, Control, Found
<1>5. Chunk' = Chunk
  BY <1>1 DEF Chunk
<1>6. Located' /\ Edge' = Edge
  BY <1>1, <1>5, HeldStays
<1>7. ParserInv(Token)'
  BY <1>1, <1>2, AsksOther DEF IInv
<1>8. Kept'
  BY <1>1, KeptStays DEF IInv
<1> QED
  BY <1>1, <1>3, <1>4, <1>6, <1>7, <1>8 DEF IInv

LEMMA ReaderReadKeeps ==
    ASSUME IInv, NEW n \in 0..Mtu, ReaderRead(n)
    PROVE  IInv' /\ Edge' = Edge /\ delivered' = delivered
<1>1. /\ loop = "read" /\ more > 0 /\ n <= Mtu /\ n <= Unread
      /\ bs' = SubSeq(stream.bytes, fed + 1, fed + n) /\ fed' = fed + n
      /\ more' = (IF more < Mtu THEN more ELSE Mtu) /\ exit' = (exit \/ n = 0) /\ loop' = "feed"
      /\ stream' = stream /\ written' = written /\ closed' = closed /\ got' = got
      /\ want' = want /\ buffers' = buffers /\ delivered' = delivered
      /\ rb' = rb /\ ret' = ret /\ pc' = pc
  BY DEF ReaderRead, history, peer
<1>2. /\ stream.bytes \in Seq(Token) /\ rb.buffer \in Seq(Token) /\ fed \in Nat /\ written \in Nat
      /\ written <= Len(stream.bytes) /\ fed \in 0..Len(stream.bytes) /\ Mtu \in Nat \ {0}
      /\ n \in Nat
  BY StreamIs, RBufferReaderAssumption
<1>3. fed + n <= written
  BY <1>1, <1>2 DEF Unread
<1>4. fed + n <= Len(stream.bytes) /\ fed' \in 0..written
  BY <1>1, <1>2, <1>3
<1>5. /\ bs' \in Seq(Token) /\ Len(bs') = n
      /\ Upto(stream.bytes, fed') = Upto(stream.bytes, fed) \o bs'
  <2> DEFINE chunk == SubSeq(stream.bytes, fed + 1, fed + n)
  <2>0. stream.bytes \in Seq(Token) /\ fed \in Nat /\ n \in Nat /\ fed + n <= Len(stream.bytes)
    BY <1>2, <1>4
  <2>1. /\ chunk \in Seq(Token) /\ Len(chunk) = n
        /\ Upto(stream.bytes, fed + n) = Upto(stream.bytes, fed) \o chunk
    BY <2>0, UptoGrows
  <2> HIDE DEF chunk
  <2>2. bs' = chunk /\ fed' = fed + n
    BY <1>1 DEF chunk
  <2> QED
    BY <2>1, <2>2
<1>6. more \in Nat
  BY DEF IInv, ParserInv, Fields
<1>7. more' \in Nat /\ more' # 0
  BY <1>1, <1>2, <1>6
<1>8. Typed'
  BY <1>1, <1>4, <1>5 DEF IInv, Typed
<1>9. Control'
  BY <1>1, <1>7 DEF IInv, Control, Found
<1>10. ParserInv(Token)'
  BY <1>1, <1>7, AsksOther DEF IInv
<1>11. Kept'
  BY <1>1, KeptStays DEF IInv
<1>12. Held = rb.buffer /\ Held' = rb.buffer \o bs'
  BY <1>1, <1>2, ConcatEmptySeq DEF Held, Chunk
<1>13. Located'
  <2>1. Upto(stream.bytes, fed) \in Seq(Token) /\ IsTail(rb.buffer, Upto(stream.bytes, fed))
    BY <1>2, <1>12, UptoIs DEF IInv, Located
  <2>2. IsTail(rb.buffer \o bs', Upto(stream.bytes, fed) \o bs')
    BY <1>2, <1>5, <2>1, TailAppended
  <2> QED
    BY <1>1, <1>5, <1>12, <2>2 DEF Located
<1>14. Edge' = Edge
  <2>1. Len(rb.buffer \o bs') = Len(rb.buffer) + n
    BY <1>2, <1>5, ConcatProperties
  <2>2. Edge = fed - Len(rb.buffer) /\ Edge' = (fed + n) - Len(rb.buffer \o bs')
    BY <1>1, <1>12 DEF Edge
  <2>3. Len(rb.buffer) \in Nat
    BY <1>2
  <2> QED
    BY <1>2, <2>1, <2>2, <2>3
<1> QED
  BY <1>1, <1>8, <1>9, <1>10, <1>11, <1>13, <1>14 DEF IInv

LEMMA FeedKeeps ==
    ASSUME IInv, Feed
    PROVE  IInv' /\ Edge' \in Nat /\ Edge <= Edge' /\ delivered' = delivered
<1>1. /\ loop = "feed" /\ Call(bs, more) /\ loop' = "parse"
      /\ stream' = stream /\ written' = written /\ closed' = closed /\ fed' = fed /\ bs' = bs
      /\ exit' = exit /\ got' = got /\ want' = want /\ buffers' = buffers /\ delivered' = delivered
  BY DEF Feed, history, peer
<1>2. ParserInv(Token) /\ bs \in Seq(Token) /\ more \in Nat
  BY StreamIs DEF IInv, ParserInv, Fields
<1>3. /\ ParserInv(Token)' /\ IsTail(rb'.buffer, rb.buffer \o bs)
      /\ IF pc' = "caller" THEN ret' = INSUFFICIENT ELSE ret' = ret
  BY <1>1, <1>2, StreamsHaveLengths, CallStep
<1>4. more' = 0 => more = 0
  BY <1>1, <1>2, CallAsks
<1>5. rb'.buffer \in Seq(Token)
  BY <1>3 DEF ParserInv, Fields
<1>6. Held = rb.buffer \o bs /\ Chunk' = <<>>
  BY <1>1 DEF Held, Chunk
<1>7. Located' /\ Edge' \in Nat /\ Edge <= Edge'
  BY <1>1, <1>3, <1>5, <1>6, HeldAhead
<1>8. Typed'
  BY <1>1, <1>3 DEF IInv, Typed
<1>9. Control'
  <2>1. INSUFFICIENT # OK
    BY DEF INSUFFICIENT, OK
  <2>2. more = 0 => bs = <<>>
    BY <1>1 DEF IInv, Control
  <2> QED
    BY <1>1, <1>3, <1>4, <2>1, <2>2 DEF Control, Found
<1>10. Kept'
  BY <1>1, KeptStays DEF IInv
<1> QED
  BY <1>1, <1>3, <1>7, <1>8, <1>9, <1>10 DEF IInv

LEMMA ParseKeeps ==
    ASSUME IInv, Parse
    PROVE  IInv' /\ Edge' \in Nat /\ Edge <= Edge' /\ delivered' = delivered
<1>1. /\ loop = "parse" /\ Step /\ loop' = loop
      /\ stream' = stream /\ written' = written /\ closed' = closed /\ fed' = fed /\ bs' = bs
      /\ exit' = exit /\ got' = got /\ want' = want /\ buffers' = buffers /\ delivered' = delivered
  BY DEF Parse, locals, history, peer
<1>2. ParserInv(Token) /\ rb.buffer \in Seq(Token)
  BY DEF IInv, ParserInv, Fields
<1>3. /\ ParserInv(Token)' /\ IsTail(rb'.buffer, rb.buffer)
      /\ ret' \in {ret, OK, INSUFFICIENT, CHECKSUM}
      /\ (pc' = "caller" /\ ret' = OK) => rb'.checksum # -1 /\ IntactAt(rb'.buffer, 0)
  BY <1>1, <1>2, StreamsHaveLengths, StepKeeps
<1>4. more' = 0 => more = 0 \/ (pc' = "caller" /\ ret' \in {OK, CHECKSUM})
  BY <1>1, <1>2, StreamsHaveLengths, StepAsks
<1>5. rb'.buffer \in Seq(Token)
  BY <1>3 DEF ParserInv, Fields
<1>6. Held = rb.buffer /\ Chunk' = <<>>
  BY <1>1, <1>2, ConcatEmptySeq DEF Held, Chunk
<1>7. Located' /\ Edge' \in Nat /\ Edge <= Edge'
  BY <1>1, <1>3, <1>5, <1>6, HeldAhead
<1>8. Typed'
  BY <1>1, <1>3 DEF IInv, Typed
<1>9. Control'
  <2>1. OK # INSUFFICIENT /\ CHECKSUM # INSUFFICIENT
    BY DEF OK, INSUFFICIENT, CHECKSUM
  <2>2. pc # "caller"
    BY <1>1 DEF Step, ParseHeads, ParsePayload, ParseChecksum, Validate, Again
  <2>3. more = 0 => bs = <<>>
    BY <1>1, <2>2 DEF IInv, Control
  <2> QED
    BY <1>1, <1>3, <1>4, <2>1, <2>3 DEF Control, Found
<1>10. Kept'
  BY <1>1, KeptStays DEF IInv
<1> QED
  BY <1>1, <1>3, <1>7, <1>8, <1>9, <1>10 DEF IInv

\* What the parser found stands at the front of what is held; it is a fragment of a
\* message, and a fragment whose place is further back is another one.
LEMMA FoundAtEdge ==
    ASSUME IInv, Found
    PROVE  /\ Edge \in Places(stream.bytes) /\ Received \in Fragments
           /\ FragmentAt(stream.bytes, Edge).schema = <<Received.msg, Received.no>>
           /\ EndAt(rb.buffer, 0) \in 1..Len(rb.buffer) /\ Edge = fed - Len(rb.buffer)
           /\ ~Parsed(Received)
<1> PICK b, u, q : b = rb.buffer /\ u = stream.bytes /\ q = Edge
  OBVIOUS
<1>1. /\ u \in Seq(Token) /\ b \in Seq(Token) /\ fed \in Nat /\ fed \in 0..Len(u) /\ q \in Nat
      /\ Len(b) \in Nat
  BY StreamIs
<1>2. loop = "parse" /\ rb.checksum # -1 /\ IntactAt(b, 0) /\ ParserInv(Token)
  BY DEF IInv, Control, Found
<1>3. Held = b
  BY <1>1, <1>2, ConcatEmptySeq DEF Held, Chunk
<1>4. q = fed - Len(b) /\ q + Len(b) = fed /\ q + Len(b) <= Len(u)
  BY <1>1, <1>3 DEF Edge
<1>5. Agree(b, 0, u, q, Len(b))
  <2>1. IsTail(b, Upto(u, fed))
    BY <1>3 DEF IInv, Located
  <2>2. Agree(b, 0, u, fed - Len(b), Len(b))
    BY <1>1, <2>1, TailOfUpto
  <2> QED
    BY <1>4, <2>2
<1>6. IntactAt(u, q) /\ FragmentAt(u, q) = FragmentAt(b, 0) /\ EndAt(b, 0) \in 1..Len(b)
  BY <1>1, <1>2, <1>4, <1>5, StreamsHaveLengths, IntactInStream
<1>7. TheFragment = FragmentAt(u, q)
  BY <1>2, <1>6, StreamsHaveLengths, FragmentInFront
<1>8. q \in Places(u)
  <2>1. q \in 0..Len(u)
    BY <1>1, <1>4
  <2> QED
    BY <1>6, <2>1 DEF Places
<1>9. /\ \E m \in Message : \E i \in 1..Count[m] : FragmentAt(u, q).schema = <<m, i>>
      /\ \A p \in Places(u) : FragmentAt(u, p).schema = FragmentAt(u, q).schema => p = q
  BY <1>8, RBufferReaderAssumption DEF IInv, Typed
<1>10. PICK m \in Message : \E i \in 1..Count[m] : FragmentAt(u, q).schema = <<m, i>>
  BY <1>9
<1>11. PICK i \in 1..Count[m] : FragmentAt(u, q).schema = <<m, i>>
  BY <1>10
<1>12. Received = FragmentOf(m, i)
  BY <1>7, <1>11 DEF Received
<1>13. Received \in Fragments /\ Received.msg = m /\ Received.no = i
  BY <1>12 DEF Fragments, FragmentsOf, FragmentOf
<1>14. ~Parsed(Received)
  <2> SUFFICES ASSUME NEW p \in Places(u), p < q, FragmentAt(u, p).schema = <<m, i>>
               PROVE  FALSE
    BY <1>13 DEF Parsed
  <2>1. p = q
    BY <1>9, <1>11
  <2> QED
    BY <1>1, <2>1
<1> QED
  BY <1>4, <1>6, <1>8, <1>11, <1>13, <1>14

LEMMA PushFragmentKeeps ==
    ASSUME IInv, PushFragment
    PROVE  /\ IInv' /\ Edge' \in Nat /\ Edge < Edge' /\ delivered' = delivered /\ Found
           /\ buffers' = [buffers EXCEPT ![KeyOf(Received)] = Push(buffers[KeyOf(Received)], Received)]
<1> PICK g : g = Received
  OBVIOUS
<1>1. /\ loop = "parse" /\ pc = "caller" /\ ret = OK
      /\ buffers' = [buffers EXCEPT ![<<g.types, g.tid>>] = Push(buffers[<<g.types, g.tid>>], g)]
      /\ exit' \in BOOLEAN /\ got' \in BOOLEAN
      /\ bs' = <<>> /\ rb' = Holding(Behind) /\ loop' = "feed"
      /\ stream' = stream /\ written' = written /\ closed' = closed /\ fed' = fed
      /\ want' = want /\ delivered' = delivered /\ more' = more /\ ret' = ret /\ pc' = pc
  BY DEF PushFragment, Fragment, history, peer, IInv, Typed
<1>2. Found
  BY <1>1 DEF Found
<1>3. /\ g \in Fragments /\ EndAt(rb.buffer, 0) \in 1..Len(rb.buffer)
      /\ Edge = fed - Len(rb.buffer)
  BY <1>2, FoundAtEdge
<1>4. ParserInv(Token) /\ rb.checksum # -1 /\ more \in Nat /\ rb.buffer \in Seq(Token)
  BY <1>2 DEF IInv, Control, ParserInv, Fields
<1>5. /\ ParserInv(Token)' /\ IsTail(rb'.buffer, rb.buffer)
      /\ Len(rb'.buffer) = Len(rb.buffer) - EndAt(rb.buffer, 0)
  BY <1>1, <1>4, StreamsHaveLengths, CutOut
<1>6. rb'.buffer \in Seq(Token)
  BY <1>5 DEF ParserInv, Fields
<1>7. Held = rb.buffer /\ Chunk' = <<>>
  BY <1>1, <1>4, ConcatEmptySeq DEF Held, Chunk
<1>8. Located' /\ Edge' \in Nat /\ Edge' = fed - Len(rb'.buffer)
  BY <1>1, <1>5, <1>6, <1>7, HeldAhead
<1>9. Edge < Edge'
  <2> PICK l, e, f : l = Len(rb.buffer) /\ e = EndAt(rb.buffer, 0) /\ f = fed
    OBVIOUS
  <2>1. l \in Nat /\ e \in 1..l /\ f \in Nat
    BY <1>3, <1>4, StreamIs
  <2>2. Edge = f - l /\ Edge' = f - (l - e)
    BY <1>3, <1>5, <1>8
  <2> QED
    BY <2>1, <2>2
<1>10. buffers' \in [Keys -> Buffers] /\ Filed(buffers')
  <2>1. buffers \in [Keys -> Buffers] /\ Filed(buffers)
    BY DEF IInv, Typed, Kept
  <2> QED
    BY <1>1, <1>3, <2>1, PushIntoMap
<1>11. Typed'
  <2>1. <<>> \in Seq(Token) /\ Len(<<>>) <= Mtu
    BY RBufferReaderAssumption
  <2> QED
    BY <1>1, <1>10, <2>1 DEF IInv, Typed
<1>12. Control'
  BY <1>1 DEF IInv, Control, Found
<1>13. Kept'
  <2>1. Filed(buffers)'
    BY <1>10 DEF Filed
  <2> QED
    BY <1>1, <2>1 DEF IInv, Kept
<1> QED
  BY <1>1, <1>2, <1>5, <1>8, <1>9, <1>11, <1>12, <1>13 DEF IInv, KeyOf

LEMMA NextKeeps ==
    ASSUME IInv, [Next]_vars
    PROVE  /\ IInv' /\ Edge' \in Nat /\ Edge <= Edge' /\ stream' = stream
           /\ \/ buffers' = buffers /\ delivered' = delivered
              \/ PushFragment
              \/ \E id \in TID : TakeBuffer(id)
<1> DEFINE Goal == /\ IInv' /\ Edge' \in Nat /\ Edge <= Edge' /\ stream' = stream
                   /\ \/ buffers' = buffers /\ delivered' = delivered
                      \/ PushFragment
                      \/ \E id \in TID : TakeBuffer(id)
<1>0. Edge \in Nat
  BY StreamIs
<1>1. CASE PeerWrite
  <2>1. stream' = stream /\ buffers' = buffers /\ delivered' = delivered
    BY <1>1 DEF PeerWrite, history
  <2> QED
    BY <1>0, <1>1, <2>1, PeerWriteKeeps
<1>2. CASE PeerClose
  <2>1. stream' = stream /\ buffers' = buffers /\ delivered' = delivered
    BY <1>2 DEF PeerClose, history
  <2> QED
    BY <1>0, <1>2, <2>1, PeerCloseKeeps
<1>3. ASSUME NEW t \in Known, CallRead(t) PROVE Goal
  <2>1. stream' = stream /\ buffers' = buffers /\ delivered' = delivered
    BY <1>3 DEF CallRead, peer, history
  <2> QED
    BY <1>0, <1>3, <2>1, CallReadKeeps
<1>4. ASSUME NEW id \in TID, TakeBuffer(id) PROVE Goal
  <2>1. stream' = stream
    BY <1>4 DEF TakeBuffer, peer
  <2> QED
    BY <1>0, <1>4, <2>1, HandOutKeeps
<1>5. CASE EnterExtract
  <2>1. stream' = stream /\ buffers' = buffers /\ delivered' = delivered
    BY <1>5 DEF EnterExtract, peer, history
  <2> QED
    BY <1>0, <1>5, <2>1, EnterExtractKeeps
<1>6. ASSUME NEW n \in 0..Mtu, ReaderRead(n) PROVE Goal
  <2>1. stream' = stream /\ buffers' = buffers /\ delivered' = delivered
    BY <1>6 DEF ReaderRead, peer, history
  <2> QED
    BY <1>0, <1>6, <2>1, ReaderReadKeeps
<1>7. CASE NothingAsked
  <2>1. stream' = stream /\ buffers' = buffers /\ delivered' = delivered
    BY <1>7 DEF NothingAsked, peer, history
  <2> QED
    BY <1>0, <1>7, <2>1, NothingAskedKeeps
<1>8. CASE Feed
  <2>1. stream' = stream /\ buffers' = buffers /\ delivered' = delivered
    BY <1>8 DEF Feed, peer, history
  <2> QED
    BY <1>8, <2>1, FeedKeeps
<1>9. CASE Parse
  <2>1. stream' = stream /\ buffers' = buffers /\ delivered' = delivered
    BY <1>9 DEF Parse, locals, peer, history
  <2> QED
    BY <1>9, <2>1, ParseKeeps
<1>10. CASE PushFragment
  <2>1. stream' = stream
    BY <1>10 DEF PushFragment, peer
  <2>2. IInv' /\ Edge < Edge' /\ Edge' \in Nat
    BY <1>10, PushFragmentKeeps
  <2> QED
    BY <1>0, <1>10, <2>1, <2>2
<1>11. CASE Continue
  <2>1. stream' = stream /\ buffers' = buffers
    BY <1>11 DEF Continue, peer
  <2> QED
    BY <1>0, <1>11, <2>1, ContinueKeeps
<1>12. CASE Fail
  <2>1. stream' = stream /\ buffers' = buffers
    BY <1>12 DEF Fail, peer
  <2> QED
    BY <1>0, <1>12, <2>1, FailKeeps
<1>13. CASE UNCHANGED vars
  <2>1. /\ stream' = stream /\ written' = written /\ closed' = closed /\ fed' = fed /\ bs' = bs
        /\ exit' = exit /\ got' = got /\ loop' = loop /\ want' = want /\ buffers' = buffers
        /\ delivered' = delivered /\ UNCHANGED parser
    BY <1>13 DEF vars, locals, peer, history
  <2>2. rb' = rb /\ more' = more /\ ret' = ret /\ pc' = pc
    BY <2>1 DEF parser
  <2>3. Chunk' = Chunk
    BY <2>1 DEF Chunk
  <2>4. Typed'
    BY <2>1, <2>2 DEF IInv, Typed
  <2>5. Control'
    BY <2>1, <2>2 DEF IInv, Control, Found
  <2>6. IInv' /\ Edge' = Edge
    BY <2>1, <2>3, <2>4, <2>5, QuietStep
  <2> QED
    BY <1>0, <2>1, <2>6
<1> QED
  BY <1>1, <1>2, <1>3, <1>4, <1>5, <1>6, <1>7, <1>8, <1>9, <1>10, <1>11, <1>12, <1>13
     DEF Next, Reading

\* What was parsed stays parsed.
LEMMA StaysParsed ==
    ASSUME IInv, stream' = stream, Edge' \in Nat, Edge <= Edge', NEW f, Parsed(f)
    PROVE  Parsed(f)'
<1>1. PICK p \in Places(stream.bytes) :
         p < Edge /\ FragmentAt(stream.bytes, p).schema = <<f.msg, f.no>>
  BY DEF Parsed
<1>2. p \in Nat /\ Edge \in Nat
  BY <1>1, StreamIs DEF Places
<1>3. p < Edge'
  BY <1>1, <1>2
<1> QED
  BY <1>1, <1>3 DEF Parsed

\* pushFragment files a fragment that is nowhere yet, and Buffer() erases from the map
\* what it hands out (tssd.cc:269).
LEMMA NextOnePlace ==
    ASSUME IInv, OnePlace, [Next]_vars
    PROVE  OnePlace'
<1>1. /\ IInv' /\ Edge' \in Nat /\ Edge <= Edge' /\ stream' = stream
      /\ \/ buffers' = buffers /\ delivered' = delivered
         \/ PushFragment
         \/ \E id \in TID : TakeBuffer(id)
  BY NextKeeps
<1>2. ASSUME NEW f \in Fragments, Parsed(f) PROVE Parsed(f)'
  BY <1>1, <1>2, StaysParsed
<1>3. \A f \in Fragments : KeyOf(f) \in Keys
  BY FragmentType DEF KeyOf
<1>4. ASSUME buffers' = buffers, delivered' = delivered PROVE OnePlace'
  BY <1>2, <1>4 DEF OnePlace
<1>5. ASSUME PushFragment PROVE OnePlace'
  <2> PICK g : g = Received
    OBVIOUS
  <2>1. /\ Edge < Edge' /\ delivered' = delivered /\ Found
        /\ buffers' = [buffers EXCEPT ![KeyOf(g)] = Push(buffers[KeyOf(g)], g)]
    BY <1>5, PushFragmentKeeps
  <2>2. /\ Edge \in Places(stream.bytes) /\ g \in Fragments /\ ~Parsed(g)
        /\ FragmentAt(stream.bytes, Edge).schema = <<g.msg, g.no>>
    BY <2>1, FoundAtEdge
  <2>3. Parsed(g)'
    BY <1>1, <2>1, <2>2 DEF Parsed
  <2>4. KeyOf(g) \in Keys /\ buffers \in [Keys -> Buffers] /\ FiledUnder(buffers[KeyOf(g)], KeyOf(g))
    BY <1>3, <2>2 DEF IInv, Typed, Kept, Filed
  <2>5. \A f : Holds(Push(buffers[KeyOf(g)], g), f) => f = g \/ Holds(buffers[KeyOf(g)], f)
    BY <2>2, <2>4, PushFiles DEF KeyOf
  <2>6. ASSUME NEW f \in Fragments, Holds(buffers'[KeyOf(f)], f)
        PROVE  f = g \/ Holds(buffers[KeyOf(f)], f)
    BY <1>3, <2>1, <2>4, <2>5, <2>6
  <2>7. ASSUME NEW f \in Fragments, NEW n \in DOMAIN delivered, Holds(delivered[n].buffer, f)
        PROVE  f # g /\ Parsed(f) /\ ~Holds(buffers[KeyOf(f)], f)
    BY <2>2, <2>7 DEF OnePlace
  <2>8. ASSUME NEW f \in Fragments, Holds(buffers'[KeyOf(f)], f) PROVE Parsed(f)'
    <3>1. CASE f = g
      BY <2>3, <3>1
    <3>2. CASE Holds(buffers[KeyOf(f)], f)
      BY <1>2, <3>2 DEF OnePlace
    <3> QED
      BY <2>6, <2>8, <3>1, <3>2
  <2>9. ASSUME NEW f \in Fragments, NEW n \in DOMAIN delivered', Holds(delivered'[n].buffer, f)
        PROVE  Parsed(f)' /\ ~Holds(buffers'[KeyOf(f)], f)
    BY <1>2, <2>1, <2>6, <2>7, <2>9
  <2>10. ASSUME NEW f \in Fragments, NEW n1 \in DOMAIN delivered', NEW n2 \in DOMAIN delivered',
                Holds(delivered'[n1].buffer, f), Holds(delivered'[n2].buffer, f)
         PROVE  n1 = n2
    BY <2>1, <2>10 DEF OnePlace
  <2> QED
    BY <2>8, <2>9, <2>10 DEF OnePlace
<1>6. ASSUME NEW id \in TID, TakeBuffer(id) PROVE OnePlace'
  <2> PICK b : b = buffers[<<want, id>>]
    OBVIOUS
  <2> PICK last : last = Len(delivered) + 1
    OBVIOUS
  <2>1. /\ delivered' = Append(delivered, [types |-> want, buffer |-> b])
        /\ buffers' = [buffers EXCEPT ![<<want, id>>] = EmptyBuffer]
    BY <1>6 DEF TakeBuffer, Answer
  <2>2. /\ <<want, id>> \in Keys /\ buffers \in [Keys -> Buffers]
        /\ delivered \in Seq([types : Known, buffer : Buffers])
    BY RBufferReaderAssumption DEF IInv, Typed, Keys
  <2>3. FiledUnder(b, <<want, id>>)
    BY <2>2 DEF IInv, Kept, Filed
  <2>4. ASSUME NEW f \in Fragments, Holds(b, f)
        PROVE  KeyOf(f) = <<want, id>> /\ Holds(buffers[KeyOf(f)], f) /\ Parsed(f)
    <3>1. KeyOf(f) = <<want, id>>
      BY <2>3, <2>4 DEF FiledUnder, Holds, KeyOf
    <3>2. Holds(buffers[KeyOf(f)], f)
      BY <2>4, <3>1
    <3> QED
      BY <3>1, <3>2 DEF OnePlace
  <2>5. ASSUME NEW f \in Fragments, Holds(buffers'[KeyOf(f)], f)
        PROVE  KeyOf(f) # <<want, id>> /\ Holds(buffers[KeyOf(f)], f)
    BY <1>3, <2>1, <2>2, <2>5, EmptyIsABuffer
  <2>6. /\ DOMAIN delivered' = DOMAIN delivered \cup {last}
        /\ delivered'[last].buffer = b
        /\ \A n \in DOMAIN delivered : delivered'[n] = delivered[n] /\ n # last
    BY <2>1, <2>2
  <2>7. ASSUME NEW f \in Fragments, Holds(buffers'[KeyOf(f)], f) PROVE Parsed(f)'
    BY <1>2, <2>5, <2>7 DEF OnePlace
  <2>8. ASSUME NEW f \in Fragments, NEW n \in DOMAIN delivered', Holds(delivered'[n].buffer, f)
        PROVE  Parsed(f)' /\ ~Holds(buffers'[KeyOf(f)], f)
    <3>1. CASE n = last
      <4>1. Holds(b, f)
        BY <2>6, <2>8, <3>1
      <4> QED
        BY <1>2, <2>4, <2>5, <4>1
    <3>2. CASE n \in DOMAIN delivered
      <4>1. Holds(delivered[n].buffer, f)
        BY <2>6, <2>8, <3>2
      <4> QED
        BY <1>2, <2>5, <3>2, <4>1 DEF OnePlace
    <3> QED
      BY <2>6, <3>1, <3>2
  <2>9. ASSUME NEW f \in Fragments, NEW n1 \in DOMAIN delivered', NEW n2 \in DOMAIN delivered',
               Holds(delivered'[n1].buffer, f), Holds(delivered'[n2].buffer, f)
        PROVE  n1 = n2
    <3>1. \A n \in DOMAIN delivered : Holds(delivered[n].buffer, f) => ~Holds(b, f)
      BY <2>4 DEF OnePlace
    <3> QED
      BY <2>6, <2>9, <3>1 DEF OnePlace
  <2> QED
    BY <2>7, <2>8, <2>9 DEF OnePlace
<1> QED
  BY <1>1, <1>4, <1>5, <1>6

\* Both invariants hold in every state.
THEOREM Invariance ==
    Spec => [](IInv /\ OnePlace)
<1>1. IInv /\ OnePlace /\ [Next]_vars => IInv' /\ OnePlace'
  BY NextKeeps, NextOnePlace
<1> QED
  BY Initially, <1>1, PTL DEF Spec

\* The state has its type: Extract is called only by a loop that wants a fragment, and
\* no Read returns with one that was found and not fetched (tssd.cc:289-298).
THEOREM TypeCorrect ==
    Spec => []TypeOK
<1>1. IInv => TypeOK
  <2> SUFFICES ASSUME IInv PROVE TypeOK
    OBVIOUS
  <2>1. ASSUME NEW k \in Keys, NEW i \in DOMAIN buffers[k].frags
        PROVE  buffers[k].frags[i] \in Fragments
    BY DEF IInv, Kept, Filed, FiledUnder
  <2>2. more \in Nat
    BY DEF IInv, ParserInv, Fields
  <2> QED
    BY <2>1, <2>2 DEF TypeOK, IInv, Typed, Control
<1> QED
  BY Invariance, <1>1, PTL

\* Whatever the Reader hands out and Extract asks for, the cache and the chunk about to
\* be fed are the end of what was read: no byte is dropped or fed twice, not even
\* where the loop goes round without reading (tssd.cc:285-297).
THEOREM CacheIsAlwaysTail ==
    Spec => []CacheIsTail
<1>1. IInv => CacheIsTail
  <2> SUFFICES ASSUME IInv PROVE CacheIsTail
    OBVIOUS
  <2>1. /\ stream.bytes \in Seq(Token) /\ Held \in Seq(Token) /\ fed \in 0..Len(stream.bytes)
        /\ IsTail(Held, Upto(stream.bytes, fed))
    BY StreamIs DEF IInv, Located
  <2>2. Len(Held) <= fed /\ Held = SubSeq(stream.bytes, fed - Len(Held) + 1, fed)
    BY <2>1, TailOfUpto
  <2> QED
    BY <2>2 DEF CacheIsTail, Held, Chunk
<1> QED
  BY Invariance, <1>1, PTL

----------------------------------------------------------------------------
(* Reading implements Delivery *)

\* What Read returns for a complete Buffer of the class that was asked for: the whole
\* message the Buffer holds.
LEMMA ReadIsWhole ==
    ASSUME \A m \in Message : Good(m),
           NEW d, d.buffer \in Buffers, d.types \in Known, Complete(d.buffer),
           NEW id \in TID, FiledUnder(d.buffer, <<d.types, id>>)
    PROVE  Read(d) \in Message /\ Whole(d.buffer, Read(d))
<1> PICK b, t : b = d.buffer /\ t = d.types
  OBVIOUS
<1>1. <<t, id>> \in Keys
  BY RBufferReaderAssumption DEF Keys
<1> PICK m : m = b.frags[0].msg
  OBVIOUS
<1>2. m \in Message /\ Whole(b, m)
  BY <1>1, MessageOf
<1>3. TypesOf[m] = t
  <2>1. 0 \in DOMAIN b.frags /\ b.frags[0] = FragmentOf(m, 1)
    BY <1>2, WholeHoldsFirst
  <2>2. b.frags[0].types = t
    BY <2>1 DEF FiledUnder
  <2> QED
    BY <2>1, <2>2 DEF FragmentOf
<1>4. \E o \in Message : TypesOf[o] = d.types /\ Whole(d.buffer, o)
  BY <1>2, <1>3
<1>5. Read(d) = CHOOSE o \in Message : TypesOf[o] = d.types /\ Whole(d.buffer, o)
  BY <1>4 DEF Read
<1> QED
  BY <1>4, <1>5

LEMMA ReadsAreWhole ==
    ASSUME \A m \in Message : Good(m), IInv, NEW n \in DOMAIN delivered
    PROVE  Out[n] \in Message /\ Whole(delivered[n].buffer, Out[n])
<1>1. delivered[n] \in [types : Known, buffer : Buffers]
  <2>1. delivered \in Seq([types : Known, buffer : Buffers]) /\ DOMAIN delivered = 1..Len(delivered)
    BY DEF IInv, Typed
  <2> QED
    BY <2>1, ElementOfSeq
<1>2. PICK id \in TID : FiledUnder(delivered[n].buffer, <<delivered[n].types, id>>)
  BY DEF IInv, Kept
<1>3. Complete(delivered[n].buffer)
  BY DEF IInv, Kept
<1>4. Out[n] = Read(delivered[n])
  BY DEF Out
<1> QED
  BY <1>1, <1>2, <1>3, <1>4, ReadIsWhole

LEMMA RefinesInit == Init => D!Init
<1> SUFFICES ASSUME Init PROVE D!Init
  OBVIOUS
<1>1. delivered = <<>> /\ DOMAIN delivered = {}
  BY DEF Init
<1>2. Out = <<>>
  BY <1>1 DEF Out
<1>3. Pending = Message
  BY <1>2 DEF Pending
<1> QED
  BY <1>2, <1>3 DEF D!Init

LEMMA RefinesNext ==
    ASSUME \A m \in Message : Good(m), IInv, OnePlace, [Next]_vars
    PROVE  [D!Next]_<<Pending, Out>>
<1>1. CASE delivered' = delivered
  BY <1>1 DEF Out, Pending
<1>2. ASSUME NEW id \in TID, TakeBuffer(id) PROVE D!Next
  <2> PICK b : b = buffers[<<want, id>>]
    OBVIOUS
  <2> PICK d : d = [types |-> want, buffer |-> b]
    OBVIOUS
  <2> PICK last : last = Len(delivered) + 1
    OBVIOUS
  <2> PICK m : m = Read(d)
    OBVIOUS
  <2>1. Complete(b) /\ delivered' = Append(delivered, d)
    BY <1>2 DEF TakeBuffer, Answer
  <2>2. /\ <<want, id>> \in Keys /\ want \in Known
        /\ b \in Buffers /\ FiledUnder(b, <<want, id>>)
        /\ delivered \in Seq([types : Known, buffer : Buffers])
    BY RBufferReaderAssumption DEF IInv, Typed, Keys, Kept, Filed
  <2>3. d.buffer = b /\ d.types = want
    OBVIOUS
  <2>4. m \in Message /\ Whole(b, m)
    BY <2>1, <2>2, <2>3, ReadIsWhole
  <2>5. /\ DOMAIN delivered' = 1..last /\ DOMAIN delivered = 1..Len(delivered)
        /\ Len(delivered) \in Nat /\ delivered'[last] = d
        /\ \A n \in 1..Len(delivered) : delivered'[n] = delivered[n]
    BY <2>1, <2>2
  <2>6. \A n \in DOMAIN delivered : Out[n] \in Message /\ Whole(delivered[n].buffer, Out[n])
    BY ReadsAreWhole
  <2>7. ASSUME NEW n \in DOMAIN delivered, Out[n] = m PROVE FALSE
    <3> PICK f : f = FragmentOf(m, 1)
      OBVIOUS
    <3>1. Holds(b, f) /\ f \in Fragments
      BY <2>4, WholeHoldsFirst
    <3>2. Holds(delivered[n].buffer, f)
      BY <2>4, <2>6, <2>7, WholeHoldsFirst
    <3>3. KeyOf(f) = <<want, id>>
      BY <2>2, <3>1 DEF FiledUnder, Holds, KeyOf
    <3> QED
      BY <3>1, <3>2, <3>3 DEF OnePlace
  <2>8. /\ Out' = [n \in 1..last |-> IF n = last THEN m ELSE Out[n]]
        /\ Out \in Seq(Message) /\ Len(Out) = Len(delivered)
        /\ DOMAIN Out = 1..Len(delivered)
    <3>1. DOMAIN Out = 1..Len(delivered) /\ \A n \in 1..Len(delivered) : Out[n] = Read(delivered[n])
      BY <2>5 DEF Out
    <3>2. Out' = [n \in 1..last |-> Read(delivered'[n])]
      BY <2>5 DEF Out
    <3>3. \A n \in 1..last : Read(delivered'[n]) = IF n = last THEN m ELSE Out[n]
      BY <2>5, <3>1
    <3>4. Out = [n \in 1..Len(delivered) |-> Out[n]]
      BY <2>5 DEF Out
    <3>5. Out \in Seq(Message) /\ Len(Out) = Len(delivered)
      BY <2>5, <2>6, <3>1, <3>4
    <3> QED
      BY <3>1, <3>2, <3>3, <3>5
  <2>9. Out' = Append(Out, m)
    BY <2>4, <2>5, <2>8
  <2>10. m \in Pending /\ Pending' = Pending \ ({m} \ {})
    <3>1. /\ DOMAIN Out' = 1..last /\ Out'[last] = m
          /\ \A n \in DOMAIN Out : Out'[n] = Out[n]
      BY <2>5, <2>8
    <3>2. m \in Pending
      BY <2>4, <2>5, <2>7, <2>8 DEF Pending
    <3>3. DOMAIN Out' = DOMAIN Out \cup {last}
      BY <2>5, <2>8, <3>1
    <3>4. {Out'[n] : n \in DOMAIN Out'} = {Out[n] : n \in DOMAIN Out} \cup {m}
      <4> PICK before, after : before = Out /\ after = Out'
        OBVIOUS
      <4>1. /\ DOMAIN after = DOMAIN before \cup {last} /\ after[last] = m
            /\ \A n \in DOMAIN before : after[n] = before[n]
        BY <3>1, <3>3
      <4>2. {after[n] : n \in DOMAIN after} = {before[n] : n \in DOMAIN before} \cup {m}
        BY <4>1
      <4> QED
        BY <4>2
    <3> QED
      BY <3>2, <3>4 DEF Pending
  <2> QED
    BY <2>4, <2>9, <2>10 DEF D!Next, D!Deliver
<1>3. delivered' = delivered \/ \E id \in TID : TakeBuffer(id)
  BY NextKeeps, PushFragmentKeeps
<1> QED
  BY <1>1, <1>2, <1>3

\* The Reader and the loop keep Delivery's promise with good messages: whatever the
\* stream interleaves, damages and breaks off, and wherever it is cut, Reads return
\* messages that were written, whole, each at most once (tssd.cc:269-332).
THEOREM Implements ==
    ASSUME \A m \in Message : Good(m)
    PROVE  Spec => ImplementsDelivery
<1>1. IInv /\ OnePlace /\ [Next]_vars => [D!Next]_<<Pending, Out>>
  BY RefinesNext
<1> QED
  BY <1>1, RefinesInit, Invariance, PTL DEF Spec, ImplementsDelivery, D!Spec
=============================================================================
