-------------------------- MODULE RBufferFeedProof --------------------------
(***************************************************************************)
(* What RBuffer promises a caller that feeds it a stream in chunks of any  *)
(* size, for every MAGIC, every stream and every chunking: the cache is    *)
(* the unparsed end of what came in, no start of a MAGIC is lost and no    *)
(* fragment is invented, repeated or reordered.                            *)
(***************************************************************************)
EXTENDS RBufferFeed, RBufferProof

----------------------------------------------------------------------------
(* The inductive invariant *)

\* The fragments g stand at the places `at' of the stream u, one behind the other, all
\* of them in front of its token `front'.
InOrder(g, at, u, front) ==
    /\ at \in [1..Len(g) -> 0..Len(u)]
    /\ \A i \in 1..Len(g) :
          IntactAt(u, at[i]) /\ g[i] = FragmentAt(u, at[i]) /\ at[i] < front
    /\ \A i, j \in 1..Len(g) : i < j => at[i] < at[j]

Typed == /\ stream \in Streams /\ fed \in 0..Len(stream.bytes)
         /\ ret \in {OK, INSUFFICIENT, CHECKSUM, FETCHED}
         /\ got \in Seq({FragmentAt(stream.bytes, p) : p \in Places(stream.bytes)})

\* The cache is the end of what was fed; what is missing of it since the last fragment
\* was cut out is too far back for the start of a MAGIC.
Located == /\ IsTail(rb.buffer, Upto(stream.bytes, fed))
           /\ cut \in 0..(fed - Size) /\ Enough(rb.buffer, fed - cut)
Answered == /\ (pc = "caller" /\ ret = INSUFFICIENT /\ rb.magic = -1) => Size <= Keep
            /\ ret = OK => pc = "caller" /\ rb.checksum # -1 /\ IntactAt(rb.buffer, 0)
FetchedInOrder == \E at \in [1..Len(got) -> 0..Len(stream.bytes)] :
                      InOrder(got, at, stream.bytes, fed - Size)

IInv == Typed /\ ParserInv(Token) /\ Located /\ Answered /\ FetchedInOrder

LEMMA StreamsHaveLengths == Lengths(Token)
BY RBufferFeedAssumption DEF Lengths

LEMMA StreamIs ==
    ASSUME IInv
    PROVE  /\ stream.bytes \in Seq(Token) /\ rb.buffer \in Seq(Token)
           /\ fed \in Nat /\ fed <= Len(stream.bytes) /\ Size \in Nat /\ Size <= fed
           /\ cut \in Nat /\ cut <= fed - Size
<1>1. stream.bytes \in Seq(Token) /\ rb.buffer \in Seq(Token)
  BY RBufferFeedAssumption DEF IInv, Typed, ParserInv, Fields
<1>2. fed \in Nat /\ fed <= Len(stream.bytes) /\ fed \in 0..Len(stream.bytes)
  BY <1>1 DEF IInv, Typed
<1>3. Len(Upto(stream.bytes, fed)) = fed
  BY <1>1, <1>2, UptoIs
<1>4. Size \in Nat /\ Size <= fed
  BY <1>1, <1>3 DEF IInv, Located, IsTail, Size
<1>5. cut \in 0..(fed - Size)
  BY DEF IInv, Located
<1> QED
  BY <1>1, <1>2, <1>4, <1>5

LEMMA Remainder ==
    ASSUME NEW f \in Nat, NEW t \in Nat, t <= f
    PROVE  f - t \in 0..(f - t) /\ f - (f - t) = t
OBVIOUS

\* Fragments that were fetched stay where they were found.
LEMMA StillInOrder ==
    ASSUME NEW u, NEW g, NEW front \in Int, NEW further \in Int, front <= further,
           NEW at, InOrder(g, at, u, front), Len(u) \in Nat
    PROVE  InOrder(g, at, u, further)
<1>1. ASSUME NEW i \in 1..Len(g) PROVE at[i] < further
  <2>1. at[i] \in 0..Len(u) /\ at[i] < front
    BY DEF InOrder
  <2> QED
    BY <2>1
<1> QED
  BY <1>1 DEF InOrder

\* The next fragment is the one in front of the cache.
LEMMA OneMoreInOrder ==
    ASSUME NEW S, NEW g \in Seq(S), NEW u, Len(u) \in Nat, NEW front \in 0..Len(u),
           NEW at, InOrder(g, at, u, front), IntactAt(u, front), NEW further \in Nat, front < further
    PROVE  InOrder(Append(g, FragmentAt(u, front)),
                   [i \in 1..(Len(g) + 1) |-> IF i <= Len(g) THEN at[i] ELSE front], u, further)
<1> DEFINE h   == Append(g, FragmentAt(u, front))
           now == [i \in 1..(Len(g) + 1) |-> IF i <= Len(g) THEN at[i] ELSE front]
<1>1. /\ Len(g) \in Nat /\ Len(h) = Len(g) + 1 /\ h[Len(g) + 1] = FragmentAt(u, front)
      /\ \A i \in 1..Len(g) : h[i] = g[i]
  OBVIOUS
<1>2. \A i \in 1..Len(g) : /\ at[i] \in 0..Len(u) /\ IntactAt(u, at[i])
                           /\ g[i] = FragmentAt(u, at[i]) /\ at[i] < front
  BY DEF InOrder
<1>3. \A i \in 1..Len(g) : now[i] = at[i]
  BY <1>1
<1>4. now[Len(g) + 1] = front
  BY <1>1
<1>5. now \in [1..(Len(g) + 1) -> 0..Len(u)]
  BY <1>1, <1>2
<1> HIDE DEF h, now
<1>6. ASSUME NEW i \in 1..(Len(g) + 1)
      PROVE  IntactAt(u, now[i]) /\ h[i] = FragmentAt(u, now[i]) /\ now[i] < further
  <2>1. CASE i <= Len(g)
    <3>1. i \in 1..Len(g)
      BY <1>1, <2>1
    <3>2. at[i] < further
      BY <1>2, <3>1
    <3> QED
      BY <1>1, <1>2, <1>3, <3>1, <3>2
  <2>2. CASE ~(i <= Len(g))
    <3>1. i = Len(g) + 1
      BY <1>1, <2>2
    <3> QED
      BY <1>1, <1>4, <3>1
  <2> QED
    BY <2>1, <2>2
<1>7. ASSUME NEW i \in 1..(Len(g) + 1), NEW j \in 1..(Len(g) + 1), i < j PROVE now[i] < now[j]
  <2>1. i \in 1..Len(g)
    BY <1>1, <1>7
  <2>2. CASE j <= Len(g)
    <3>1. j \in 1..Len(g)
      BY <1>1, <2>2
    <3>2. at[i] < at[j]
      BY <1>7, <2>1, <3>1 DEF InOrder
    <3> QED
      BY <1>3, <2>1, <3>1, <3>2
  <2>3. CASE ~(j <= Len(g))
    <3>1. j = Len(g) + 1
      BY <1>1, <2>3
    <3> QED
      BY <1>2, <1>3, <1>4, <2>1, <3>1
  <2> QED
    BY <2>2, <2>3
<1> QED
  BY <1>1, <1>5, <1>6, <1>7 DEF InOrder, h, now

----------------------------------------------------------------------------
(* Every step keeps it *)

LEMMA Initially ==
    ASSUME Init
    PROVE  IInv
<1>1. /\ stream \in Streams /\ fed = 0 /\ got = <<>> /\ cut = 0
      /\ rb = NewRBuffer /\ more = 0 /\ ret = INSUFFICIENT /\ pc = "caller"
  BY DEF Init
<1>2. stream.bytes \in Seq(Token) /\ <<>> \in Seq(Token) /\ Len(<<>>) = 0
  BY <1>1, RBufferFeedAssumption
<1>3. rb = [buffer |-> <<>>, magic |-> -1, heads_len |-> -1, payload |-> -1,
            payload_len |-> -1, checksum |-> -1, checksum_len |-> -1]
  BY <1>1 DEF NewRBuffer
<1>4. ParserInv(Token)
  <2>1. Fields(Token)
    BY <1>1, <1>2, <1>3 DEF Fields, Field
  <2>2. rb.magic = -1 /\ rb.buffer = <<>>
    BY <1>3
  <2>3. rb = Holding(rb.buffer)
    BY <1>3 DEF Holding, NewRBuffer
  <2>4. MagicKnown
    BY <2>2, <2>3 DEF MagicKnown
  <2>5. HeadKnown /\ PayloadKnown /\ ChecksumKnown
    BY <1>3 DEF HeadKnown, PayloadKnown, ChecksumKnown
  <2>6. Stage
    BY <1>1 DEF Stage
  <2> QED
    BY <2>1, <2>4, <2>5, <2>6 DEF ParserInv
<1>5. rb.buffer = <<>> /\ Size = 0
  BY <1>2, <1>3 DEF Size
<1>6. Typed
  BY <1>1, <1>2 DEF Typed
<1>7. Located
  <2>1. 0 \in 0..Len(stream.bytes)
    BY <1>2
  <2>2. Upto(stream.bytes, 0) \in Seq(Token) /\ Len(Upto(stream.bytes, 0)) = 0
    BY <1>2, <2>1, UptoIs
  <2>3. IsTail(<<>>, Upto(stream.bytes, 0))
    BY <1>2, <2>2, TailByElements
  <2> QED
    BY <1>1, <1>2, <1>5, <2>3 DEF Located, Enough
<1>8. Answered
  <2>1. 0 <= Keep
    BY RBufferAssumption DEF Keep
  <2>2. ret # OK
    BY <1>1 DEF OK, INSUFFICIENT
  <2> QED
    BY <1>5, <2>1, <2>2 DEF Answered
<1>9. FetchedInOrder
  <2> DEFINE at == [i \in 1..Len(got) |-> 0]
  <2>1. Len(got) = 0
    BY <1>1
  <2>2. at \in [1..Len(got) -> 0..Len(stream.bytes)] /\ InOrder(got, at, stream.bytes, fed - Size)
    BY <2>1 DEF InOrder
  <2> QED
    BY <2>2 DEF FetchedInOrder
<1> QED
  BY <1>4, <1>6, <1>7, <1>8, <1>9 DEF IInv

\* A call of Extract or a step of it: the cache was followed by the chunk that was fed,
\* if any, and lost tokens at its front only.
LEMMA Onward ==
    ASSUME IInv, stream' = stream, got' = got, fed' \in Nat, fed' <= Len(stream.bytes),
           NEW data \in Seq(Token), fed' = fed + Len(data),
           Upto(stream.bytes, fed') = Upto(stream.bytes, fed) \o data,
           rb'.buffer \in Seq(Token), IsTail(rb'.buffer, rb.buffer \o data)
    PROVE  /\ Typed' <=> ret' \in {OK, INSUFFICIENT, CHECKSUM, FETCHED}
           /\ IsTail(rb'.buffer, Upto(stream.bytes, fed)')
           /\ Size' \in Nat /\ Size' <= fed' /\ fed - Size <= fed' - Size'
           /\ cut' = cut /\ Enough(rb'.buffer, Len(rb.buffer \o data)) => Located'
           /\ FetchedInOrder'
<1>1. /\ stream.bytes \in Seq(Token) /\ rb.buffer \in Seq(Token)
      /\ fed \in Nat /\ fed <= Len(stream.bytes) /\ Size \in Nat /\ Size <= fed
      /\ cut \in Nat /\ cut <= fed - Size
  BY StreamIs
<1> PICK k \in Nat : k = Len(data)
  OBVIOUS
<1>2. fed \in 0..Len(stream.bytes) /\ fed' \in 0..Len(stream.bytes)
  BY <1>1
<1>3. IsTail(rb.buffer, Upto(stream.bytes, fed))
  BY DEF IInv, Located
<1>4. rb.buffer \o data \in Seq(Token) /\ Len(rb.buffer \o data) = Size + k
  BY <1>1, ConcatProperties DEF Size
<1>5. Upto(stream.bytes, fed) \in Seq(Token) /\ Upto(stream.bytes, fed') \in Seq(Token)
  BY <1>1, <1>2, UptoIs
<1>6. IsTail(rb.buffer \o data, Upto(stream.bytes, fed'))
  BY <1>1, <1>3, <1>5, TailAppended
<1>7. IsTail(rb'.buffer, Upto(stream.bytes, fed'))
  BY <1>4, <1>5, <1>6, TailOfTail
<1>8. Size' \in Nat /\ Size' <= Size + k
  <2>1. Size' = Len(rb'.buffer)
    BY DEF Size
  <2>2. Len(rb'.buffer) <= Size + k
    BY <1>4 DEF IsTail
  <2> QED
    BY <2>1, <2>2
<1>9. fed' = fed + k
  OBVIOUS
<1>10. Size' <= fed' /\ fed - Size <= fed' - Size' /\ fed' - Size' \in Int /\ fed - Size \in Int
  BY <1>1, <1>8, <1>9
<1>11. ASSUME cut' = cut, Enough(rb'.buffer, Len(rb.buffer \o data)) PROVE Located'
  <2>1. cut \in 0..(fed' - Size')
    BY <1>1, <1>10
  <2>2. Size = fed - cut \/ Size >= Keep
    BY DEF IInv, Located, Enough, Size
  <2>3. Size' = Size + k \/ Size' >= Keep
    BY <1>4, <1>11 DEF Enough, Size
  <2>4. Keep \in Nat
    BY RBufferAssumption DEF Keep
  <2>5. Size' = fed' - cut \/ Size' >= Keep
    <3> PICK s, t, f, g, c, l : /\ s = Size /\ t = Size' /\ f = fed /\ g = fed' /\ c = cut /\ l = Keep
      OBVIOUS
    <3>1. s \in Nat /\ t \in Nat /\ f \in Nat /\ c \in Nat /\ l \in Nat /\ g = f + k
      BY <1>1, <1>8, <1>9, <2>4
    <3>2. (s = f - c \/ s >= l) /\ (t = s + k \/ t >= l)
      BY <2>2, <2>3
    <3>3. t = g - c \/ t >= l
      BY <3>1, <3>2
    <3> QED
      BY <3>3
  <2>7. Enough(rb'.buffer, fed' - cut)
    BY <2>5 DEF Enough, Size
  <2> QED
    BY <1>7, <1>11, <2>1, <2>7 DEF Located
<1>12. FetchedInOrder'
  <2>1. PICK at \in [1..Len(got) -> 0..Len(stream.bytes)] : InOrder(got, at, stream.bytes, fed - Size)
    BY DEF IInv, FetchedInOrder
  <2>2. Len(stream.bytes) \in Nat
    BY <1>1
  <2>3. InOrder(got, at, stream.bytes, fed' - Size')
    BY <1>10, <2>1, <2>2, StillInOrder
  <2> QED
    BY <2>1, <2>3 DEF FetchedInOrder
<1>13. Typed' <=> ret' \in {OK, INSUFFICIENT, CHECKSUM, FETCHED}
  BY <1>2 DEF IInv, Typed
<1> QED
  BY <1>7, <1>8, <1>10, <1>11, <1>12, <1>13

LEMMA ExtractKeeps ==
    ASSUME IInv, NEW n \in 0..MaxChunk, Extract(n)
    PROVE  IInv'
<1> DEFINE data == SubSeq(stream.bytes, fed + 1, fed + n)
<1>1. /\ ret # OK /\ n \in Nat /\ n <= Len(stream.bytes) - fed /\ fed' = fed + n
      /\ Call(data, 0) /\ stream' = stream /\ got' = got /\ cut' = cut
  BY RBufferFeedAssumption DEF Extract
<1>2. /\ stream.bytes \in Seq(Token) /\ fed \in Nat /\ fed <= Len(stream.bytes)
      /\ rb.buffer \in Seq(Token)
  BY StreamIs
<1>3. fed + n <= Len(stream.bytes) /\ fed' \in Nat /\ fed' <= Len(stream.bytes)
  BY <1>1, <1>2
<1>4. data \in Seq(Token) /\ Len(data) = n /\ Upto(stream.bytes, fed + n) = Upto(stream.bytes, fed) \o data
  <2>1. stream.bytes \in Seq(Token) /\ fed \in Nat /\ n \in Nat /\ fed + n <= Len(stream.bytes)
    BY <1>1, <1>2, <1>3
  <2> QED
    BY <2>1, UptoGrows
<1> HIDE DEF data
<1>5. ParserInv(Token) /\ 0 \in Nat
  BY DEF IInv
<1>6. /\ ParserInv(Token)' /\ IsTail(rb'.buffer, rb.buffer \o data)
      /\ Enough(rb'.buffer, Len(rb.buffer \o data))
      /\ IF pc' = "caller" THEN ret' = INSUFFICIENT /\ Len(rb'.buffer) <= Keep
                           ELSE ret' = ret /\ rb'.magic = 0
  BY <1>1, <1>4, <1>5, StreamsHaveLengths, CallStep
<1>7. rb'.buffer \in Seq(Token)
  BY <1>6 DEF ParserInv, Fields
<1>8. ret' \in {OK, INSUFFICIENT, CHECKSUM, FETCHED} /\ ret' # OK
  BY <1>1, <1>6 DEF IInv, Typed, OK, INSUFFICIENT
<1>9. fed' = fed + Len(data) /\ Upto(stream.bytes, fed') = Upto(stream.bytes, fed) \o data
  BY <1>1, <1>4
<1>10. Typed' /\ Located' /\ FetchedInOrder'
  BY <1>1, <1>3, <1>4, <1>6, <1>7, <1>8, <1>9, Onward
<1>11. Answered'
  BY <1>6, <1>8 DEF Answered, Size
<1> QED
  BY <1>6, <1>10, <1>11 DEF IInv

LEMMA LoopKeeps ==
    ASSUME IInv, Loop
    PROVE  IInv'
<1>1. /\ Step /\ stream' = stream /\ fed' = fed /\ got' = got
      /\ cut' = IF pc = "validate" /\ ret' = CHECKSUM THEN fed - Size' ELSE cut
  BY DEF Loop
<1>2. /\ stream.bytes \in Seq(Token) /\ fed \in Nat /\ fed <= Len(stream.bytes)
      /\ rb.buffer \in Seq(Token)
  BY StreamIs
<1>3. ParserInv(Token) /\ ret \in {OK, INSUFFICIENT, CHECKSUM, FETCHED}
  BY DEF IInv, Typed
<1>4. /\ ParserInv(Token)' /\ IsTail(rb'.buffer, rb.buffer)
      /\ ret' \in {ret, OK, INSUFFICIENT, CHECKSUM}
      /\ (pc' = "caller" /\ ret' = OK) => rb'.checksum # -1 /\ IntactAt(rb'.buffer, 0)
      /\ (pc' = "caller" /\ ret' = INSUFFICIENT /\ rb'.magic = -1) => Len(rb'.buffer) <= Keep
      /\ (ret' = OK /\ ret # OK) => pc' = "caller"
      /\ (pc = "validate" /\ ret' = CHECKSUM) \/ Enough(rb'.buffer, Len(rb.buffer))
  BY <1>1, <1>3, StreamsHaveLengths, StepKeeps
<1>5. ret # OK
  <2>1. pc # "caller"
    BY <1>1 DEF Step, ParseHeads, ParsePayload, ParseChecksum, Validate, Again
  <2> QED
    BY <2>1 DEF IInv, Answered
<1>6. rb'.buffer \in Seq(Token)
  BY <1>4 DEF ParserInv, Fields
<1>7. ret' \in {OK, INSUFFICIENT, CHECKSUM, FETCHED}
  BY <1>3, <1>4
<1>8. /\ <<>> \in Seq(Token) /\ rb.buffer \o <<>> = rb.buffer /\ fed' = fed + Len(<<>>)
      /\ Upto(stream.bytes, fed') = Upto(stream.bytes, fed) \o <<>>
  <2>1. fed \in 0..Len(stream.bytes)
    BY <1>2
  <2>2. Upto(stream.bytes, fed) \in Seq(Token)
    BY <1>2, <2>1, UptoIs
  <2> QED
    BY <1>1, <1>2, <2>2, ConcatEmptySeq
<1>9. /\ Typed' /\ FetchedInOrder' /\ IsTail(rb'.buffer, Upto(stream.bytes, fed)')
      /\ Size' \in Nat /\ Size' <= fed'
      /\ cut' = cut /\ Enough(rb'.buffer, Len(rb.buffer)) => Located'
  BY <1>1, <1>2, <1>4, <1>6, <1>7, <1>8, Onward
<1>10. Located'
  <2>1. CASE pc = "validate" /\ ret' = CHECKSUM
    <3>1. cut' = fed' - Size'
      BY <1>1, <2>1
    <3>2. cut' \in 0..(fed' - Size') /\ fed' - cut' = Size'
      <4> PICK f, t, c : f = fed' /\ t = Size' /\ c = cut'
        OBVIOUS
      <4>1. f \in Nat
        BY <1>1, <1>2
      <4>2. t \in Nat /\ t <= f
        BY <1>9
      <4>3. c = f - t
        BY <3>1
      <4>4. f - t \in 0..(f - t) /\ f - (f - t) = t
        BY <4>1, <4>2, Remainder
      <4>5. c \in 0..(f - t) /\ f - c = t
        BY <4>3, <4>4, Zenon
      <4> QED
        BY <4>5, Zenon
    <3>3. Enough(rb.buffer, fed - cut)'
      BY <3>2 DEF Enough, Size
    <3> QED
      BY <1>9, <3>2, <3>3 DEF Located
  <2>2. CASE ~(pc = "validate" /\ ret' = CHECKSUM)
    BY <1>1, <1>4, <1>9, <2>2
  <2> QED
    BY <2>1, <2>2
<1>11. Answered'
  BY <1>4, <1>5 DEF Answered, Size
<1> QED
  BY <1>4, <1>9, <1>10, <1>11 DEF IInv

LEMMA FetchKeeps ==
    ASSUME IInv, Fetch
    PROVE  IInv'
<1>1. /\ pc = "caller" /\ ret = OK /\ got' = Append(got, TheFragment) /\ rb' = Holding(Behind)
      /\ cut' = fed - Size' /\ ret' = FETCHED
      /\ stream' = stream /\ fed' = fed /\ more' = more /\ pc' = pc
  BY DEF Fetch, Fragment
<1>2. /\ stream.bytes \in Seq(Token) /\ rb.buffer \in Seq(Token)
      /\ fed \in Nat /\ fed <= Len(stream.bytes) /\ Size \in Nat /\ Size <= fed
  BY StreamIs
<1>3. ParserInv(Token) /\ more \in Nat /\ rb.checksum # -1 /\ IntactAt(rb.buffer, 0)
  BY <1>1 DEF IInv, Answered, ParserInv, Fields
<1> PICK b, u, e : b = rb.buffer /\ u = stream.bytes /\ e = EndAt(b, 0)
  OBVIOUS
<1> PICK q \in Nat : q = fed - Size
  BY <1>2
<1>4. e \in 1..Len(b) /\ TheFragment = FragmentAt(b, 0)
  BY <1>3, StreamsHaveLengths, FragmentInFront
<1>5. /\ ParserInv(Token)' /\ IsTail(rb'.buffer, rb.buffer) /\ rb'.magic = -1
      /\ Len(rb'.buffer) = Len(b) - e
  BY <1>1, <1>3, StreamsHaveLengths, CutOut
<1>6. rb'.buffer \in Seq(Token)
  BY <1>5 DEF ParserInv, Fields
\* Where the fragment stands in the stream.
<1>7. Agree(b, 0, u, q, Len(b)) /\ q + Len(b) = fed /\ fed \in 0..Len(u)
  <2>1. IsTail(b, Upto(u, fed)) /\ fed \in 0..Len(u)
    BY <1>2 DEF IInv, Located
  <2>2. Agree(b, 0, u, fed - Len(b), Len(b))
    BY <1>2, <2>1, TailOfUpto
  <2> QED
    BY <1>2, <2>1, <2>2 DEF Size
<1>8. IntactAt(u, q) /\ FragmentAt(u, q) = FragmentAt(b, 0)
  <2>1. q + Len(b) <= Len(u)
    BY <1>2, <1>7
  <2> QED
    BY <1>2, <1>3, <1>7, <2>1, StreamsHaveLengths, IntactInStream
<1>9. q \in 0..Len(u) /\ q \in Places(u) /\ TheFragment = FragmentAt(u, q)
  BY <1>2, <1>4, <1>7, <1>8 DEF Places
<1>10. Size' \in Nat /\ Size' = Size - e /\ Size' <= fed /\ fed - Size' = q + e /\ e \in Nat \ {0}
  <2>1. Size' = Size - e
    BY <1>5 DEF Size
  <2>2. e \in 1..Size
    BY <1>4 DEF Size
  <2> QED
    BY <1>2, <2>1, <2>2
<1>11. Typed'
  <2>1. got \in Seq({FragmentAt(u, p) : p \in Places(u)}) /\ stream \in Streams
    BY DEF IInv, Typed
  <2>2. TheFragment \in {FragmentAt(u, p) : p \in Places(u)}
    BY <1>9
  <2>3. got' \in Seq({FragmentAt(u, p) : p \in Places(u)})
    BY <1>1, <2>1, <2>2, AppendProperties
  <2> QED
    BY <1>1, <1>7, <2>1, <2>3 DEF Typed
<1>12. Located'
  <2>1. IsTail(rb'.buffer, Upto(u, fed))
    <3>1. Upto(u, fed) \in Seq(Token) /\ IsTail(rb.buffer, Upto(u, fed))
      BY <1>2, <1>7, UptoIs DEF IInv, Located
    <3> QED
      BY <1>2, <1>5, <1>6, <3>1, TailOfTail
  <2>2. cut' \in 0..(fed' - Size') /\ fed' - cut' = Size'
    <3> PICK f, t, c : f = fed' /\ t = Size' /\ c = cut'
      OBVIOUS
    <3>1. f = fed
      BY <1>1
    <3>2. f \in Nat
      BY <1>2, <3>1
    <3>3. t \in Nat /\ t <= f
      BY <1>10, <3>1
    <3>4. c = f - t
      BY <1>1, <3>1
    <3>5. f - t \in 0..(f - t) /\ f - (f - t) = t
      BY <3>2, <3>3, Remainder
    <3>6. c \in 0..(f - t) /\ f - c = t
      BY <3>4, <3>5, Zenon
    <3> QED
      BY <3>6, Zenon
  <2>3. Enough(rb.buffer, fed - cut)'
    BY <2>2 DEF Enough, Size
  <2> QED
    BY <1>1, <2>1, <2>2, <2>3 DEF Located
<1>13. Answered'
  BY <1>1 DEF Answered, FETCHED, INSUFFICIENT, OK
<1>14. FetchedInOrder'
  <2>1. PICK at \in [1..Len(got) -> 0..Len(u)] : InOrder(got, at, u, q)
    BY DEF IInv, FetchedInOrder
  <2> DEFINE now == [i \in 1..(Len(got) + 1) |-> IF i <= Len(got) THEN at[i] ELSE q]
  <2>2. got \in Seq({FragmentAt(u, p) : p \in Places(u)}) /\ Len(u) \in Nat /\ q + e \in Nat /\ q < q + e
    <3>1. got \in Seq({FragmentAt(u, p) : p \in Places(u)})
      BY DEF IInv, Typed
    <3>2. Len(u) \in Nat
      BY <1>2
    <3>3. q \in 0..Len(u) /\ e \in Nat \ {0}
      BY <1>9, <1>10
    <3>4. q + e \in Nat /\ q < q + e
      BY <3>2, <3>3
    <3> QED
      BY <3>1, <3>2, <3>4
  <2>3. InOrder(Append(got, FragmentAt(u, q)), now, u, q + e)
    BY <1>8, <1>9, <2>1, <2>2, OneMoreInOrder
  <2>4. InOrder(got', now, u, fed' - Size')
    BY <1>1, <1>9, <1>10, <2>3
  <2>5. now \in [1..Len(got') -> 0..Len(u)]
    BY <2>4 DEF InOrder
  <2> QED
    BY <1>1, <2>4, <2>5 DEF FetchedInOrder
<1> QED
  BY <1>5, <1>11, <1>12, <1>13, <1>14 DEF IInv

\* The invariant holds in every state.
THEOREM Invariance ==
    Spec => []IInv
<1>1. IInv /\ [Next]_vars => IInv'
  <2> SUFFICES ASSUME IInv, [Next]_vars PROVE IInv'
    OBVIOUS
  <2>1. CASE \E n \in 0..MaxChunk : Extract(n)
    BY <2>1, ExtractKeeps
  <2>2. CASE Loop
    BY <2>2, LoopKeeps
  <2>3. CASE Fetch
    BY <2>3, FetchKeeps
  <2>4. CASE UNCHANGED vars
    <3>1. /\ stream' = stream /\ fed' = fed /\ got' = got /\ cut' = cut /\ rb' = rb
          /\ more' = more /\ ret' = ret /\ pc' = pc
      BY <2>4 DEF vars
    <3>2. Size' = Size
      BY <3>1 DEF Size
    <3>3. Typed' /\ Located' /\ Answered' /\ FetchedInOrder'
      BY <3>1, <3>2 DEF IInv, Typed, Located, Answered, FetchedInOrder
    <3>4. ParserInv(Token)'
      BY <3>1 DEF IInv, ParserInv, Fields, MagicKnown, HeadKnown, PayloadKnown, ChecksumKnown, Stage
    <3> QED
      BY <3>3, <3>4 DEF IInv
  <2> QED
    BY <2>1, <2>2, <2>3, <2>4 DEF Next
<1> QED
  BY Initially, <1>1, PTL DEF Spec

\* The state has its type; the steps are taken in order, each knows what those before
\* it found, and a MAGIC that was found is at the front of the cache (tssd.h:208-213).
THEOREM TypeCorrect ==
    Spec => []TypeOK
<1>1. IInv => TypeOK
  <2> SUFFICES ASSUME IInv PROVE TypeOK
    OBVIOUS
  <2>1. fed \in 0..Len(stream.bytes) /\ cut \in 0..(fed - Size)
    BY DEF IInv, Typed, Located
  <2>2. pc \in {"caller", "heads", "payload", "checksum", "validate", "again"}
    BY DEF IInv, ParserInv, Stage
  <2>3. ret \in {OK, INSUFFICIENT, CHECKSUM, FETCHED} /\ more \in Nat
    BY DEF IInv, Typed, ParserInv, Fields
  <2>4. /\ rb.magic \in {-1, 0}
        /\ rb.magic = 0 => FindMagic(rb.buffer, 0) = 0
        /\ rb.magic = -1 => rb = Holding(rb.buffer)
    BY DEF IInv, ParserInv, Fields, MagicKnown
  <2>5. /\ rb.heads_len = -1 => rb.payload_len = -1 /\ rb.payload = -1
        /\ rb.payload = -1 => rb.checksum = -1
    BY DEF IInv, ParserInv, HeadKnown, PayloadKnown
  <2>6. (pc = "validate" \/ ret = OK) => rb.checksum >= 0
    <3> SUFFICES ASSUME pc = "validate" \/ ret = OK PROVE rb.checksum >= 0
      OBVIOUS
    <3>1. rb.checksum # -1
      BY DEF IInv, Answered, ParserInv, Stage
    <3>2. rb.checksum \in Nat \cup {-1}
      BY DEF IInv, ParserInv, Fields, Field
    <3> QED
      BY <3>1, <3>2
  <2> QED
    BY <2>1, <2>2, <2>3, <2>4, <2>5, <2>6 DEF TypeOK
<1> QED
  BY Invariance, <1>1, PTL

\* No chunking makes append, moveFront or Fragment()'s swap lose, repeat or reorder a
\* byte: the cache is the end of what was fed.
THEOREM CacheIsAlwaysTail ==
    Spec => []CacheIsTail
<1>1. IInv => CacheIsTail
  <2> SUFFICES ASSUME IInv PROVE CacheIsTail
    OBVIOUS
  <2>1. /\ stream.bytes \in Seq(Token) /\ rb.buffer \in Seq(Token) /\ fed \in 0..Len(stream.bytes)
        /\ IsTail(rb.buffer, Upto(stream.bytes, fed))
    BY StreamIs DEF IInv, Typed, Located
  <2> QED
    BY <2>1, TailOfUpto DEF CacheIsTail, Size
<1> QED
  BY Invariance, <1>1, PTL

\* Without a MAGIC the cache has exactly the tokens that may begin one: it neither
\* collects noise nor misses a MAGIC that straddles any number of chunks.
THEOREM OnlyAStartIsCached ==
    Spec => []NoMagicCached
<1>1. IInv => NoMagicCached
  <2> SUFFICES ASSUME IInv, pc = "caller", ret = INSUFFICIENT, rb.magic = -1
               PROVE  Size = IF fed - cut < Keep THEN fed - cut ELSE Keep
    BY DEF NoMagicCached
  <2>1. /\ fed \in Nat /\ Size \in Nat /\ Size <= fed /\ cut \in Nat /\ cut <= fed - Size
        /\ Keep \in Nat
    BY StreamIs, RBufferAssumption DEF Keep
  <2>2. Size <= Keep
    BY DEF IInv, Answered
  <2>3. Size = fed - cut \/ Size >= Keep
    BY DEF IInv, Located, Enough, Size
  <2> PICK s, f, c, k : s = Size /\ f = fed /\ c = cut /\ k = Keep
    OBVIOUS
  <2>4. s = IF f - c < k THEN f - c ELSE k
    BY <2>1, <2>2, <2>3
  <2> QED
    BY <2>4
<1> QED
  BY Invariance, <1>1, PTL

\* Whatever noise a stream has and wherever it is cut, what the caller fetches was sent,
\* in this order, and nothing is fetched twice.
THEOREM NothingIsInvented ==
    Spec => []NothingInvented
<1>1. IInv => NothingInvented
  <2> SUFFICES ASSUME IInv PROVE NothingInvented
    OBVIOUS
  <2> PICK u : u = stream.bytes
    OBVIOUS
  <2>1. PICK at \in [1..Len(got) -> 0..Len(u)] : InOrder(got, at, u, fed - Size)
    BY DEF IInv, FetchedInOrder
  <2>2. /\ \A i \in 1..Len(got) : at[i] \in Places(u) /\ got[i] = FragmentAt(u, at[i])
        /\ \A i, j \in 1..Len(got) : i < j => at[i] < at[j]
    BY <2>1 DEF InOrder, Places
  <2>3. PICK no \in [Places(u) -> DOMAIN stream.sent] :
           \A p \in Places(u) : /\ stream.sent[no[p]] = FragmentAt(u, p)
                                /\ \A q \in Places(u) : p < q => no[p] < no[q]
    BY RBufferFeedAssumption DEF IInv, Typed
  <2>4. DOMAIN got = 1..Len(got)
    BY DEF IInv, Typed
  <2> DEFINE place == [i \in DOMAIN got |-> no[at[i]]]
  <2>5. place \in [DOMAIN got -> DOMAIN stream.sent]
    BY <2>2, <2>3, <2>4
  <2>6. ASSUME NEW i \in DOMAIN got, NEW j \in DOMAIN got
        PROVE  got[i] = stream.sent[place[i]] /\ (i < j => place[i] < place[j])
    BY <2>2, <2>3, <2>4
  <2> QED
    BY <2>5, <2>6 DEF NothingInvented
<1> QED
  BY Invariance, <1>1, PTL
=============================================================================
