------------------------------ MODULE RBuffer -------------------------------
(***************************************************************************)
(* The parser inside tssd::RBuffer (tssd.h, tssd.cc): the cache of bytes   *)
(* and Extract(data, more), which finds a fragment in it in four steps and *)
(* starts over at the next MAGIC on a format error.  The steps are actions *)
(* of their own, run while the caller waits (pc # "caller").               *)
(*                                                                         *)
(* The stream is a sequence of tokens.  A token is a byte of MAGIC, or     *)
(* stands for a group of bytes: the Tschema tag (with the version), half a *)
(* Schema, an 8-byte array header with its length, a payload byte, or the  *)
(* hash, which carries the tokens it was computed over (it is injective).  *)
(***************************************************************************)
EXTENDS Integers, Sequences, FiniteSets, SequencesExt

CONSTANTS
    Magic,      \* RBuffer::MAGIC
    MinHeader,  \* TSSD_FRAGMENT_MIN_HEADER_SIZE
    Huge        \* what an unsigned subtraction below 0 leaves in `more'

ASSUME RBufferAssumption ==
    /\ Len(Magic) \in Nat \ {0} /\ MinHeader \in Nat /\ Huge \in Nat
    /\ MinHeader > Len(Magic) /\ Huge > MinHeader

OK           == "OK"
INSUFFICIENT == "ERR_INSUFFICIENT_DATA"
CHECKSUM     == "ERR_CHECKSUM_FAILURE"

----------------------------------------------------------------------------
(* Fragments on the wire *)

Tschema    == <<"tschema", 0>>
Schema(f)  == << <<"schema", f>>, <<"schema end", f>> >>
\* The code's lengths are std::int16_t (tssd.cc:127-134); a sender states none below
\* 0, and a damaged head that does is left out: n is a natural number.
Array(n)   == <<"array", n>>
Hash(toks) == <<"hash", toks>>

HeadsOf(f, payload) == Magic \o <<Tschema>> \o Schema(f) \o <<Array(Len(payload))>>
Wire(f, payload) ==
    LET body == HeadsOf(f, payload) \o payload
    IN  body \o <<Array(1), Hash(body)>>

\* What the four steps accept behind the first p tokens of a stream: a head, the
\* payload whose length it says, and the hash of both, or none.
HeadAt(bytes, p) ==
    LET q == p + Len(Magic)
    IN  /\ q + 4 <= Len(bytes)
        /\ SubSeq(bytes, p + 1, q) = Magic
        /\ bytes[q + 1][1] = "tschema" /\ bytes[q + 2][1] = "schema"
        /\ bytes[q + 3] = <<"schema end", bytes[q + 2][2]>>
        /\ bytes[q + 4][1] = "array"
LenAt(bytes, p) == bytes[p + Len(Magic) + 4][2]
SumAt(bytes, p) == p + Len(Magic) + 4 + LenAt(bytes, p)
EndAt(bytes, p) == SumAt(bytes, p) + 1 + bytes[SumAt(bytes, p) + 1][2]

IntactAt(bytes, p) ==
    /\ HeadAt(bytes, p)
    /\ SumAt(bytes, p) + 1 <= Len(bytes)
    /\ bytes[SumAt(bytes, p) + 1][1] = "array"
    /\ EndAt(bytes, p) <= Len(bytes)
    /\ SubSeq(bytes, SumAt(bytes, p) + 2, EndAt(bytes, p))
          \in {<<>>, <<Hash(SubSeq(bytes, p + 1, SumAt(bytes, p)))>>}
Places(bytes) == {p \in 0..Len(bytes) : IntactAt(bytes, p)}
FragmentAt(bytes, p) ==
    [schema  |-> bytes[p + Len(Magic) + 2][2],
     payload |-> SubSeq(bytes, p + Len(Magic) + 5, SumAt(bytes, p))]

----------------------------------------------------------------------------
(* The object, and the call of Extract under way *)

VARIABLES
    rb,         \* the RBuffer
    more,       \* the caller's `more'
    ret,        \* what the last call returned
    pc          \* "caller", or the step of Extract that is next

parser == <<rb, more, ret, pc>>

NewRBuffer == [buffer |-> <<>>, magic |-> -1, heads_len |-> -1, payload |-> -1,
               payload_len |-> -1, checksum |-> -1, checksum_len |-> -1]

\* reset() keeps the bytes.
Holding(bytes) == [NewRBuffer EXCEPT !.buffer = bytes]

Size  == Len(rb.buffer)
At(p) == rb.buffer[p + 1]

\* findMagic: the position of the first MAGIC at or behind skip, or -1.
FindMagic(data, skip) ==
    LET found == {p \in skip..(Len(data) - Len(Magic)) :
                     SubSeq(data, p + 1, p + Len(Magic)) = Magic}
    IN  IF found = {} THEN -1 ELSE CHOOSE p \in found : \A q \in found : p <= q

MoveFront(data, pos, n) == SubSeq(data, pos + 1, pos + n)

----------------------------------------------------------------------------
(* Step 0: detectMagic(data, more, skip).  The bytes it leaves in the cache *)
(* and whether MAGIC is at their front.                                     *)

Keep == Len(Magic) - 1

\* Mutant of DetectAcross: of what was cached nothing is kept.
DetectForgets(pre, data) ==
    LET cp   == IF Len(data) < Keep THEN Len(data) ELSE Keep
        pos  == FindMagic(pre \o data, 0)
    IN  IF Len(pre) + Len(data) < Len(Magic) THEN pre \o data
        ELSE IF pos >= 0 THEN SubSeq(pre \o data, pos + 1, Len(pre) + Len(data))
        ELSE SubSeq(data, Len(data) - cp + 1, Len(data))

\* ... with no MAGIC in what was cached: pre is all of it, or its last bytes.
DetectAcross(pre, data) ==
    LET cp   == IF Len(data) < Keep THEN Len(data) ELSE Keep
        seam == pre \o SubSeq(data, 1, cp)
        at   == FindMagic(seam, 0)
        pos  == FindMagic(data, 0)
    IN  IF Len(pre) + Len(data) < Len(Magic) THEN pre \o data
        ELSE IF at >= 0 THEN MoveFront(pre, at, Len(pre) - at) \o data
        ELSE IF pos >= 0 THEN SubSeq(data, pos + 1, Len(data))
        ELSE MoveFront(pre, Len(pre) - (Keep - cp), Keep - cp)
             \o SubSeq(data, Len(data) - cp + 1, Len(data))

\* Mutant of Detected: the new data is dropped when the cache has a MAGIC.
DetectedAlone(cache, data, skip) ==
    LET n  == Len(cache)
        at == FindMagic(cache, skip)
    IN  IF n < Len(Magic) THEN DetectAcross(cache, data)
        ELSE IF at >= 0 THEN MoveFront(cache, at, n - at)
        ELSE DetectAcross(MoveFront(cache, n - Keep, Keep), data)

Detected(cache, data, skip) ==
    LET n  == Len(cache)
        at == FindMagic(cache, skip)
    IN  IF n < Len(Magic) THEN DetectAcross(cache, data)
        ELSE IF at >= 0 THEN MoveFront(cache, at, n - at) \o data
        ELSE DetectAcross(MoveFront(cache, n - Keep, Keep), data)

\* The header's bytes that are missing are asked for, found or not.
Ask(bytes, m) == IF Len(bytes) < MinHeader THEN MinHeader - Len(bytes) ELSE m

\* Extract begins, or begins again behind a format error.
DetectMagic(cache, data, m, skip) ==
    \E bytes \in {Detected(cache, data, skip)} :
        /\ more' = Ask(bytes, m)
        /\ IF FindMagic(bytes, 0) = 0
           THEN rb' = [Holding(bytes) EXCEPT !.magic = 0] /\ pc' = "heads" /\ UNCHANGED ret
           ELSE rb' = Holding(bytes) /\ pc' = "caller" /\ ret' = INSUFFICIENT

\* Extract(data, m), called.
Call(data, m) ==
    /\ pc = "caller"
    /\ IF rb.magic >= 0
       THEN /\ rb' = [rb EXCEPT !.buffer = @ \o data]
            /\ more' = Ask(rb.buffer \o data, m)
            /\ pc' = "heads" /\ UNCHANGED ret
       ELSE DetectMagic(rb.buffer, data, m, 0)

----------------------------------------------------------------------------
(* Steps 1 to 3 *)

Return(code, m) == ret' = code /\ more' = m /\ pc' = "caller"
Goto(step)      == pc' = step /\ UNCHANGED <<more, ret>>

\* What is found at a position: it is there, is not there yet, or is not one.
There(p, kind) == p < Size /\ At(p)[1] = kind
Short(p)       == p >= Size
Wrong(p, kind) == p < Size /\ At(p)[1] # kind

SchemaAt == rb.magic + Len(Magic) + 1

SchemaShort == Short(SchemaAt) \/ (There(SchemaAt, "schema") /\ Short(SchemaAt + 1))
SchemaWrong ==
    \/ Wrong(SchemaAt, "schema")
    \/ SchemaAt + 1 < Size /\ At(SchemaAt + 1) # <<"schema end", At(SchemaAt)[2]>>
ArrayAt     == SchemaAt + 2

ParseHeads ==
    /\ pc = "heads"
    /\ \/ /\ rb.heads_len >= 0
          /\ Goto("payload") /\ UNCHANGED rb
       \/ /\ rb.heads_len < 0 /\ Size < MinHeader
          /\ Return(INSUFFICIENT, MinHeader - Size) /\ UNCHANGED rb
       \/ /\ rb.heads_len < 0 /\ Size >= MinHeader
          /\ \/ /\ Wrong(SchemaAt - 1, "tschema")
                /\ Goto("again") /\ UNCHANGED rb
             \/ /\ There(SchemaAt - 1, "tschema")
                /\ \/ /\ SchemaShort
                      /\ Return(INSUFFICIENT, MinHeader) /\ UNCHANGED rb
                   \/ /\ SchemaWrong
                      /\ Goto("again") /\ UNCHANGED rb
                   \/ /\ ~SchemaShort /\ ~SchemaWrong /\ Short(ArrayAt)
                      /\ Return(INSUFFICIENT, Huge) /\ UNCHANGED rb
                   \/ /\ ~SchemaShort /\ ~SchemaWrong /\ Wrong(ArrayAt, "array")
                      /\ Goto("again") /\ UNCHANGED rb
                   \/ /\ ~SchemaShort /\ ~SchemaWrong /\ There(ArrayAt, "array")
                      /\ rb' = [rb EXCEPT !.payload_len = At(ArrayAt)[2],
                                          !.heads_len   = ArrayAt + 1 - rb.magic]
                      /\ Goto("payload")

PayloadMissing == rb.heads_len + rb.payload_len - (Size - rb.magic)

ParsePayload ==
    /\ pc = "payload"
    /\ \/ /\ rb.payload >= 0
          /\ Goto("checksum") /\ UNCHANGED rb
       \/ /\ rb.payload < 0 /\ PayloadMissing > 0
          /\ Return(INSUFFICIENT, PayloadMissing) /\ UNCHANGED rb
       \/ /\ rb.payload < 0 /\ PayloadMissing <= 0
          /\ rb' = [rb EXCEPT !.payload = rb.magic + rb.heads_len]
          /\ Goto("checksum")

\* parseChecksum gets a copy of `more': where it asks for bytes, the caller's
\* `more' stays what it was.
ChecksumAt == rb.payload + rb.payload_len

ParseChecksum ==
    /\ pc = "checksum"
    /\ \/ /\ rb.checksum >= 0
          /\ Goto("validate") /\ UNCHANGED rb
       \/ /\ rb.checksum < 0 /\ Short(ChecksumAt)
          /\ Return(INSUFFICIENT, more) /\ UNCHANGED rb
       \/ /\ rb.checksum < 0 /\ Wrong(ChecksumAt, "array")
          /\ Goto("again") /\ UNCHANGED rb
       \/ /\ rb.checksum < 0 /\ There(ChecksumAt, "array")
          /\ LET len == At(ChecksumAt)[2]
             IN  IF ChecksumAt + 1 + len > Size
                 THEN /\ rb' = [rb EXCEPT !.checksum_len = len]
                      /\ Return(INSUFFICIENT, more)
                 ELSE /\ rb' = [rb EXCEPT !.checksum_len = len + 1, !.checksum = ChecksumAt]
                      /\ Goto("validate")

\* Fragment::Validate: a fragment without a hash is taken as it is.  A fragment
\* with a wrong one is cut out of the cache.
HashOf  == SubSeq(rb.buffer, rb.checksum + 2, rb.checksum + rb.checksum_len)
Covered == SubSeq(rb.buffer, rb.magic + 1, rb.magic + rb.heads_len + rb.payload_len)

FragmentLen == rb.heads_len + rb.payload_len + rb.checksum_len
Behind      == SubSeq(rb.buffer, FragmentLen + 1, Size)

\* Mutant of Validate: every hash is taken.
ValidateNothing == pc = "validate" /\ Return(OK, 0) /\ UNCHANGED rb

Validate ==
    /\ pc = "validate"
    /\ IF HashOf \in {<<>>, <<Hash(Covered)>>}
       THEN Return(OK, 0) /\ UNCHANGED rb
       ELSE Return(CHECKSUM, 0) /\ rb' = Holding(Behind)

\* Mutant of Again: the same MAGIC is found again.
AgainHere == pc = "again" /\ DetectMagic(rb.buffer, <<>>, more, 0)

\* A format error of any step: reset, skip this MAGIC, look for the next one.
Again ==
    /\ pc = "again"
    /\ DetectMagic(rb.buffer, <<>>, more, Len(Magic))

Step == ParseHeads \/ ParsePayload \/ ParseChecksum \/ Validate \/ Again

\* Fragment(), which the caller owes to a call that returned OK: the fragment leaves
\* the cache, what is behind it stays.
TheFragment == [schema  |-> At(SchemaAt)[2],
                payload |-> SubSeq(rb.buffer, rb.payload + 1, rb.payload + rb.payload_len)]

\* Mutants of Fragment: what was parsed is not reset; what is behind is dropped.
FragmentKeeps == rb' = [rb EXCEPT !.buffer = Behind]
FragmentDrops == rb' = NewRBuffer

Fragment == rb' = Holding(Behind)
=============================================================================
