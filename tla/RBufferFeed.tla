---------------------------- MODULE RBufferFeed -----------------------------
(***************************************************************************)
(* A caller feeds a byte stream to RBuffer::Extract in chunks of any size  *)
(* and fetches every fragment with Fragment(), as rbuffer_test.cc does.    *)
(* Each call starts with more = 0.                                         *)
(***************************************************************************)
EXTENDS RBuffer

CONSTANTS
    Streams,    \* the streams a peer may send: [bytes, sent, clean], where `sent' are
                \* the undamaged fragments in it and `clean' says that no parse step
                \* can take the noise between them for a whole head
    MaxChunk    \* bound: tokens of one chunk

Token == UNION {{s.bytes[i] : i \in DOMAIN s.bytes} : s \in Streams}

\* The fragments that stand in a stream undamaged are among those sent, in the order
\* in which they stand there; the length in an array's header is a number.
ASSUME RBufferFeedAssumption ==
    /\ MaxChunk \in Nat \ {0}
    /\ \A t \in Token : t[1] = "array" => t[2] \in Nat
    /\ \A s \in Streams :
          /\ s.bytes \in Seq(Token)
          /\ \E no \in [Places(s.bytes) -> DOMAIN s.sent] :
                \A p \in Places(s.bytes) :
                   /\ s.sent[no[p]] = FragmentAt(s.bytes, p)
                   /\ \A q \in Places(s.bytes) : p < q => no[p] < no[q]

FETCHED == "fetched"    \* no code of the source: the last call's OK was answered

VARIABLES
    stream,     \* the whole stream
    fed,        \* tokens of it given to Extract
    got,        \* history: the fragments fetched
    cut         \* history: how far the stream was cut out of the cache as fragments,
                \* fetched or of a wrong checksum

vars == <<stream, fed, got, cut, rb, more, ret, pc>>

Init ==
    /\ stream \in Streams /\ fed = 0 /\ got = <<>> /\ cut = 0
    /\ rb = NewRBuffer /\ more = 0 /\ ret = INSUFFICIENT /\ pc = "caller"

\* A call without data asks for what the cache may hold after a fragment or a bad
\* checksum.  After OK the fragment is fetched before the next call.
Extract(n) ==
    /\ ret # OK
    /\ n = 0 => ret \in {CHECKSUM, FETCHED}
    /\ n <= Len(stream.bytes) - fed
    /\ fed' = fed + n
    /\ Call(SubSeq(stream.bytes, fed + 1, fed + n), 0)
    /\ UNCHANGED <<stream, got, cut>>

Loop ==
    /\ Step
    /\ cut' = IF pc = "validate" /\ ret' = CHECKSUM THEN fed - Size' ELSE cut
    /\ UNCHANGED <<stream, fed, got>>

Fetch ==
    /\ pc = "caller" /\ ret = OK
    /\ got' = Append(got, TheFragment)
    /\ Fragment
    /\ cut' = fed - Size'
    /\ ret' = FETCHED
    /\ UNCHANGED <<stream, fed, more, pc>>

Next ==
    \/ \E n \in 0..MaxChunk : Extract(n)
    \/ Loop
    \/ Fetch

\* The caller feeds the whole stream and asks the cache; a call that was made runs.
Fairness ==
    /\ WF_vars(Loop) /\ WF_vars(Fetch)
    /\ WF_vars(\E n \in 1..MaxChunk : Extract(n)) /\ WF_vars(Extract(0))

Spec == Init /\ [][Next]_vars /\ Fairness

----------------------------------------------------------------------------
(* Properties *)

\* The types of the state: the four parse steps are taken in order and MAGIC, once
\* found, is at the front of the cache (tssd.h:208-213).
TypeOK ==
    /\ fed \in 0..Len(stream.bytes) /\ cut \in 0..(fed - Size)
    /\ pc \in {"caller", "heads", "payload", "checksum", "validate", "again"}
    /\ ret \in {OK, INSUFFICIENT, CHECKSUM, FETCHED} /\ more \in Nat
    /\ rb.magic \in {-1, 0}
    /\ rb.magic = 0 => FindMagic(rb.buffer, 0) = 0
    /\ rb.magic = -1 => rb = Holding(rb.buffer)
    /\ rb.heads_len = -1 => rb.payload_len = -1 /\ rb.payload = -1
    /\ rb.payload = -1 => rb.checksum = -1
    /\ (pc = "validate" \/ ret = OK) => rb.checksum >= 0

\* The cache is always the unparsed end of what came in, byte for byte: no chunking
\* makes append, moveFront or Fragment()'s swap lose, repeat or reorder a byte.
CacheIsTail == Size <= fed /\ rb.buffer = SubSeq(stream.bytes, fed - Size + 1, fed)

\* Whatever noise there is, the fragments fetched were sent and come in the order
\* they were sent in, none of them twice.
NothingInvented ==
    \E place \in [DOMAIN got -> DOMAIN stream.sent] :
        \A i \in DOMAIN got :
            /\ got[i] = stream.sent[place[i]]
            /\ \A j \in DOMAIN got : i < j => place[i] < place[j]

\* In a stream whose noise cannot be taken for a fragment's head, every fragment is
\* fetched exactly once and in order, however the stream is cut into chunks and
\* wherever MAGIC straddles two of them.
AllFetched == stream.clean => <>[](got = stream.sent)

\* While no MAGIC is known, the cache holds all that could be the start of one, back
\* to the last fragment that was cut out, and too little for a whole one: nothing is
\* collected forever, no straddling MAGIC is missed.
NoMagicCached ==
    (pc = "caller" /\ ret = INSUFFICIENT /\ rb.magic = -1) =>
        Size = IF fed - cut < Keep THEN fed - cut ELSE Keep

----------------------------------------------------------------------------
(* What the repository says and the code does not do *)

\* rbuffer_test.cc:333-335: ERR_INSUFFICIENT_DATA comes with more > 0.
MoreIsAsked == (pc = "caller" /\ ret = INSUFFICIENT /\ fed > 0) => more > 0
=============================================================================
