--------------------------- MODULE RBufferReader ----------------------------
(***************************************************************************)
(* RBuffer::Read(reader, flat): the loop of Extract(Reader) around the     *)
(* parser, pushFragment, and Buffer().  A peer writes a stream, a fragment *)
(* at a time, and may close at any time; the Reader hands out as many      *)
(* bytes at a time as it likes, which is where TCP cuts, and blocks while  *)
(* there are none.                                                         *)
(*                                                                         *)
(* A schema in the stream is <<m, i>>, the i-th fragment of message m.     *)
(***************************************************************************)
EXTENDS RBuffer, FragmentBuffer

CONSTANTS
    Streams,    \* what the peer may write: [bytes, sent, ends], with the intact
                \* fragments and where each write ends
    Known,      \* Types of the registered classes
    Mtu,        \* TSSD_BUFFER_MTU: the most one Reader::Read is asked for
    MaxReads    \* bound: calls of Read(reader, flat)

Token == UNION {{s.bytes[i] : i \in DOMAIN s.bytes} : s \in Streams}

\* What stands in a stream undamaged is a fragment of a message, none of them twice;
\* the length in an array's header is a number.
ASSUME RBufferReaderAssumption ==
    /\ Known \subseteq Types
    /\ Mtu \in Nat \ {0} /\ MaxReads \in Nat
    /\ \A t \in Token : t[1] = "array" => t[2] \in Nat
    /\ \A s \in Streams :
          /\ s.bytes \in Seq(Token) /\ s.ends \subseteq 0..Len(s.bytes)
          /\ \A p \in Places(s.bytes) :
                /\ \E m \in Message : \E i \in 1..Count[m] : FragmentAt(s.bytes, p).schema = <<m, i>>
                /\ \A q \in Places(s.bytes) :
                      FragmentAt(s.bytes, q).schema = FragmentAt(s.bytes, p).schema => q = p

VARIABLES
    stream,         \* the stream
    written, closed,\* how many tokens of it the peer wrote, and if it closed
    fed,            \* how many tokens were read
    bs, exit, got,  \* locals of Extract(Reader)
    loop,           \* "idle", or where Read is: "buffer", "read", "feed", "parse"
    want,           \* the class of the Flatable Read is called with
    buffers,        \* results_ and unregistered_, by Types and TID
    codes,          \* history: what each Read returned
    delivered       \* history: the Buffers of those that returned OK

peer   == <<stream, written, closed>>
history == <<codes, delivered>>
locals == <<peer, fed, bs, exit, got, loop, want, buffers, history>>
vars   == <<locals, parser>>

Init ==
    /\ stream \in Streams /\ written = 0 /\ closed = FALSE /\ fed = 0
    /\ bs = <<>> /\ exit = FALSE /\ got = FALSE /\ loop = "idle"
    /\ want \in Known
    /\ buffers = [k \in Keys |-> EmptyBuffer]
    /\ codes = <<>> /\ delivered = <<>>
    /\ rb = NewRBuffer /\ more = 0 /\ ret = INSUFFICIENT /\ pc = "caller"

----------------------------------------------------------------------------
(* The peer, in RBuffer::Write: a fragment after the other.  What it takes  *)
(* for written although the write was short breaks off in the stream.      *)

PeerWrite ==
    /\ ~closed
    /\ \E e \in stream.ends :
          /\ e > written /\ \A d \in stream.ends : d > written => e <= d
          /\ written' = e
    /\ UNCHANGED <<stream, closed, fed, bs, exit, got, loop, want, buffers, history, parser>>

PeerClose ==
    /\ ~closed /\ closed' = TRUE
    /\ UNCHANGED <<stream, written, fed, bs, exit, got, loop, want, buffers, history, parser>>

----------------------------------------------------------------------------
(* Read(reader, flat) *)

CallRead(t) ==
    /\ loop = "idle" /\ Len(codes) < MaxReads
    /\ loop' = "buffer" /\ want' = t
    /\ got' = FALSE
    /\ UNCHANGED <<peer, fed, bs, exit, buffers, history, parser>>

Answer(code, b) ==
    /\ codes' = Append(codes, code)
    /\ delivered' = IF code = OK THEN Append(delivered, [types |-> want, buffer |-> b])
                    ELSE delivered
    /\ loop' = "idle"

\* Mutant of TakeBuffer: the Buffer stays in the map.
TakeBufferKeeps(id) ==
    /\ loop = "buffer" /\ Complete(buffers[<<want, id>>])
    /\ Answer(OK, buffers[<<want, id>>])
    /\ UNCHANGED <<peer, fed, bs, exit, got, want, buffers, parser>>

\* Buffer(family, version) has one: Read returns its message.
TakeBuffer(id) ==
    /\ loop = "buffer" /\ Complete(buffers[<<want, id>>])
    /\ Answer(OK, buffers[<<want, id>>])
    /\ buffers' = [buffers EXCEPT ![<<want, id>>] = EmptyBuffer]
    /\ UNCHANGED <<peer, fed, bs, exit, got, want, parser>>

\* It has none: Extract(reader) is entered.
EnterExtract ==
    /\ loop = "buffer" /\ \A id \in TID : ~Complete(buffers[<<want, id>>])
    /\ loop' = "read" /\ more' = Mtu
    /\ bs' = <<>> /\ exit' = FALSE /\ got' = FALSE
    /\ UNCHANGED <<peer, fed, want, buffers, history, rb, ret, pc>>

----------------------------------------------------------------------------
(* Extract(reader) *)

Unread == written - fed

\* reader.Read(bs, more) returns n, and 0 when the peer closed.  The loop's ERR_IO
\* does not outlive the Extract that follows, so n = 0 leaves `exit' only.
ReaderRead(n) ==
    /\ loop = "read" /\ more > 0
    /\ n <= more /\ n <= Mtu /\ n <= Unread
    /\ n = 0 => Unread = 0 /\ closed
    /\ bs' = SubSeq(stream.bytes, fed + 1, fed + n)
    /\ fed' = fed + n
    /\ more' = IF more < Mtu THEN more ELSE Mtu
    /\ exit' = (exit \/ n = 0)
    /\ loop' = "feed"
    /\ UNCHANGED <<peer, got, want, buffers, history, rb, ret, pc>>

NothingAsked ==
    /\ loop = "read" /\ more = 0
    /\ loop' = "feed"
    /\ UNCHANGED <<peer, fed, bs, exit, got, want, buffers, history, parser>>

Feed ==
    /\ loop = "feed"
    /\ Call(bs, more)
    /\ loop' = "parse"
    /\ UNCHANGED <<peer, fed, bs, exit, got, want, buffers, history>>

Parse ==
    /\ loop = "parse" /\ Step
    /\ UNCHANGED locals

\* pushFragment's return value is 0 when the message of a known class is complete.
\* bs is emptied and Extract called again for what the cache still holds.
Received == FragmentOf(TheFragment.schema[1], TheFragment.schema[2])

\* Mutants of PushFragment: Read returns before the fragment is fetched; the chunk is
\* fed again.
PushLater ==
    /\ loop = "parse" /\ pc = "caller" /\ ret = OK
    /\ Answer(OK, EmptyBuffer)
    /\ UNCHANGED <<peer, fed, bs, exit, got, want, buffers, parser>>
PushAndFeedAgain ==
    /\ loop = "parse" /\ pc = "caller" /\ ret = OK
    /\ buffers' = [buffers EXCEPT ![<<Received.types, Received.tid>>] = Push(@, Received)]
    /\ Fragment
    /\ loop' = "feed"
    /\ UNCHANGED <<peer, fed, bs, exit, got, want, history, more, ret, pc>>
PushFragment ==
    /\ loop = "parse" /\ pc = "caller" /\ ret = OK
    /\ LET f        == Received
           b        == Push(buffers[<<f.types, f.tid>>], f)
           complete == f.types \in Known /\ Complete(b) /\ ~Rejects(buffers[<<f.types, f.tid>>], f)
       IN  /\ buffers' = [buffers EXCEPT ![<<f.types, f.tid>>] = b]
           /\ exit' = complete
           /\ got' = (got \/ complete)
    /\ bs' = <<>>
    /\ Fragment
    /\ loop' = "feed"
    /\ UNCHANGED <<peer, fed, want, history, more, ret, pc>>

\* Mutant of Continue: the loop reads on whatever it got.
ContinueReading ==
    /\ loop = "parse" /\ pc = "caller" /\ ret = INSUFFICIENT
    /\ loop' = "read"
    /\ UNCHANGED <<peer, fed, bs, exit, got, want, buffers, history, parser>>

\* ERR_INSUFFICIENT_DATA: the loop's condition decides.
Continue ==
    /\ loop = "parse" /\ pc = "caller" /\ ret = INSUFFICIENT
    /\ \/ /\ ~exit
          /\ loop' = "read" /\ UNCHANGED history
       \/ /\ exit /\ got
          /\ loop' = "buffer" /\ UNCHANGED history
       \/ /\ exit /\ ~got
          /\ Answer(INSUFFICIENT, EmptyBuffer)
    /\ UNCHANGED <<peer, fed, bs, exit, got, want, buffers, parser>>

Fail ==
    /\ loop = "parse" /\ pc = "caller" /\ ret = CHECKSUM
    /\ Answer(CHECKSUM, EmptyBuffer)
    /\ UNCHANGED <<peer, fed, bs, exit, got, want, buffers, parser>>

Reading ==
    \/ \E t \in Known : CallRead(t)
    \/ \E id \in TID : TakeBuffer(id)
    \/ EnterExtract
    \/ \E n \in 0..Mtu : ReaderRead(n)
    \/ NothingAsked \/ Feed \/ Parse \/ PushFragment \/ Continue \/ Fail

Next == PeerWrite \/ PeerClose \/ Reading

\* A call that was made runs as long as its Reader has something; the peer writes on,
\* and need not ever close.
Spec == Init /\ [][Next]_vars
FairSpec == Spec /\ WF_vars(Reading /\ loop # "idle") /\ WF_vars(PeerWrite)

----------------------------------------------------------------------------
(* Properties *)

\* The types of the state: the parser runs only for the loop, and a fragment that
\* it found is fetched before anything else happens.
TypeOK ==
    /\ written \in stream.ends \cup {0} /\ closed \in BOOLEAN
    /\ fed \in 0..written /\ Len(bs) <= Mtu
    /\ {exit, got} \subseteq BOOLEAN
    /\ loop \in {"idle", "buffer", "read", "feed", "parse"}
    /\ want \in Known /\ more \in Nat
    /\ pc # "caller" => loop = "parse"
    /\ loop = "idle" => ret # OK
    /\ \A k \in Keys : \A i \in DOMAIN buffers[k].frags : buffers[k].frags[i] \in Fragments

\* Whatever pieces the Reader returns and whatever `more' asks for, the cache and
\* the chunk that is about to be fed are the unparsed end of what was read: `bs' is
\* never fed twice and never dropped when the loop continues.
CacheIsTail ==
    LET held == rb.buffer \o (IF loop = "feed" THEN bs ELSE <<>>)
    IN  Len(held) <= fed /\ held = SubSeq(stream.bytes, fed - Len(held) + 1, fed)

\* What the application gets from Reads that return OK is what Delivery promises:
\* whole messages that were written, of the class that was asked for, each once,
\* whatever the stream interleaves and damages.
Read(d) == IF \E m \in Message : TypesOf[m] = d.types /\ Whole(d.buffer, m)
           THEN CHOOSE m \in Message : TypesOf[m] = d.types /\ Whole(d.buffer, m)
           ELSE NoTypes
Out     == [n \in DOMAIN delivered |-> Read(delivered[n])]
Pending == Message \ {Out[n] : n \in DOMAIN Out}

D == INSTANCE Delivery WITH pending <- Pending, out <- Out, Repeated <- {}

ImplementsDelivery == D!Spec

\* No fragment that was parsed is forgotten between two Reads: those the parser took
\* out of the cache are in a Buffer or in an answer.
Taken == {delivered[n].buffer : n \in DOMAIN delivered} \cup {buffers[k] : k \in Keys}
KeptInOrder ==
    \A j, k \in DOMAIN stream.sent :
        LET Have(i) == \E b \in Taken : Holds(b, FragmentOf(stream.sent[i].schema[1],
                                                            stream.sent[i].schema[2]))
        IN  (j < k /\ Have(k)) => Have(j)

\* The Reader has nothing, and Read waits for it.
Blocked == loop = "read" /\ more > 0 /\ Unread = 0 /\ ~closed

\* All of m's fragments were written intact, and m was not handed out.
Here(m) ==
    /\ \A i \in 1..Count[m] : \E j \in DOMAIN stream.sent :
          stream.sent[j].schema = <<m, i>> /\ stream.sent[j].end <= written
    /\ \A n \in DOMAIN delivered : ~Whole(delivered[n].buffer, m)

\* What may hold a message up: a Buffer that was got before a fragment of another
\* message in the same chunk (tssd.cc:300); fragments cached behind one that failed
\* its checksum, which the next Read does not look at before it reads (tssd.cc:288);
\* and a fragment that breaks off, for the rest of which the parser waits.
Overtaken == got /\ ~exit
Shelved   == /\ rb.magic = -1 /\ FindMagic(rb.buffer, 0) >= 0
             /\ codes # <<>> /\ codes[Len(codes)] = CHECKSUM
BrokenOff == \E p \in DOMAIN rb.buffer :
                 p > 1 /\ rb.magic >= 0 /\ FindMagic(rb.buffer, p - 1) >= 0
HeldUp    == Overtaken \/ Shelved \/ BrokenOff

\* A Read waits for the peer only while the message it wants is not completely
\* there: a peer that waits for the answer in turn would wait for ever.
WaitsForMore ==
    Blocked /\ ~HeldUp => \A m \in Message : TypesOf[m] = want => ~Here(m)

\* Read returns although the peer never closes, except where it waits with reason,
\* or a fragment's checksum straddles two reads and Extract asks for no more.
StuckAtChecksum == more = 0 /\ loop # "idle" /\ rb.payload >= 0 /\ rb.checksum < 0
ReturnsOrStuck ==
    \/ loop # "idle" ~> loop = "idle"
    \/ <>[]StuckAtChecksum
    \/ <>[](Blocked /\ (HeldUp \/ \A m \in Message : TypesOf[m] = want => ~Here(m)))
=============================================================================
