-------------------------- MODULE MCRBufferReader ---------------------------
(***************************************************************************)
(* Streams for RBufferReader: two messages of a known class, interleaved,  *)
(* and one of a class that is not registered.  MAGIC has two bytes.        *)
(***************************************************************************)
EXTENDS RBufferReader, TLC

CONSTANTS m1, m2, m3, A, B, C, x, y

MCMagic == << <<"T", 0>>, <<"S", 0>> >>

\* m1 and m2 can be read, m3 cannot.
MCTypesOf == m1 :> A @@ m2 :> B @@ m3 :> C
MCTIDOf   == m1 :> x @@ m2 :> y @@ m3 :> x

MCCount      == m1 :> 2 @@ m2 :> 1 @@ m3 :> 1
MCPayloadLen == m1 :> 2 @@ m2 :> 2 @@ m3 :> 2
MCLastLen    == m1 :> 1 @@ m2 :> 2 @@ m3 :> 1

Data(k) == <<"data", k>>

Frag(m, i) ==
    LET payload == [j \in 1..FragmentOf(m, i).len |-> Data(j)]
    IN  [bytes |-> Wire(<<m, i>>, payload),
         sent  |-> <<[schema |-> <<m, i>>, payload |-> payload]>>]
Noise(bytes) == [bytes |-> bytes, sent |-> <<>>]

\* The pieces one after another; each is written at once.
EndOf(pieces, k) == FoldLeft(LAMBDA n, i : n + Len(pieces[i].bytes), 0, [i \in 1..k |-> i])
StreamOf(pieces) ==
    [bytes |-> FlattenSeq([i \in DOMAIN pieces |-> pieces[i].bytes]),
     sent  |-> FlattenSeq([i \in DOMAIN pieces |->
                   [j \in DOMAIN pieces[i].sent |->
                       pieces[i].sent[j] @@ [end |-> EndOf(pieces, i)]]]),
     ends  |-> {EndOf(pieces, i) : i \in DOMAIN pieces}]

Damaged(m) == Noise([Frag(m, 1).bytes EXCEPT ![8] = Data(9)])

\* A fragment of 15 payload bytes that was not written to its end.
BrokenOffAt(n) == Noise(SubSeq(Wire(<<m3, 1>>, [j \in 1..15 |-> Data(j)]), 1, n))

\* Fragments back to back and interleaved; noise between them.
PlainStreams == {StreamOf(s) : s \in
    { <<Frag(m2, 1), Frag(m1, 1), Frag(m1, 2)>>,
      <<Frag(m1, 2), Frag(m2, 1), Frag(m1, 1)>>,
      <<Noise(<<Data(8)>>), Frag(m1, 1), Frag(m3, 1), Noise(MCMagic), Frag(m1, 2)>> }}

\* The same with a fragment that fails its checksum, and with one that breaks off.
DamagedStreams == {StreamOf(s) : s \in
    { <<Frag(m1, 1), Damaged(m2), Frag(m1, 2)>>,
      <<Frag(m2, 1), Damaged(m2), Frag(m1, 1)>>,
      <<BrokenOffAt(7), Frag(m2, 1), Frag(m1, 2)>> } }

AllStreams == PlainStreams \cup DamagedStreams
=============================================================================
