--------------------------- MODULE MCRBufferFeed ----------------------------
(***************************************************************************)
(* Streams for RBufferFeed.  MAGIC has three bytes, so that two of them    *)
(* can straddle chunks.                                                    *)
(***************************************************************************)
EXTENDS RBufferFeed

MCMagic == << <<"T", 0>>, <<"S", 0>>, <<"V", 0>> >>

Data(k) == <<"data", k>>

\* The pieces a stream is made of: fragments, the third with MAGIC and the start of
\* a header in its payload, and noise.
Frag(f) ==
    LET payload == CASE f = 1 -> <<Data(1), Data(2)>>
                     [] f = 2 -> <<Data(3)>>
                     [] f = 3 -> MCMagic \o <<Tschema>>
    IN  [bytes |-> Wire(f, payload), sent |-> <<[schema |-> f, payload |-> payload]>>]
Noise(bytes) == [bytes |-> bytes, sent |-> <<>>]

StreamOf(pieces, clean) ==
    [bytes |-> FlattenSeq([i \in DOMAIN pieces |-> pieces[i].bytes]),
     sent  |-> FlattenSeq([i \in DOMAIN pieces |-> pieces[i].sent]),
     clean |-> clean]

Start(n)          == Noise(SubSeq(MCMagic, 1, n))
Prefix(f, n)      == Noise(SubSeq(Frag(f).bytes, 1, n))
Broken(f, k, tok) == Noise([Frag(f).bytes EXCEPT ![k] = tok])

\* Noise that no parse step can take for a whole head: stray bytes, part of MAGIC,
\* MAGIC alone, and a fragment whose Tschema tag is damaged.
CleanStreams == {StreamOf(s, TRUE) : s \in
    { <<Frag(1), Frag(2)>>,
      <<Noise(<<Data(8)>>), Frag(3), Frag(1)>>,
      <<Start(3), Frag(1), Start(3), Frag(2)>>,
      <<Start(2), Frag(2), Noise(<<Data(8)>>), Frag(3), Start(1)>>,
      <<Broken(2, 4, Data(9)), Frag(1), Start(1), Frag(2)>> }}

\* Noise that is taken for one: a damaged payload, a damaged length, a fragment
\* that breaks off, a schema that does not parse.
DirtyStreams == {StreamOf(s, FALSE) : s \in
    { <<Broken(1, 8, Data(9)), Frag(2)>>,
      <<Broken(1, 7, Array(3)), Frag(2), Frag(1)>>,
      <<Prefix(1, 8), Frag(2), Frag(1)>>,
      <<Prefix(3, 9), Frag(1), Frag(2)>>,
      <<Broken(1, 6, <<"schema end", 2>>), Frag(2), Noise(<<Data(8)>>)>> }}

AllStreams == CleanStreams \cup DirtyStreams
=============================================================================
