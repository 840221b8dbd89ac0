---------------------------- MODULE BufferWrite ----------------------------
(***************************************************************************)
(* The write side of tssd::Buffer (buffer.h, buffer.cc): Prepare builds    *)
(* the header every fragment starts with, the TypeInfo savers append bytes *)
(* and go back to patch the size fields they reserved, Finish seals the    *)
(* fragments, Split and Merge cut the sealed message again.                *)
(*                                                                         *)
(* A byte is a cell: a leaf byte carries the number it was saved under, a  *)
(* byte of a size field the value of the field and its place in the field, *)
(* a header byte its place in the header.  The two header fields that are  *)
(* patched in place (FID, and the length of the payload array) are fields  *)
(* of the fragment; the checksum is the content it was computed over, i.e. *)
(* the hash is taken to be injective.                                      *)
(***************************************************************************)
EXTENDS Integers, Sequences, FiniteSets, SequencesExt

CONSTANTS
    Mtus,       \* the mtu_ a Buffer may be constructed with
    HeadLens,   \* the lengths Prepare's header may have (the schema decides)
    MinMtu,     \* TSSD_BUFFER_MIN_MTU
    ChecksumLen,\* [Tarraym][Tuint8][sizet][sizea] and the hash
    SizetLen,   \* TSSD_SIZET_LENGTH
    SizeaLen,   \* TSSD_SIZEA_LENGTH
    Int16Max,   \* the largest std::int16_t
    SplitMtus,  \* the arguments Split is called with
    MaxChunk,   \* bound: bytes of one leaf Append
    MaxSaved,   \* bound: bytes of one message
    MaxDepth    \* bound: containers open at the same time

ASSUME BufferWriteAssumption ==
    /\ Mtus \cup HeadLens \cup SplitMtus \subseteq Nat \ {0}
    /\ {MinMtu, SizetLen, SizeaLen, MaxChunk, MaxSaved} \subseteq Nat \ {0}
    /\ {ChecksumLen, Int16Max, MaxDepth} \subseteq Nat
    /\ \A h \in HeadLens : h >= SizetLen    \* the FID lies behind MAGIC's 4 bytes
    /\ ChecksumLen < MinMtu                 \* 8 and the hash, against 256

VARIABLES
    buf,        \* the Buffer
    saved,      \* history: the bytes the savers mean the payload to be
    open,       \* the savers' frames: what Ftell and AppendSize4(0) returned
    phase       \* "saving", "sealed" by Finish, "recut" by Split or Merge, or
                \* the ends of a failed Append ("wedged") and Finish ("threw")

vars == <<buf, saved, open, phase>>

----------------------------------------------------------------------------
(* Cells *)

Zero          == <<"zero", 0, 0>>
HeadByte(j)   == <<"head", j, 0>>
Sum(j)        == <<"sum", j, 0>>
Leaf(k)       == <<"leaf", k, 0>>
SizetByte(n, j) == <<"sizet", n, j>>

SizetField(n) == [j \in 1..SizetLen |-> SizetByte(n, j)]
Leaves(k, n)  == [j \in 1..n |-> Leaf(k + j)]

\* What a std::int16_t holds after n was stored in it.
Int16(n) == ((n + Int16Max + 1) % (2 * (Int16Max + 1))) - (Int16Max + 1)

NoChecksum == [at |-> -1, over |-> <<>>]

----------------------------------------------------------------------------
(* The Buffer object *)

EmptyBuffer(m) ==
    [mtu |-> m, heads |-> 0, checksum |-> 0, sizet |-> 0, sizea |-> 0,
     frags |-> << >>, windex |-> 0, woffset |-> 0, size |-> 0]

\* fragments_[i]: the source numbers the fragments from 0.
Frag(b, i)   == b.frags[i + 1]
Room(b, f)   == Len(f.data) - b.checksum
Cell(f, off) == f.data[off + 1]

NewFragment(b) ==
    [data     |-> [j \in 1..b.mtu |-> IF j <= b.heads THEN HeadByte(j) ELSE Zero],
     fid      |-> IF b.heads > 0 THEN Int16(b.windex + 1) ELSE 0,
     sizet    |-> b.sizet,
     sizea    |-> b.sizea,
     payload  |-> <<>>,
     checksum |-> NoChecksum]

\* Append cannot place a byte when a new fragment has no room behind its header:
\* it adds fragments forever (or, with less than no room, copies out of bounds).
NoRoom(b) == b.heads > 0 /\ b.heads + b.checksum >= b.mtu

\* One byte of Append: a full fragment hands over to the next one at offset
\* 0, and only a fragment that is new gets the header.
Put(b, x) ==
    LET full  == b.windex < Len(b.frags) /\ b.woffset = Room(b, Frag(b, b.windex))
        at    == [b EXCEPT !.windex  = IF full THEN @ + 1 ELSE @,
                           !.woffset = IF full THEN 0 ELSE @]
        fresh == at.windex = Len(at.frags)
        off   == IF fresh THEN at.woffset + at.heads ELSE at.woffset
        frags == IF fresh THEN Append(at.frags, NewFragment(at)) ELSE at.frags
    IN  [at EXCEPT !.frags   = [frags EXCEPT ![at.windex + 1].data[off + 1] = x],
                   !.woffset = off + 1,
                   !.size    = @ + 1]

PutAll(b, xs) == FoldLeft(Put, b, xs)

\* Mutants of UpdateSize: size_ is not restored; the write offset is not.
UpdateSizeGrows(b, index, offset, n) ==
    [PutAll([b EXCEPT !.windex = index, !.woffset = offset], SizetField(n)) EXCEPT
        !.windex = b.windex, !.woffset = b.woffset]
UpdateSizeStays(b, index, offset, n) ==
    [PutAll([b EXCEPT !.windex = index, !.woffset = offset], SizetField(n)) EXCEPT
        !.windex = b.windex, !.size = b.size]

\* UpdateSize: seek, AppendSize4, restore the write position and the size.
UpdateSize(b, index, offset, n) ==
    LET patched == PutAll([b EXCEPT !.windex = index, !.woffset = offset],
                          SizetField(n))
    IN  [patched EXCEPT !.windex = b.windex, !.woffset = b.woffset, !.size = b.size]

----------------------------------------------------------------------------
(* Finish *)

\* appendChecksum covers the pos bytes in front of it.
Covered(f, pos) == <<f.fid, f.sizet, f.sizea, SubSeq(f.data, 1, pos)>>

AppendChecksum(b, f, pos) ==
    [f EXCEPT !.data = [j \in DOMAIN @ |-> IF j \in pos + 1 .. pos + b.checksum
                                           THEN Sum(j - pos) ELSE @[j]],
              !.checksum = [at |-> pos, over |-> Covered(f, pos)]]

SealFull(b, f) ==
    [AppendChecksum(b, f, Room(b, f)) EXCEPT
        !.payload = SubSeq(f.data, b.heads + 1, Room(b, f))]

\* Mutant of SealLast: the checksum is computed before the header is patched.
SealLastTooSoon(b, f) ==
    LET length == b.woffset - b.heads
    IN  [AppendChecksum(b, f, b.woffset) EXCEPT
           !.fid = Int16(-(b.windex + 1)), !.sizet = length + SizeaLen, !.sizea = Int16(length),
           !.payload = SubSeq(f.data, b.heads + 1, b.woffset),
           !.data    = SubSeq(@, 1, b.woffset + b.checksum)]

SealLast(b, f) ==
    LET length == b.woffset - b.heads
        patched == [f EXCEPT !.fid   = Int16(-(b.windex + 1)),
                             !.sizet = length + SizeaLen,
                             !.sizea = Int16(length)]
        summed == AppendChecksum(b, patched, b.heads + length)
    IN  [summed EXCEPT
           !.payload = SubSeq(f.data, b.heads + 1, b.heads + length),
           !.data    = SubSeq(@, 1, b.heads + length + b.checksum)]

\* Finish without a header: every fragment but the last is payload as a whole.
RawRest(b) == b.size - b.windex * b.mtu

SealRaw(b) ==
    [b EXCEPT !.frags = [i \in DOMAIN b.frags |->
        LET f    == b.frags[i]
            rest == [j \in 1..RawRest(b) |-> IF j <= b.mtu THEN f.data[j] ELSE Zero]
        IN  IF i - 1 < b.windex THEN [f EXCEPT !.payload = f.data]
            ELSE [f EXCEPT !.data = rest, !.payload = rest]]]

SealHeads(b) ==
    [b EXCEPT !.frags = [i \in DOMAIN b.frags |->
        IF i - 1 < b.windex THEN SealFull(b, b.frags[i]) ELSE SealLast(b, b.frags[i])]]

Sealed(b) == IF b.size = 0 THEN b
             ELSE IF b.heads = 0 THEN SealRaw(b) ELSE SealHeads(b)

\* data.resize of a negative std::size_t throws.
Throws(b) == b.size > 0 /\ b.heads = 0 /\ RawRest(b) < 0

----------------------------------------------------------------------------
(* Actions *)

Init ==
    /\ \E m \in Mtus : buf = EmptyBuffer(m)
    /\ saved = <<>> /\ open = <<>> /\ phase = "saving"

Max2(a, b) == IF a >= b THEN a ELSE b

\* Prepare: the header is marshalled into a Buffer of its own (mtu_/3, at
\* least MinMtu); a header of more than one fragment, or than mtu_, is an error
\* that leaves heads_ empty.  MarshalTo goes on saving either way.
Prepare(h) ==
    /\ phase = "saving" /\ saved = <<>> /\ buf.heads = 0 /\ buf.checksum = 0
    /\ LET m     == Max2(buf.mtu, MinMtu)
           avail == m - h - ChecksumLen
           fits  == h <= m /\ h <= Max2(m \div 3, MinMtu)
       IN  buf' = IF fits
                  THEN [buf EXCEPT !.mtu = m, !.checksum = ChecksumLen, !.heads = h,
                                   !.sizet = avail + SizeaLen, !.sizea = Int16(avail)]
                  ELSE [buf EXCEPT !.mtu = m, !.checksum = ChecksumLen]
    /\ UNCHANGED <<saved, open, phase>>

\* A saver appends n bytes it will not come back to.
SaveLeaf(n) ==
    /\ phase = "saving" /\ ~NoRoom(buf) /\ Len(saved) + n <= MaxSaved
    /\ LET bytes == Leaves(Len(saved), n)
       IN  /\ buf' = PutAll(buf, bytes)
           /\ saved' = saved \o bytes
    /\ UNCHANGED <<open, phase>>

\* The first Append behind a header that leaves no room.
Wedge ==
    /\ phase = "saving" /\ NoRoom(buf)
    /\ phase' = "wedged"
    /\ UNCHANGED <<buf, saved, open>>

\* objectOper, arrayOper, vectorOper, ...::save up to the first child: the tag,
\* Ftell, AppendSize4(0), AppendSize2(count).
OpenContainer ==
    /\ phase = "saving" /\ ~NoRoom(buf) /\ Len(open) < MaxDepth
    /\ Len(saved) + 1 + SizetLen + SizeaLen <= MaxSaved
    /\ LET tag   == Leaves(Len(saved), 1)
           sizea == Leaves(Len(saved) + 1 + SizetLen, SizeaLen)
           told  == PutAll(buf, tag)
           reserved == PutAll(told, SizetField(0))
       IN  /\ buf' = PutAll(reserved, sizea)
           /\ open' = Append(open, [index |-> told.windex, offset |-> told.woffset,
                                    pos |-> reserved.size, at |-> Len(saved) + 1])
           /\ saved' = saved \o tag \o SizetField(0) \o sizea
    /\ UNCHANGED phase

\* ... and after the last child: UpdateSize.
CloseContainer ==
    /\ phase = "saving" /\ open # <<>>
    /\ LET frame == Last(open)
           n     == buf.size - frame.pos
       IN  /\ buf' = UpdateSize(buf, frame.index, frame.offset, n)
           /\ saved' = [k \in DOMAIN saved |->
                          IF k \in frame.at + 1 .. frame.at + SizetLen
                          THEN SizetByte(Len(saved) - frame.at - SizetLen, k - frame.at)
                          ELSE saved[k]]
    /\ open' = Front(open)
    /\ UNCHANGED phase

Finish ==
    /\ phase = "saving" /\ open = <<>> /\ saved # <<>>
    /\ phase' = IF Throws(buf) THEN "threw" ELSE "sealed"
    /\ buf' = IF Throws(buf) THEN buf ELSE Sealed(buf)
    /\ UNCHANGED <<saved, open>>

Payload(b) == FlattenSeq([i \in DOMAIN b.frags |-> b.frags[i].payload])

Cut(b, m) ==
    PutAll([b EXCEPT !.mtu = m, !.size = 0, !.windex = 0, !.woffset = 0, !.frags = <<>>],
           Payload(b))

Recut(m) ==
    /\ m > buf.heads + buf.checksum
    /\ phase' = IF Throws(Cut(buf, m)) THEN "threw" ELSE "recut"
    /\ buf' = IF Throws(Cut(buf, m)) THEN Cut(buf, m) ELSE Sealed(Cut(buf, m))

Split(m) ==
    /\ phase \in {"sealed", "recut"} /\ buf.frags # <<>>
    /\ Recut(m)
    /\ UNCHANGED <<saved, open>>

\* Mutant of Merge: the checksum is left out of the mtu.
MergeTooSmall ==
    /\ phase \in {"sealed", "recut"} /\ Len(buf.frags) >= 2
    /\ Recut(Len(Payload(buf)) + buf.heads)
    /\ UNCHANGED <<saved, open>>

\* Merge rewinds, so that size_ is the payload of all fragments, and splits
\* with an mtu that fits the whole message.
Merge ==
    /\ phase \in {"sealed", "recut"} /\ Len(buf.frags) >= 2
    /\ Recut(Len(Payload(buf)) + buf.heads + buf.checksum)
    /\ UNCHANGED <<saved, open>>

\* Mutant of Clear: the write position is not reset.
ClearKeepsPosition ==
    /\ phase \in {"saving", "sealed", "recut"} /\ open = <<>>
    /\ buf' = [EmptyBuffer(buf.mtu) EXCEPT !.windex = buf.windex]
    /\ saved' = <<>> /\ open' = <<>> /\ phase' = "saving"

\* Clear keeps mtu_ alone.
Clear ==
    /\ phase \in {"saving", "sealed", "recut"} /\ open = <<>>
    /\ buf' = EmptyBuffer(buf.mtu)
    /\ saved' = <<>> /\ open' = <<>> /\ phase' = "saving"

Next ==
    \/ \E h \in HeadLens : Prepare(h)
    \/ \E n \in 1..MaxChunk : SaveLeaf(n)
    \/ Wedge
    \/ OpenContainer \/ CloseContainer
    \/ Finish
    \/ \E m \in SplitMtus : Split(m)
    \/ Merge
    \/ Clear

Spec == Init /\ [][Next]_vars

----------------------------------------------------------------------------
(* Properties *)

Cells == {"zero", "head", "sum", "leaf", "sizet"} \X Nat \X Nat

\* The types of the state: write position inside the fragment it names, header
\* and checksum lengths that Prepare can have set (buffer.h:14-24).
TypeOK ==
    /\ phase \in {"saving", "sealed", "recut", "threw", "wedged"}
    /\ buf.heads \in {0} \cup HeadLens /\ buf.checksum \in {0, ChecksumLen}
    /\ buf.windex \in 0..Len(buf.frags) /\ buf.woffset \in 0..buf.mtu
    /\ \A i \in DOMAIN buf.frags : Range(buf.frags[i].data) \subseteq Cells
    /\ Range(saved) \subseteq Cells
    /\ \A i \in DOMAIN open : open[i].index \in 0..buf.windex

\* Prepare succeeded, or was never called: MarshalTo's other case is below.
Framed == buf.heads > 0 \/ buf.checksum = 0

\* The payload a fragment holds for one message byte.
Capacity == buf.mtu - buf.heads - buf.checksum

\* Behind a header, the bytes of a size field that are not in the fragment its
\* tag ended in are never patched: UpdateSize writes them over the next header.
Strays(k) ==
    /\ buf.heads > 0 /\ saved[k][1] = "sizet"
    /\ (k - 1) \div Capacity # (k - saved[k][3] - 1) \div Capacity

\* Append and UpdateSize place every byte of the message, each in its order and
\* size fields with their final value, while fragments are added, containers
\* nest and fields are patched behind the write position; only bytes that stray
\* keep the reserved 0 (Append buffer.cc:102, UpdateSize buffer.h:129).
StreamInPlace ==
    (phase \in {"saving", "sealed"} /\ Framed /\ ~NoRoom(buf)) =>
        \A k \in DOMAIN saved :
            LET f == buf.frags[(k - 1) \div Capacity + 1]
                x == f.data[buf.heads + ((k - 1) % Capacity) + 1]
            IN  x = IF Strays(k) THEN SizetByte(0, saved[k][3]) ELSE saved[k]

\* size_ is the length of the message through every append, patch and cut, so a
\* container's size field (Size() - pos) counts its children and nothing else.
SizeIsSaved ==
    (phase \in {"saving", "sealed", "recut"} /\ Framed) => buf.size = Len(saved)

\* What RBuffer's parse steps require of a fragment's own bytes: its header, and a
\* checksum over all that is in front of it, as it is sent.  The length the header
\* states is that of the payload.
Legible(f) ==
    /\ \A j \in 1..buf.heads : f.data[j] = HeadByte(j)
    /\ f.sizet = f.sizea + SizeaLen
    /\ f.checksum = [at |-> buf.heads + Len(f.payload),
                     over |-> Covered(f, buf.heads + Len(f.payload))]
Parsable(f) == Legible(f) /\ f.sizea = Len(f.payload)

FIDs(b) == [i \in DOMAIN b.frags |-> b.frags[i].fid]
LegalFIDs(n) == [i \in 1..n |-> IF i = n THEN -n ELSE i]

\* The ids, and the lengths that Prepare and Finish store, fit a std::int16_t.
Countable == /\ buf.mtu <= Int16Max /\ buf.sizet <= Int16Max + SizeaLen
             /\ Len(buf.frags) <= Int16Max

\* After Finish a receiver can parse every fragment that no size field strayed
\* into, and the ids run 1, 2, ..., -n (Finish buffer.cc:62, tssd.h:88).  After Split
\* and Merge, however often, it can parse the last fragment; the others are legible,
\* but state the length that Prepare computed for the old mtu (Split buffer.cc:246).
SealedIsParsable ==
    (phase \in {"sealed", "recut"} /\ buf.heads > 0 /\ Countable) =>
        /\ FIDs(buf) = LegalFIDs(Len(buf.frags))
        /\ \A i \in DOMAIN buf.frags :
              \/ Parsable(buf.frags[i])
              \/ phase = "sealed" /\ \E k \in DOMAIN saved :
                                        Strays(k) /\ (k - 1) \div Capacity = i - 1
              \/ phase = "recut" /\ i < Len(buf.frags) /\ Legible(buf.frags[i])

\* Split and Merge cut the same payload, and Merge leaves a single fragment that
\* is marked as the last (buffer.cc:227-248).
RecutKeepsPayload ==
    [][ (Framed /\ phase' = "recut") =>
          /\ Payload(buf') = Payload(buf)
          /\ (Merge => Len(buf'.frags) = 1)
          /\ (buf.heads > 0 /\ Len(buf'.frags) <= Int16Max) =>
                FIDs(buf') = LegalFIDs(Len(buf'.frags)) ]_vars

----------------------------------------------------------------------------
(* What the repository says and the code does not do *)

\* buffer.cc:42: every fragment starts with the header, [TSSD]... first.
HeadersIntact ==
    \A i \in DOMAIN buf.frags : \A j \in 1..buf.heads :
        buf.frags[i].data[j] = HeadByte(j)
=============================================================================
