----------------------------- MODULE OwnBuffer ------------------------------
(***************************************************************************)
(* A Buffer the application holds itself, as the tests and forwarding      *)
(* programs do: one object, reused with Clear, fragments pushed into it    *)
(* from a stream that may interleave and repeat messages, read with Dump   *)
(* at any time, rewound, and cut again with Split and Merge.               *)
(*                                                                         *)
(* A payload byte is <<m, k>>, the k-th of message m.  A fragment that     *)
(* Split makes carries its payload, and a schema that nothing sets: its    *)
(* FID is whatever the memory holds.                                       *)
(***************************************************************************)
EXTENDS FragmentBuffer, SequencesExt

CONSTANTS
    Overhead,   \* heads_.size() + checksum_len_ of a received fragment
    SplitMtus,  \* the arguments Split is called with
    MaxDump,    \* bound: bytes of one Dump
    MaxBytes    \* bound: the longest payload that is cut again

ASSUME OwnBufferAssumption ==
    /\ Overhead \in Nat /\ SplitMtus \subseteq Nat
    /\ MaxDump \in Nat /\ MaxBytes \in Nat

VARIABLES
    buffer,        \* the Buffer: schema_, size_ and fragments_
    index, offset, \* its read position
    fault,         \* a null fragment was dereferenced, or a vector overrun
    accepted,      \* history: fragments pushed since the last Clear, not rejected
    answer,        \* history: what the last Push returned: -1 for an error, or Wanted()
    read,          \* history: the bytes Dump gave since the position was at the start
    cut            \* history: "no" as received, "cut" by Split or Merge, "mixed" when a
                   \* fragment was pushed after that

position == <<index, offset>>
vars == <<buffer, position, fault, accepted, answer, read, cut>>

Init ==
    /\ buffer = EmptyBuffer /\ index = 0 /\ offset = 0 /\ fault = FALSE
    /\ accepted = {} /\ answer = 1 /\ read = <<>> /\ cut = "no"

PushOne(f) ==
    /\ buffer' = Push(buffer, f)
    /\ answer' = IF Rejects(buffer, f) THEN -1 ELSE Wanted(Push(buffer, f))
    /\ accepted' = IF Rejects(buffer, f) THEN accepted ELSE accepted \cup {f}
    /\ cut' = IF Rejects(buffer, f) \/ cut = "no" THEN cut ELSE "mixed"
    /\ UNCHANGED <<position, fault, read>>

\* Mutant of Clear: the fragments stay.
ClearKeeps ==
    /\ buffer' = [EmptyBuffer EXCEPT !.frags = buffer.frags]
    /\ index' = 0 /\ offset' = 0
    /\ accepted' = {} /\ answer' = 1 /\ read' = <<>> /\ cut' = "no"
    /\ UNCHANGED fault

\* Buffer::Clear, and with it the next message.
Clear ==
    /\ buffer' = EmptyBuffer
    /\ index' = 0 /\ offset' = 0
    /\ accepted' = {} /\ answer' = 1 /\ read' = <<>> /\ cut' = "no"
    /\ UNCHANGED fault

----------------------------------------------------------------------------
(* Reading *)

Payload(f) == IF "payload" \in DOMAIN f THEN f.payload
              ELSE [k \in 1..f.len |-> <<f.msg, (f.no - 1) * PayloadLen[f.msg] + k>>]

\* The loops over fragments_[0], fragments_[1], ... meet no hole: operator[] would
\* insert a null fragment there.
Gapless == DOMAIN buffer.frags = 0..(Cardinality(DOMAIN buffer.frags) - 1)

\* One byte of Dump: at the end of a fragment on to the next.  A position behind the
\* end, in a shorter fragment that took the place of another, copies out of bounds.
ReadByte(r) ==
    LET at == IF r.index \in DOMAIN buffer.frags /\ r.offset = buffer.frags[r.index].len
              THEN [r EXCEPT !.index = @ + 1, !.offset = 0] ELSE r
    IN  IF \/ at.index \notin DOMAIN buffer.frags
           \/ at.offset > buffer.frags[at.index].len
        THEN [at EXCEPT !.fault = TRUE]
        ELSE [at EXCEPT !.offset = @ + 1,
                        !.bytes = Append(@, Payload(buffer.frags[at.index])[at.offset + 1])]

Reading(n) ==
    LET r[k \in 0..n] ==
            IF k = 0 THEN [index |-> index, offset |-> offset, fault |-> FALSE, bytes |-> <<>>]
            ELSE ReadByte(r[k - 1])
    IN  r[n]

\* Dump: n bytes, if size_ says that there are as many; else nothing changes.
Dump(n) ==
    /\ n <= buffer.size
    /\ LET r == Reading(n)
       IN  /\ fault' = r.fault
           /\ index' = r.index /\ offset' = r.offset
           /\ read' = read \o r.bytes
           /\ buffer' = [buffer EXCEPT !.size = @ - Len(r.bytes)]
    /\ UNCHANGED <<accepted, answer, cut>>

Contents == FlattenSeq([i \in 1..Cardinality(DOMAIN buffer.frags) |->
                           Payload(buffer.frags[i - 1])])

Rewind ==
    /\ Gapless
    /\ index' = 0 /\ offset' = 0 /\ read' = <<>>
    /\ buffer' = [buffer EXCEPT !.size = Len(Contents)]
    /\ UNCHANGED <<fault, accepted, answer, cut>>

----------------------------------------------------------------------------
(* Split and Merge *)

\* xs in pieces of n bytes, the last of what is left.
Piece(xs, n, i) == SubSeq(xs, i * n + 1, IF (i + 1) * n < Len(xs) THEN (i + 1) * n ELSE Len(xs))

Recut(mtu) ==
    LET capacity == mtu - Overhead
        places   == 0..((Len(Contents) - 1) \div capacity)
    IN  /\ \E fid \in [places -> {-1, 1}] :
              buffer' = [buffer EXCEPT
                  !.size  = Len(Contents),
                  !.frags = [i \in places |->
                     [fid |-> fid[i], len |-> Len(Piece(Contents, capacity, i)),
                      payload |-> Piece(Contents, capacity, i)]]]
        /\ index' = 0 /\ offset' = 0 /\ read' = <<>>
        /\ cut' = IF cut = "mixed" THEN "mixed" ELSE "cut"
        /\ UNCHANGED <<fault, accepted, answer>>

\* Nothing happens to an empty Buffer, or for an mtu without room for payload.
Split(mtu) ==
    /\ DOMAIN buffer.frags # {} /\ mtu > Overhead
    /\ Gapless /\ Len(Contents) <= MaxBytes
    /\ Recut(mtu)

Merge ==
    /\ Cardinality(DOMAIN buffer.frags) >= 2
    /\ Gapless /\ Len(Contents) <= MaxBytes
    /\ Recut(Len(Contents) + Overhead)

\* Rewind, Split and Merge dereference the null fragment of a hole, and Fragments()
\* writes behind its vector.
Stumble ==
    /\ ~Gapless
    /\ fault' = TRUE
    /\ UNCHANGED <<buffer, position, accepted, answer, read, cut>>

\* The program may crash at a fault, and a mixed Buffer holds parts of two cuts:
\* neither is followed.
Next ==
    /\ ~fault /\ cut # "mixed"
    /\ \/ \E f \in Fragments : PushOne(f)
       \/ Clear
       \/ \E n \in 1..MaxDump : Dump(n)
       \/ Rewind
       \/ \E mtu \in SplitMtus : Split(mtu)
       \/ Merge
       \/ Stumble

Spec == Init /\ [][Next]_vars

----------------------------------------------------------------------------
(* Properties *)

\* The types of the state.
TypeOK ==
    /\ accepted \subseteq Fragments
    /\ answer \in Nat \cup {-1}
    /\ buffer.types \in Types \cup {NoTypes} /\ buffer.size \in Nat
    /\ index \in Nat /\ offset \in Nat
    /\ cut = "no" => \A i \in DOMAIN buffer.frags : buffer.frags[i] \in accepted

\* The answer 0 is given with the fragment that completes the message: at that
\* moment the Buffer holds it whole (buffer.h:165-169).
ZeroIsWhole ==
    (answer = 0 /\ cut = "no") => \A f \in accepted : Good(f.msg) => Whole(buffer, f.msg)

\* What an application reads of a message, in pieces of any length, while fragments
\* arrive out of order and again, and between Rewind, Split and Merge, is the message
\* in order; and size_ is what it has not read yet (Dump buffer.cc:142, Push
\* buffer.cc:206, Rewind buffer.h:149, Split buffer.cc:234).  A fragment pushed after
\* Split or Merge replaces one that was cut differently, and ends this.
Bytes(m) == [k \in 1..((Count[m] - 1) * PayloadLen[m] + LastLen[m]) |-> <<m, k>>]
LenOf(b) == Cardinality(UNION {{i} \X (1..b.frags[i].len) : i \in DOMAIN b.frags})
ReadsMessage ==
    \A f \in accepted : (Good(f.msg) /\ cut # "mixed") =>
        /\ IsPrefix(read, Bytes(f.msg))
        /\ buffer.size = LenOf(buffer) - Len(read)
        /\ FragmentsOf(f.msg) \subseteq accepted => Contents = Bytes(f.msg)

\* A Buffer whose Push answered 0 can be read, rewound, cut and handed out as
\* Fragments() in any order without meeting a null fragment (buffer.cc:147, 245).
CompleteNeverFaults ==
    (fault /\ cut # "mixed") => answer # 0 \/ \E f \in accepted : ~Good(f.msg)
=============================================================================
