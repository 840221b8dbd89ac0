----------------------------- MODULE Unmarshal -----------------------------
(***************************************************************************)
(* A Buffer and an object read from it.  An object of class `from' is      *)
(* marshalled into a Buffer of one or two fragments, the second of which   *)
(* may be late.  A caller reads it into an object of class `to' that holds *)
(* something already, again and again, rewinding or not; or copies it.     *)
(***************************************************************************)
EXTENDS Codec

CONSTANTS
    Shapes,     \* the classes
    Sample,     \* Sample[t]: the objects of class t that are sent
    Stale,      \* Stale[t]: what a destination of class t may hold before
    MaxReads    \* bound on the calls of UnmarshalTo

ASSUME UnmarshalAssumption ==
    /\ MaxReads \in Nat
    /\ \A t \in Shapes : t.k = "obj" /\ Len(t.of) < SizeaMod \div 2

VARIABLES
    from, src,  \* the object that is sent, and its class
    to, dest,   \* the object it is read into, and its class
    payload,    \* what was saved, empty before that
    cut,        \* the length of the first fragment
    late,       \* whether the second fragment is still missing
    pos,        \* index_ and offset_
    ret,        \* what the last call returned
    reads       \* the calls of UnmarshalTo so far

vars == <<from, src, to, dest, payload, cut, late, pos, ret, reads>>

buf == [bytes |-> IF late THEN SubSeq(payload, 1, cut) ELSE payload, cut |-> cut]

\* The classes that the receiver takes a message of this class for.
SameTypes(t) == {u \in Shapes : MakeTypes(u) = MakeTypes(t)}

Init ==
    /\ from \in Shapes /\ src \in Sample[from]
    /\ to \in SameTypes(from) /\ dest \in Stale[to]
    /\ payload = <<>> /\ cut = 0 /\ late = FALSE
    /\ pos = 0 /\ ret = OK /\ reads = 0

\* MarshalTo, and the fragments Append happened to make of it.
MarshalTo ==
    /\ payload = <<>>
    /\ payload' = save(from, src)
    /\ cut' \in 1..Len(payload')
    /\ late' \in (IF cut' = Len(payload') THEN {FALSE} ELSE BOOLEAN)
    /\ UNCHANGED <<from, src, to, dest, pos, ret, reads>>

\* Push of the second fragment
Push ==
    /\ late
    /\ late' = FALSE
    /\ UNCHANGED <<from, src, to, dest, payload, cut, pos, ret, reads>>

Rewind ==
    /\ payload # <<>> /\ pos # 0
    /\ pos' = 0
    /\ UNCHANGED <<from, src, to, dest, payload, cut, late, ret, reads>>

UnmarshalTo ==
    /\ payload # <<>> /\ reads < MaxReads
    /\ reads' = reads + 1
    /\ LET r == dump(to, buf, pos, dest)
       IN  ret' = r.ret /\ pos' = r.pos /\ dest' = r.val
    /\ UNCHANGED <<from, src, to, payload, cut, late>>

Copy ==
    /\ to = from
    /\ UNCHANGED <<from, src, to, payload, cut, late, pos, ret, reads>>
    /\ dest' = copy(to, src, dest)

Next == MarshalTo \/ Push \/ Rewind \/ UnmarshalTo \/ Copy

Spec == Init /\ [][Next]_vars

----------------------------------------------------------------------------
(* What the properties except *)

\* No string is empty: reading one assigns nothing.
NoEmptyString == \A q \in Parts(from, src) : q[1].k = "str" => q[2] # <<>>

\* What class u makes of v, an object of class t: of the classes with the same
\* Types one has a vector where another has an array, a list or a set, or what
\* another points to.  Where there is nothing to point to, no value of u at all.
RECURSIVE As(_, _, _)
As(t, v, u) ==
    CASE t.k = "ptr" /\ v = <<>> -> IF u.k = "ptr" THEN <<>> ELSE <<-1>>
      [] t.k = "ptr" /\ v # <<>> -> As(t.of, v[1], u)
      [] t.k # "ptr" /\ u.k = "ptr" -> <<As(t, v, u.of)>>
      [] t.k \in {"num", "str", "time"} -> v
      [] t.k = "obj" -> [i \in DOMAIN v |-> As(t.of[i], v[i], u.of[i])]
      [] t.k = "map" -> [x \in DOMAIN v |-> As(t.val, v[x], u.val)]
      [] OTHER ->
            LET s == IF t.k = "set" THEN Sorted(v) ELSE v
                w == [i \in DOMAIN s |-> As(t.of, s[i], u.of)]
            IN  IF u.k = "set" THEN Range(w) ELSE w

\* What the receiver should find in its object.
sent == As(from, src, to)

\* No two elements in a row of a container have a pointer at the same place,
\* unless to equal things: those two will share their object.
RECURSIVE Follow(_, _)
Follow(t, s) ==
    CASE t.k = "ptr" ->
            \A i \in 2..Len(s) : s[i] # <<>> /\ s[i - 1] # <<>> => s[i] = s[i - 1]
      [] t.k = "obj" -> \A f \in DOMAIN t.of : Follow(t.of[f], [i \in DOMAIN s |-> s[i][f]])
      [] t.k = "arr" -> \A f \in 1..t.n : Follow(t.of, [i \in DOMAIN s |-> s[i][f]])
      [] OTHER -> TRUE
NoAliases ==
    \A q \in Parts(to, sent) :
        /\ q[1].k \in {"vec", "list"} => Follow(q[1].of, q[2])
        /\ q[1].k = "map" => LET keys == Keys(q[1], q[2])
                             IN  Follow(q[1].val, [i \in DOMAIN keys |-> q[2][keys[i]]])

\* No container has more elements than sizea counts.
NoOverflow ==
    \A q \in Parts(from, src) :
        q[1].k \in {"vec", "list"} => Len(q[2]) < SizeaMod \div 2

\* No null pointer is the first thing in a fragment: PeekByte does not see it.
NoNullAtCut == cut < Len(payload) => payload[cut + 1] < 128

\* No array of arrays of numbers wider than a byte, on either side: its rows
\* overlap.
NoOverlap ==
    \A q \in Parts(from, src) \cup Parts(to, sent) :
        q[1].k = "arr" /\ q[1].of.k = "arr" => q[1].of.of.size = 1

\* No instant is one that parseNano refuses (TimesReadBack of module Time).
NoRefused ==
    \A q \in Parts(from, src) : q[1].k = "time" => ~Refused(formatNano(q[2]))

Plain == NoEmptyString /\ NoAliases /\ NoOverflow /\ NoNullAtCut /\ NoOverlap

\* The call of UnmarshalTo starts at the beginning of the whole message.
FromStart == pos = 0 /\ ~late

----------------------------------------------------------------------------
(* Properties *)

WellFormed(t, v) ==
    CASE t.k = "num" -> Len(v) = t.size
      [] t.k = "time" -> Len(v) = 1
      [] t.k = "obj" -> Len(v) = Len(t.of)
      [] t.k = "arr" -> Len(v) = t.n
      [] t.k = "ptr" -> Len(v) <= 1
      [] t.k = "map" -> v = <<>> \/ DOMAIN v # {}
      [] OTHER       -> TRUE

\* What is in the destination is an object of its class, whatever was read into
\* it and however the read ended, and the position is within the Buffer.
TypeOK ==
    /\ from \in Shapes /\ src \in Sample[from]
    /\ to \in Shapes /\ MakeTypes(to) = MakeTypes(from)
    /\ \A q \in Parts(to, dest) : WellFormed(q[1], q[2])
    /\ cut \in 0..Len(payload) /\ late \in BOOLEAN /\ reads \in 0..MaxReads
    /\ pos \in 0..Len(buf.bytes) /\ ret \in {OK, FORMAT, INSUFFICIENT}

\* UnmarshalTo of a whole message into its own class succeeds, consumes it and
\* leaves in the destination what was sent, wherever the fragments were cut and
\* whatever was there before; and Copy leaves what was copied.  The exceptions,
\* which the code does not mean, are those of Plain and NoRefused.
ReadsBack ==
    [][ /\ FromStart /\ UnmarshalTo /\ to = from /\ Plain /\ NoRefused =>
               /\ ret' = OK /\ pos' = Len(payload)
               /\ dest' = src /\ equal(to, dest', src)
        /\ Copy /\ NoAliases /\ NoOverlap => dest' = src /\ equal(to, dest', src) ]_vars

\* Types, by which the receiver accepts a message, does not tell a vector from
\* an array or a set, nor an object from a pointer to it.  Reading a message
\* into another class of the same Types gives its contents or an error; so does
\* reading an instant whose text is refused.
HonestAcrossClasses ==
    [][FromStart /\ ret' = OK /\ UnmarshalTo /\ Plain => dest' = sent]_vars

\* A read that does not start at the beginning of the whole message, because a
\* fragment is missing, or the message was read already and not rewound, is
\* refused and leaves the destination as it was.  Not so after a FORMAT error:
\* then the Buffer stands inside the message, where an object may start that
\* passes for the whole one.
RefusedUntouched ==
    [][~FromStart /\ ret # FORMAT /\ UnmarshalTo => ret' # OK /\ dest' = dest]_vars

\* typeinfo_test.cc:165-188 fills a vector, a list, a set and maps with strings,
\* one key empty, reads them into a fresh object and expects them equal.
StringsReadBack ==
    [][ UnmarshalTo /\ FromStart /\ to = from /\ dest = Default(to)
            /\ NoAliases /\ NoOverflow /\ NoNullAtCut /\ NoOverlap /\ NoRefused
        => equal(to, src, dest') ]_vars
=============================================================================
