------------------------------- MODULE Codec -------------------------------
(***************************************************************************)
(* The operators of TypeInfo (typeinfo.h, typeinfo.cc): save, dump, copy   *)
(* and equal by reflection, and the read side of Buffer under them.        *)
(*                                                                         *)
(* A shape is a TypeInfo: a record with the kind k of its operators and    *)
(* its children.  Values: the bytes of a number, the characters of a       *)
(* string, <<n>> for an instant, a tuple for an object, an array, a vector *)
(* or a list, a set, a function for a map; a pointer is <<>> or <<what it  *)
(* points to>>.  The members of a set and the keys of a map are numbers or *)
(* strings.  The module has recursive operators and is only model-checked. *)
(***************************************************************************)
EXTENDS Integers, Sequences, SequencesExt

CONSTANTS
    SizeaMod    \* the range of sizea: 2^16 in the code, narrowed here

ASSUME CodecAssumption == SizeaMod % 2 = 0 /\ SizeaMod <= 256

OK           == 0
FORMAT       == -1
INSUFFICIENT == -2

Tint8   == 12
Tint16  == 14
Tstring == 22
Ttime   == 23
Tarray  == 25
Tarraym == 26
Tobject == 27
Tdict   == 28
Tdictk  == 29
Tdictv  == 30

----------------------------------------------------------------------------
(* Shapes *)

Num(tag, size) == [k |-> "num", tag |-> tag, size |-> size]
Str            == [k |-> "str"]
Timespec       == [k |-> "time"]                \* and chrono::time_point
Obj(of)        == [k |-> "obj", of |-> of]
Arr(n, of)     == [k |-> "arr", n |-> n, of |-> of]
Vec(of)        == [k |-> "vec", of |-> of]
List(of)       == [k |-> "list", of |-> of]
Set(of)        == [k |-> "set", of |-> of]
Map(key, val)  == [k |-> "map", key |-> key, val |-> val, sorted |-> TRUE]
HashMap(key, val) == [Map(key, val) EXCEPT !.sorted = FALSE]  \* unordered_map
Ptr(of)        == [k |-> "ptr", of |-> of]      \* shared_ptr and unique_ptr
Ref(of)        == of                            \* treated as what it refers to

\* parse, UpdateMergedArray: a collection of numbers, a set too, is merged.
tssd_type(t) ==
    CASE t.k = "num" -> t.tag
      [] t.k = "str" -> Tstring
      [] t.k = "time" -> Ttime
      [] t.k = "obj" -> Tobject
      [] t.k = "map" -> Tdict
      [] OTHER       -> IF t.of.k = "num" THEN Tarraym ELSE Tarray

RECURSIVE MakeTypes(_), Default(_), Parts(_, _)

\* What is hashed to identify a version: no names, no lengths, no pointers.
MakeTypes(t) ==
    CASE t.k \in {"num", "str"} -> <<tssd_type(t)>>
      [] t.k = "time" -> <<Ttime, Tstring>>
      [] t.k = "ptr" -> MakeTypes(t.of)
      [] t.k = "obj" -> <<Tobject, Len(t.of), 0>>
                        \o FlattenSeq([i \in DOMAIN t.of |-> MakeTypes(t.of[i])])
      [] t.k = "map" -> <<Tdict, Tdictk>> \o MakeTypes(t.key)
                        \o <<Tdictv>> \o MakeTypes(t.val)
      [] OTHER       -> <<tssd_type(t)>> \o MakeTypes(t.of)

\* A default-initialised variable of the shape.
Default(t) ==
    CASE t.k = "num" -> [i \in 1..t.size |-> 0]
      [] t.k = "time" -> <<0>>
      [] t.k = "obj" -> [i \in DOMAIN t.of |-> Default(t.of[i])]
      [] t.k = "arr" -> [i \in 1..t.n |-> Default(t.of)]
      [] t.k = "set" -> {}
      [] OTHER       -> <<>>

\* The values in a value, each with its shape.
Parts(t, v) ==
    {<<t, v>>} \cup UNION
        CASE t.k \in {"num", "str", "time"} -> {}
          [] t.k = "obj" -> {Parts(t.of[i], v[i]) : i \in DOMAIN v}
          [] t.k = "set" -> {Parts(t.of, e) : e \in v}
          [] t.k = "map" -> {Parts(t.key, e) : e \in DOMAIN v}
                            \cup {Parts(t.val, v[e]) : e \in DOMAIN v}
          [] OTHER       -> {Parts(t.of, v[i]) : i \in DOMAIN v}

----------------------------------------------------------------------------
(* The containers of the standard library *)

\* The order of std::set and std::map for one-byte numbers and strings.
Before(a, b) ==
    \/ IsStrictPrefix(a, b)
    \/ \E i \in DOMAIN a \cap DOMAIN b :
           a[i] < b[i] /\ \A j \in 1..(i - 1) : a[j] = b[j]
Sorted(S) == SetToSortSeq(S, Before)

\* The keys of a map as it is iterated.  An unordered_map may have any order;
\* of the two keys that the runs give one, this is the other.
Keys(t, m) == IF t.sorted THEN Sorted(DOMAIN m) ELSE Reverse(Sorted(DOMAIN m))

\* A container is filled from one local node.  A pointer in the node keeps its
\* object until a null is read into it, so that the elements pushed meanwhile
\* point to one object, and see what was read into it last.  s is what the node
\* held after each element, at one place of it: pointers share place by place of
\* an object and of an array; what is in an inner container came from the
\* inner one's own node.
RECURSIVE Aliased(_, _)
Aliased(t, s) ==
    CASE t.k = "ptr" ->
            [i \in DOMAIN s |->
                s[CHOOSE j \in i..Len(s) :
                    /\ \A m \in i..j : (s[m] = <<>>) <=> (m = i /\ s[i] = <<>>)
                    /\ s[i] = <<>> => j = i
                    /\ s[i] # <<>> => j = Len(s) \/ s[j + 1] = <<>>]]
      [] t.k = "obj" ->
            [i \in DOMAIN s |-> [f \in DOMAIN t.of |->
                Aliased(t.of[f], [m \in DOMAIN s |-> s[m][f]])[i]]]
      [] t.k = "arr" ->
            [i \in DOMAIN s |-> [f \in 1..t.n |->
                Aliased(t.of, [m \in DOMAIN s |-> s[m][f]])[i]]]
      [] OTHER -> s

\* The elements pushed, when the node has since been read into once more by the
\* element that failed.
AliasedBut(t, s, node) == Front(Aliased(t, Append(s, node)))

\* (*pmap)[key] = value, in the order of the two sequences.
Assigned(keys, vals) ==
    [x \in {keys[i] : i \in DOMAIN keys} |->
        vals[CHOOSE i \in DOMAIN keys :
                keys[i] = x /\ \A j \in DOMAIN keys : keys[j] = x => j <= i]]

----------------------------------------------------------------------------
(* Arrays of arrays of numbers in memory.  The stride is child.size_, which *)
(* is the number of elements of the inner array and not its bytes.         *)

Stride(t) == t.of.n

RowAt(t, stride, mem, i) ==
    [j \in 1..t.of.n |->
        LET at == (i - 1) * stride + (j - 1) * t.of.of.size
        IN  SubSeq(mem, at + 1, at + t.of.of.size)]

Memory(v) == FlattenSeq(FlattenSeq(v))

\* The elements as the operators of the array see them.
Rows(t, v) ==
    IF t.of.k # "arr" THEN v
    ELSE [i \in 1..t.n |-> RowAt(t, Stride(t), Memory(v), i)]

\* The array after element i has been written.
Overwritten(t, v, i, row) ==
    IF t.of.k # "arr" THEN [v EXCEPT ![i] = row]
    ELSE LET at    == (i - 1) * Stride(t)
             bytes == FlattenSeq(row)
             mem   == [b \in DOMAIN Memory(v) |->
                        IF b - at \in DOMAIN bytes THEN bytes[b - at] ELSE Memory(v)[b]]
         IN  [k \in 1..t.n |-> RowAt(t, t.of.n * t.of.of.size, mem, k)]

----------------------------------------------------------------------------
(* Saving *)

Size2(n) == <<n % SizeaMod, 0>>
Size4(n) == <<n % 256, n \div 256, 0, 0>>

\* Reserve sizet, save, patch it.
Sized(bytes) == Size4(Len(bytes)) \o bytes

RECURSIVE save(_, _)

saveNum(t, v) == <<t.tag>> \o v
saveStr(v)    == <<Tstring>> \o Sized(v)

\* The text of an instant, of which module Time has the details: one character
\* here.  The text of odd instants is one that parseNano refuses.
formatNano(v) == <<48 + v[1]>>
saveTime(v)   == <<Ttime>> \o saveStr(formatNano(v))

saveObj(t, v) ==
    <<Tobject>> \o Sized(Size2(Len(v))
        \o FlattenSeq([i \in DOMAIN v |-> save(t.of[i], v[i])]))

saveAll(t, s) == FlattenSeq([i \in DOMAIN s |-> save(t, s[i])])

\* Numbers are saved without their tags.
saveMerged(t, s) ==
    <<Tarraym, tssd_type(t.of)>> \o Sized(Size2(Len(s)) \o FlattenSeq(s))
saveVec(t, s) ==
    IF tssd_type(t) = Tarraym THEN saveMerged(t, s)
    ELSE <<Tarray>> \o Sized(Size2(Len(s)) \o saveAll(t.of, s))
saveArr(t, s)  == saveVec(t, Rows(t, s))
saveList(t, s) == saveVec(t, s)

\* A set of numbers has the tag of a merged array, but is not saved as one.
saveSet(t, S) ==
    <<tssd_type(t)>> \o Sized(Size2(Len(Sorted(S))) \o saveAll(t.of, Sorted(S)))

saveMap(t, m) ==
    LET keys == Keys(t, m)
    IN  <<Tdict>> \o Sized(Size2(Len(keys)) \o FlattenSeq([i \in DOMAIN keys |->
            <<Tdictk>> \o save(t.key, keys[i]) \o <<Tdictv>> \o save(t.val, m[keys[i]])]))

\* A null pointer is the negated tag of what it would point to.
savePtr(t, v) == IF v = <<>> THEN <<256 - tssd_type(t.of)>> ELSE save(t.of, v[1])

save(t, v) ==
    CASE t.k = "num" -> saveNum(t, v)
      [] t.k = "str" -> saveStr(v)
      [] t.k = "time" -> saveTime(v)
      [] t.k = "obj" -> saveObj(t, v)
      [] t.k = "arr" -> saveArr(t, v)
      [] t.k = "vec" -> saveVec(t, v)
      [] t.k = "list" -> saveList(t, v)
      [] t.k = "set" -> saveSet(t, v)
      [] t.k = "map" -> saveMap(t, v)
      [] t.k = "ptr" -> savePtr(t, v)

----------------------------------------------------------------------------
(* Reading the Buffer.  b.bytes is the payload that is there, b.cut where   *)
(* the first fragment ends; a result has the error, the position reached   *)
(* and what is in the destination.                                         *)

Result(ret, pos, val) == [ret |-> ret, pos |-> pos, val |-> val]

\* Buffer::Dump
DumpBytes(b, p, n) ==
    IF n > Len(b.bytes) - p THEN Result(INSUFFICIENT, p, <<>>)
    ELSE Result(OK, p + n, SubSeq(b.bytes, p + 1, p + n))

\* At the end of a fragment PeekByte reads past it, the tag of its checksum.
PeekByte(b, p) == IF p = b.cut THEN Tarraym ELSE b.bytes[p + 1]

Signed2(bs) == IF bs[1] >= SizeaMod \div 2 THEN bs[1] - SizeaMod ELSE bs[1]
Signed4(bs) == IF bs[4] >= 128 THEN -1
               ELSE bs[1] + 256 * bs[2] + 65536 * bs[3] + 16777216 * bs[4]

\* dumpSize: the number, or the error in its place.
DumpSize2(b, p) ==
    LET r == DumpBytes(b, p, 2)
    IN  [pos |-> r.pos, val |-> IF r.ret # OK THEN r.ret ELSE Signed2(r.val)]
DumpSize4(b, p) ==
    LET r == DumpBytes(b, p, 4)
    IN  [pos |-> r.pos, val |-> IF r.ret # OK THEN r.ret ELSE Signed4(r.val)]

CheckTType(b, p, tag) ==
    LET r == DumpBytes(b, p, 1)
    IN  IF r.ret = OK /\ r.val # <<tag>> THEN Result(FORMAT, r.pos, <<>>) ELSE r

\* A size that the Buffer does not hold is an error before anything is assigned.
CheckSize_any(b, p) ==
    LET s == DumpSize4(b, p)
    IN  Result(IF s.val < 0 THEN INSUFFICIENT ELSE OK, s.pos, s.val)
CheckSize(b, p) ==
    LET s == DumpSize4(b, p)
    IN  Result(IF s.val < 0 \/ Len(b.bytes) - s.pos < s.val THEN INSUFFICIENT ELSE OK,
               s.pos, s.val)

CheckDumpTS(b, p, tag) ==
    LET r == CheckTType(b, p, tag)
    IN  IF r.ret # OK THEN r ELSE CheckSize(b, r.pos)

\* Tarray, or Tarraym with the child's tag: readers take either.
CheckArray(b, p, child) ==
    LET t == DumpBytes(b, p, 1)
    IN  IF t.ret # OK THEN t
        ELSE IF t.val = <<Tarraym>> THEN CheckTType(b, t.pos, tssd_type(child))
        ELSE IF t.val # <<Tarray>> THEN Result(FORMAT, t.pos, <<>>) ELSE t

----------------------------------------------------------------------------
(* Reading a value into a destination that holds `old' *)

dumpNum(t, b, p, old) ==
    LET c == CheckTType(b, p, t.tag)
        r == DumpBytes(b, c.pos, t.size)
    IN  IF c.ret # OK THEN Result(c.ret, c.pos, old)
        ELSE Result(r.ret, r.pos, IF r.ret = OK THEN r.val ELSE old)

\* An empty string is returned without being assigned.
dumpStr(b, p, old) ==
    LET c == CheckTType(b, p, Tstring)
        s == DumpSize4(b, c.pos)
        r == DumpBytes(b, s.pos, s.val)
    IN  IF c.ret # OK THEN Result(c.ret, c.pos, old)
        ELSE IF s.val <= 0 THEN Result(s.val, s.pos, old)
        ELSE Result(r.ret, r.pos, IF r.ret = OK THEN r.val ELSE old)

\* The text is read into a new string, so that an empty one is refused too.
Refused(text)   == text = <<>> \/ text[1] % 2 = 1
parseNano(text) == <<text[1] - 48>>
dumpTime(b, p, old) ==
    LET c == CheckTType(b, p, Ttime)
        s == dumpStr(b, c.pos, <<>>)
    IN  IF c.ret # OK THEN Result(c.ret, c.pos, old)
        ELSE IF s.ret # OK THEN Result(s.ret, s.pos, old)
        ELSE IF Refused(s.val) THEN Result(FORMAT, s.pos, old)
        ELSE Result(OK, s.pos, parseNano(s.val))

RECURSIVE dump(_, _, _, _)

\* The loop of every reader, which returns at the first error.
Loop(n, start, step(_, _)) ==
    FoldLeft(LAMBDA st, i : IF st.ret = OK THEN step(st, i) ELSE st,
             start, [i \in 1..n |-> i])

\* Members, and the elements of an array: each into its own place.
dumpMembers(ts, b, p, old) ==
    Loop(Len(ts), Result(OK, p, old), LAMBDA st, i :
        LET r == dump(ts[i], b, st.pos, st.val[i])
        IN  Result(r.ret, r.pos, [st.val EXCEPT ![i] = r.val]))

dumpElementsOfArr(t, b, p, old) ==
    Loop(t.n, Result(OK, p, old), LAMBDA st, i :
        LET r == dump(t.of, b, st.pos, Rows(t, st.val)[i])
        IN  Result(r.ret, r.pos, Overwritten(t, st.val, i, r.val)))

\* Elements of a container: all through one node, starting from a clear().
dumpElements_append(t, n, b, p, old) ==
    LET st == Loop(n, [ret |-> OK, pos |-> p, node |-> Default(t), val |-> old],
                LAMBDA s, i :
                    LET r == dump(t, b, s.pos, s.node)
                    IN  [ret |-> r.ret, pos |-> r.pos, node |-> r.val,
                         val |-> IF r.ret = OK THEN Append(s.val, r.val) ELSE s.val])
    IN  Result(st.ret, st.pos, IF st.ret = OK THEN Aliased(t, st.val)
                               ELSE AliasedBut(t, st.val, st.node))
dumpElements(t, n, b, p, old) == dumpElements_append(t, n, b, p, <<>>)

\* A merged array: the bytes of n numbers.
dumpMerged_unscaled(t, n, b, p, short) ==
    LET r == DumpBytes(b, p, n * t.size)
    IN  Result(r.ret, r.pos,
               IF r.ret # OK THEN short ELSE [i \in 1..n |-> SubSeq(r.val, i, i)])
dumpMerged(t, n, b, p, short) ==
    LET r == DumpBytes(b, p, n * t.size)
    IN  Result(r.ret, r.pos,
               IF r.ret # OK THEN short
               ELSE [i \in 1..n |-> SubSeq(r.val, (i - 1) * t.size + 1, i * t.size)])

dumpObj(t, b, p, old) ==
    LET c == CheckDumpTS(b, p, Tobject)
        a == DumpSize2(b, c.pos)
    IN  IF c.ret # OK THEN Result(c.ret, c.pos, old)
        ELSE IF a.val # Len(t.of) THEN Result(FORMAT, a.pos, old)
        ELSE dumpMembers(t.of, b, a.pos, old)

dumpArr(t, b, p, old) ==
    LET h      == CheckArray(b, p, t.of)
        s      == CheckSize(b, h.pos)
        a      == DumpSize2(b, s.pos)
        merged == b.bytes[p + 1] = Tarraym
    IN  IF h.ret # OK THEN Result(h.ret, h.pos, old)
        ELSE IF s.ret # OK THEN Result(s.ret, s.pos, old)
        ELSE IF a.val # t.n \/ (merged /\ s.val # t.of.size * t.n + 2)
             THEN Result(FORMAT, a.pos, old)
        ELSE IF merged THEN dumpMerged(t.of, t.n, b, a.pos, old)
        ELSE dumpElementsOfArr(t, b, a.pos, old)

dumpVec(t, b, p, old) ==
    LET h == CheckArray(b, p, t.of)
        s == CheckSize(b, h.pos)
        a == DumpSize2(b, s.pos)
    IN  IF h.ret # OK THEN Result(h.ret, h.pos, old)
        ELSE IF s.ret # OK THEN Result(s.ret, s.pos, old)
        ELSE IF a.val < 0 THEN Result(FORMAT, a.pos, old)
        ELSE IF b.bytes[p + 1] = Tarraym
             THEN dumpMerged(t.of, a.val, b, a.pos, [i \in 1..a.val |-> Default(t.of)])
        ELSE dumpElements(t.of, a.val, b, a.pos, old)

\* A list takes the numbers of a merged array one by one.
dumpNumbers(t, n, b, p) ==
    Loop(n, Result(OK, p, <<>>), LAMBDA st, i :
        LET r == DumpBytes(b, st.pos, t.size)
        IN  Result(r.ret, r.pos, IF r.ret = OK THEN Append(st.val, r.val) ELSE st.val))

dumpList(t, b, p, old) ==
    LET h == CheckArray(b, p, t.of)
        s == CheckSize(b, h.pos)
        a == DumpSize2(b, s.pos)
    IN  IF h.ret # OK THEN Result(h.ret, h.pos, old)
        ELSE IF s.ret # OK THEN Result(s.ret, s.pos, old)
        ELSE IF a.val < 0 THEN Result(FORMAT, a.pos, old)
        ELSE IF b.bytes[p + 1] = Tarraym THEN dumpNumbers(t.of, a.val, b, a.pos)
        ELSE dumpElements(t.of, a.val, b, a.pos, old)

dumpSet(t, b, p, old) ==
    LET c == CheckDumpTS(b, p, tssd_type(t))
        a == DumpSize2(b, c.pos)
        r == dumpElements(t.of, a.val, b, a.pos, <<>>)
    IN  IF c.ret # OK THEN Result(c.ret, c.pos, old)
        ELSE IF a.val < 0 THEN Result(FORMAT, a.pos, old)
        ELSE Result(r.ret, r.pos, {r.val[i] : i \in DOMAIN r.val})

\* A tag of the pair that was expected, then what follows it.
dumpTagged(tag, t, b, p, old) ==
    LET c == CheckTType(b, p, tag)
    IN  IF c.ret # OK THEN Result(c.ret, c.pos, old) ELSE dump(t, b, c.pos, old)

dumpPairs(t, n, b, p) ==
    Loop(n, [ret |-> OK, pos |-> p, key |-> Default(t.key), value |-> Default(t.val),
             keys |-> <<>>, vals |-> <<>>],
        LAMBDA st, i :
            LET k == dumpTagged(Tdictk, t.key, b, st.pos, st.key)
                v == dumpTagged(Tdictv, t.val, b, k.pos, st.value)
            IN  IF k.ret # OK THEN [st EXCEPT !.ret = k.ret, !.pos = k.pos]
                ELSE IF v.ret # OK
                     THEN [st EXCEPT !.ret = v.ret, !.pos = v.pos, !.value = v.val]
                ELSE [ret |-> OK, pos |-> v.pos, key |-> k.val, value |-> v.val,
                      keys |-> Append(st.keys, k.val), vals |-> Append(st.vals, v.val)])

dumpMap(t, b, p, old) ==
    LET c  == CheckDumpTS(b, p, Tdict)
        a  == DumpSize2(b, c.pos)
        st == dumpPairs(t, a.val, b, a.pos)
    IN  IF c.ret # OK THEN Result(c.ret, c.pos, old)
        ELSE IF a.val < 0 THEN Result(FORMAT, a.pos, old)
        ELSE Result(st.ret, st.pos, Assigned(st.keys,
                IF st.ret = OK THEN Aliased(t.val, st.vals)
                ELSE AliasedBut(t.val, st.vals, st.value)))

dumpPtr_keeps(t, b, p, old) ==
    IF p = Len(b.bytes) THEN Result(INSUFFICIENT, p, old)
    ELSE IF PeekByte(b, p) = 256 - tssd_type(t.of) THEN Result(OK, p + 1, old)
    ELSE LET r == dump(t.of, b, p, IF old = <<>> THEN Default(t.of) ELSE old[1])
         IN  Result(r.ret, r.pos, <<r.val>>)
dumpPtr(t, b, p, old) ==
    IF p = Len(b.bytes) THEN Result(INSUFFICIENT, p, old)
    ELSE IF PeekByte(b, p) = 256 - tssd_type(t.of) THEN Result(OK, p + 1, <<>>)
    ELSE LET r == dump(t.of, b, p, IF old = <<>> THEN Default(t.of) ELSE old[1])
         IN  Result(r.ret, r.pos, <<r.val>>)

dump(t, b, p, old) ==
    CASE t.k = "num" -> dumpNum(t, b, p, old)
      [] t.k = "str" -> dumpStr(b, p, old)
      [] t.k = "time" -> dumpTime(b, p, old)
      [] t.k = "obj" -> dumpObj(t, b, p, old)
      [] t.k = "arr" -> dumpArr(t, b, p, old)
      [] t.k = "vec" -> dumpVec(t, b, p, old)
      [] t.k = "list" -> dumpList(t, b, p, old)
      [] t.k = "set" -> dumpSet(t, b, p, old)
      [] t.k = "map" -> dumpMap(t, b, p, old)
      [] t.k = "ptr" -> dumpPtr(t, b, p, old)

----------------------------------------------------------------------------
(* Copying and comparing *)

RECURSIVE copy(_, _, _), equal(_, _, _)

\* Through one node, like the readers: it holds the copy of the element before.
copyElements(t, s) ==
    Aliased(t, FoldLeft(LAMBDA c, e : Append(c,
                            copy(t, e, IF c = <<>> THEN Default(t) ELSE Last(c))),
                        <<>>, s))

\* Members and array elements, each in its place.
copyObj(t, src, old) == [i \in DOMAIN src |-> copy(t.of[i], src[i], old[i])]
copyArr(t, src, old) ==
    FoldLeft(LAMBDA v, i : Overwritten(t, v, i, copy(t.of, Rows(t, src)[i], Rows(t, v)[i])),
             old, [i \in 1..t.n |-> i])
copyVec(t, src)  == copyElements(t.of, src)
copyList(t, src) == copyElements(t.of, src)

copySet(t, S) == Range(copyElements(t.of, Sorted(S)))

copyMap(t, m) ==
    LET keys == Keys(t, m)
    IN  Assigned(copyElements(t.key, keys),
                 copyElements(t.val, [i \in DOMAIN keys |-> m[keys[i]]]))

copyPtr(t, src, old) ==
    IF src = <<>> THEN <<>>
    ELSE <<copy(t.of, src[1], IF old = <<>> THEN Default(t.of) ELSE old[1])>>

copy(t, src, old) ==
    CASE t.k \in {"num", "str", "time"} -> src
      [] t.k = "obj" -> copyObj(t, src, old)
      [] t.k = "arr" -> copyArr(t, src, old)
      [] t.k = "vec" -> copyVec(t, src)
      [] t.k = "list" -> copyList(t, src)
      [] t.k = "set" -> copySet(t, src)
      [] t.k = "map" -> copyMap(t, src)
      [] t.k = "ptr" -> copyPtr(t, src, old)

equalObj(t, a, b) == \A i \in DOMAIN a : equal(t.of[i], a[i], b[i])
equalArr(t, a, b) == \A i \in DOMAIN a : equal(t.of, Rows(t, a)[i], Rows(t, b)[i])
equalVec(t, a, b) == Len(a) = Len(b) /\ \A i \in DOMAIN a : equal(t.of, a[i], b[i])
equalList(t, a, b) == Len(a) = Len(b) /\ \A i \in DOMAIN a : equal(t.of, a[i], b[i])
equalSet(a, b)    == Len(Sorted(a)) = Len(Sorted(b)) /\ a \subseteq b
equalMap(t, a, b) ==
    /\ Len(Sorted(DOMAIN a)) = Len(Sorted(DOMAIN b))
    /\ \A x \in DOMAIN a : x \in DOMAIN b /\ equal(t.val, a[x], b[x])
equalPtr(t, a, b) ==
    \/ a = <<>> /\ b = <<>>
    \/ a # <<>> /\ b # <<>> /\ equal(t.of, a[1], b[1])

equal(t, a, b) ==
    CASE t.k \in {"num", "str", "time"} -> a = b
      [] t.k = "obj" -> equalObj(t, a, b)
      [] t.k = "arr" -> equalArr(t, a, b)
      [] t.k = "vec" -> equalVec(t, a, b)
      [] t.k = "list" -> equalList(t, a, b)
      [] t.k = "set" -> equalSet(a, b)
      [] t.k = "map" -> equalMap(t, a, b)
      [] t.k = "ptr" -> equalPtr(t, a, b)
=============================================================================
