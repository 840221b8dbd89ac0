---------------------------- MODULE MCUnmarshal ----------------------------
(* The classes and objects of the runs of Unmarshal. *)
EXTENDS Unmarshal

i8  == Num(Tint8, 1)
i16 == Num(Tint16, 2)

MCShapes == {
    Obj(<<Ref(i16), Str>>),
    Obj(<<Vec(Str)>>), Obj(<<Arr(2, Str)>>), Obj(<<Set(Str)>>),
    Obj(<<Vec(i8)>>), Obj(<<Arr(2, i8)>>), Obj(<<Set(i8)>>),
    Obj(<<Vec(i16)>>),
    Obj(<<Map(Str, Str)>>),
    Obj(<<Ptr(Str), i8>>), Obj(<<Str, i8>>),
    Obj(<<Vec(Ptr(i8))>>),
    Obj(<<Map(i8, Ptr(i8))>>), Obj(<<HashMap(i8, Ptr(i8))>>),
    Obj(<<Vec(Obj(<<Ptr(i8)>>))>>), Obj(<<List(Obj(<<i8>>))>>),
    Obj(<<List(Obj(<<Arr(2, Ptr(i8))>>))>>), Obj(<<Map(i8, Obj(<<Ptr(i8)>>))>>),
    Obj(<<List(i8)>>), Obj(<<List(Timespec)>>), Obj(<<Timespec, Ptr(Timespec)>>),
    Obj(<<Arr(2, Arr(2, i8))>>), Obj(<<Vec(Vec(i8))>>), Obj(<<Arr(2, Arr(2, i16))>>),
    Obj(<<Vec(Vec(i16))>>),
    Obj(<<Ptr(Obj(<<i8>>)), Obj(<<Ptr(Set(i8))>>)>>) }

Chars == {<<>>, <<97>>, <<97, 98>>}

RECURSIVE Values(_)
Tuples(S, n) == [1..n -> S]
Values(t) ==
    CASE t.k = "num" -> {[i \in 1..t.size |-> n] : n \in 1..2}
      [] t.k = "str" -> Chars
      [] t.k = "time" -> {<<1>>, <<2>>}
      [] t.k = "obj" -> IF Len(t.of) = 1 THEN {<<v>> : v \in Values(t.of[1])}
                        ELSE {<<v, w>> : v \in Values(t.of[1]), w \in Values(t.of[2])}
      [] t.k = "arr" /\ t.of.k = "arr" ->
            {v \in Tuples(Values(t.of), t.n) : v[1][1] = v[1][2] /\ v[2][1] # v[2][2]}
      [] t.k = "arr" /\ t.of = Ptr(i8) ->
            {v \in Tuples(Values(t.of), t.n) : v[1] # v[2] /\ v[2] # <<<<1>>>>}
      [] t.k = "arr" -> Tuples(Values(t.of), t.n)
      [] t.k = "vec" /\ t.of.k = "vec" ->
            UNION {Tuples({v \in Values(t.of) : Len(v) <= 1 /\ \A i \in DOMAIN v : v[i][1] = 1}, n) : n \in 0..2}
      [] t.k \in {"vec", "list"} -> UNION {Tuples(Values(t.of), n) : n \in 0..2} \cup
            CASE t = Vec(i8) -> {[i \in 1..n |-> <<1>>] : n \in {4, 9}}
              [] t = Vec(Ptr(i8)) -> {<<<<<<1>>>>, <<>>, <<<<2>>>>>>}
              [] t = Vec(Obj(<<Ptr(i8)>>)) -> {<<<<<<<<1>>>>>>, <<<<>>>>, <<<<<<2>>>>>>>>}
              [] OTHER -> {}
      [] t.k = "set" -> SUBSET Values(t.of)
      [] t.k = "map" -> {<<>>} \cup UNION {[K -> Values(t.val)] :
                            K \in {S \in SUBSET Values(t.key) : S # {} /\ <<97, 98>> \notin S}}
      [] t.k = "ptr" -> {<<>>} \cup {<<v>> : v \in Values(t.of)}

MCSample == [t \in MCShapes |-> Values(t)]

\* A destination that was never used, and one where nothing is empty.
Full(t, v) ==
    \A q \in Parts(t, v) :
        CASE q[1].k \in {"str", "ptr", "vec", "list"} -> Len(q[2]) > 0
          [] q[1].k \in {"set", "map"} -> Sorted(IF q[1].k = "set" THEN q[2] ELSE DOMAIN q[2]) # <<>>
          [] OTHER -> TRUE
MCStale == [t \in MCShapes |-> {Default(t), CHOOSE v \in Values(t) : Full(t, v)}]
============================================================================
