--------------------------- MODULE RegistryProof ----------------------------
(***************************************************************************)
(* Proofs about Registry, for all classes, families, versions and orders   *)
(* of registration.                                                        *)
(*                                                                         *)
(* The inductive invariant follows the loop of decorate: the path it has   *)
(* gone (Way), what is known when it ended (Returned), and under which     *)
(* classes RBuffer filed its messages (Filed).  It does not ask that       *)
(* layouts differ: it speaks of the version a Types hash stands for, which *)
(* is the message's own class exactly when they do.                        *)
(***************************************************************************)
EXTENDS Registry, WellFoundedInduction, SequenceTheorems, TLAPS

----------------------------------------------------------------------------
(* Induction over the natural numbers, as facts about sets *)

\* A set of numbers that is not empty has a least one.
LEMMA LeastNatural ==
    ASSUME NEW S, S \subseteq Nat, S # {}
    PROVE  \E n \in S : \A k \in S : n <= k
<1> DEFINE Less == {p \in Nat \X Nat : p[1] < p[2]}
<1>1. IsWellFoundedOn(Less, Nat)
  BY NatLessThanWellFounded DEF OpToRel
<1>2. PICK n \in S : \A k \in S : <<k, n>> \notin Less
  <2> HIDE DEF Less
  <2> QED
    BY <1>1, WFMin
<1>3. ASSUME NEW k \in S PROVE n <= k
  <2>1. k \in Nat /\ n \in Nat
    OBVIOUS
  <2>2. k < n => <<k, n>> \in Less
    BY <2>1
  <2> HIDE DEF Less
  <2> QED
    BY <1>2, <2>1, <2>2
<1> QED
  BY <1>3

\* A set of places of 1..n that holds the first, and the next one after each that it
\* holds, holds all: what is true of a sequence's first element, and passes on.
LEMMA AllPlaces ==
    ASSUME NEW n \in Nat, NEW S,
           n > 0 => 1 \in S,
           \A i \in S : i \in 1..(n - 1) => i + 1 \in S
    PROVE  1..n \subseteq S
<1> DEFINE Left == 1..n \ S
<1> SUFFICES ASSUME Left # {} PROVE FALSE
  OBVIOUS
<1>1. Left \subseteq Nat
  OBVIOUS
<1>2. PICK i \in Left : \A k \in Left : i <= k
  <2> HIDE DEF Left
  <2> QED
    BY <1>1, LeastNatural
<1>3. i # 1
  BY <1>2
<1>4. i - 1 \in 1..(n - 1)
  BY <1>2, <1>3
<1>5. i - 1 \in S
  BY <1>2, <1>4
<1>6. i \in S
  <2>1. (i - 1) + 1 = i
    BY <1>2
  <2> QED
    BY <1>4, <1>5, <2>1
<1> QED
  BY <1>2, <1>6

----------------------------------------------------------------------------
(* The state *)

Op  == {"UnmarshalTo", "Unmarshal", "Read"}
Ret == {OK, NOT_FOUND, NOT_MATCH, INSUFFICIENT}

\* The versions a message of version path[1] went through.
Way(m, path) ==
    /\ path \in Seq(registered) /\ path # <<>>
    /\ m \in Class /\ Known(m) /\ path[1] = VersionInfo(m)
    /\ \A i \in 1..Len(path) : FamilyOf[path[i]] = FamilyOf[path[1]]
    /\ \A i \in 1..(Len(path) - 1) :
          path[i + 1] = ProgenyOf[path[i]] /\ <<path[i + 1], path[i]>> \in Decorates

\* The loop has not met the version it looks for.
UnderWay ==
    task # Idle =>
        /\ task \in [op : Op, msg : Class, to : registered, path : Seq(registered)]
        /\ Way(task.msg, task.path)
        /\ FamilyOf[task.to] = FamilyOf[task.path[1]]
        /\ \A i \in 1..Len(task.path) : task.path[i] # task.to

\* It ended at that version, or where no set closed under steps leads on.
Returned ==
    outcome # None =>
        /\ outcome \in [op : Op, msg : Class \cup {NoClass}, to : Class \cup {NoClass},
                        ret : Ret, path : Seq(Class)]
        /\ outcome.ret = OK =>
              /\ Way(outcome.msg, outcome.path)
              /\ outcome.path[Len(outcome.path)] = outcome.to
              /\ \A i \in 1..(Len(outcome.path) - 1) : outcome.path[i] # outcome.to
        /\ (outcome.ret # OK /\ outcome.op # "Read" /\ outcome.msg \in registered) =>
              outcome.to \notin Becomes(VersionInfo(outcome.msg))

\* RBuffer files a message for a registered class of the same layout.
Filed ==
    \A c \in Class : \A m \in results[c] : c \in registered /\ LayoutOf[m] = LayoutOf[c]

IInv == TypeOK /\ UnderWay /\ Returned /\ Filed

----------------------------------------------------------------------------
(* Versions and their progeny *)

\* A step of decorate's loop leads to a registered version of the same family.
LEMMA StepType ==
    ASSUME registered \subseteq Class, NEW c \in Class
    PROVE  \/ Step(c) = NoClass
           \/ /\ Step(c) = ProgenyOf[c] /\ Step(c) \in registered
              /\ <<Step(c), c>> \in Decorates
              /\ FamilyOf[Step(c)] = FamilyOf[c]
BY RegistryAssumption DEF Step

\* Every version on a way is one that the first becomes.
LEMMA WayReaches ==
    ASSUME registered \subseteq Class, NEW m, NEW path, Way(m, path),
           NEW i \in 1..Len(path)
    PROVE  path[i] \in Becomes(path[1])
<1> DEFINE V == Versions(FamilyOf[path[1]])
<1>1. path \in Seq(registered) /\ Len(path) \in Nat /\ 1 \in 1..Len(path)
  BY DEF Way
<1>2. \A j \in 1..Len(path) : path[j] \in registered /\ path[j] \in Class
  BY <1>1
<1>3. \A j \in 1..Len(path) : path[j] \in V
  BY <1>1, <1>2 DEF Way, Versions
<1>4. ASSUME NEW S \in SUBSET V, path[1] \in S, Closed(S)
      PROVE  path[i] \in S
  <2> DEFINE In == {j \in 1..Len(path) : path[j] \in S}
  <2>1. 1 \in In
    BY <1>1, <1>4
  <2>2. ASSUME NEW j \in In, j \in 1..(Len(path) - 1)
        PROVE  j + 1 \in In
    <3>1. j + 1 \in 1..Len(path)
      BY <1>1, <2>2
    <3>2. path[j + 1] = ProgenyOf[path[j]] /\ <<path[j + 1], path[j]>> \in Decorates
      BY <2>2 DEF Way
    <3>3. path[j] \in Class /\ path[j] # NoClass /\ path[j + 1] \in registered
      BY <1>2, <2>2, <3>1, RegistryAssumption
    <3>4. Step(path[j]) = path[j + 1]
      BY <3>2, <3>3 DEF Step
    <3>5. path[j + 1] # NoClass
      BY <3>3, RegistryAssumption
    <3>6. path[j + 1] \in S
      BY <1>4, <2>2, <3>4, <3>5 DEF Closed
    <3> QED
      BY <3>1, <3>6
  <2> HIDE DEF In
  <2>3. 1..Len(path) \subseteq In
    BY <1>1, <2>1, <2>2, AllPlaces
  <2> QED
    BY <2>3 DEF In
<1> QED
  BY <1>3, <1>4 DEF Becomes

\* Where a way leads no further, the first version becomes none but those on it.
LEMMA WayEnds ==
    ASSUME registered \subseteq Class, NEW m, NEW path, Way(m, path),
           Step(path[Len(path)]) = NoClass, NEW d \in Becomes(path[1])
    PROVE  \E i \in 1..Len(path) : d = path[i]
<1> DEFINE S == {path[i] : i \in 1..Len(path)}
<1>1. path \in Seq(registered) /\ Len(path) \in Nat /\ 1 \in 1..Len(path)
  BY DEF Way
<1>2. S \subseteq Versions(FamilyOf[path[1]])
  BY <1>1 DEF Way, Versions
<1>3. path[1] \in S
  BY <1>1
<1>4. ASSUME NEW i \in 1..Len(path)
      PROVE  Step(path[i]) \in S \cup {NoClass}
  <2>1. CASE i = Len(path)
    BY <2>1
  <2>2. CASE i # Len(path)
    <3>1. i \in 1..(Len(path) - 1) /\ i + 1 \in 1..Len(path)
      BY <1>1, <2>2
    <3>2. path[i + 1] = ProgenyOf[path[i]]
      BY <3>1 DEF Way
    <3>3. Step(path[i]) \in {path[i + 1], NoClass}
      BY <3>2 DEF Step
    <3> QED
      BY <3>1, <3>3
  <2> QED
    BY <2>1, <2>2
<1>5. Closed(S)
  BY <1>4 DEF Closed
<1> HIDE DEF S
<1>6. d \in S
  BY <1>2, <1>3, <1>5 DEF Becomes
<1> QED
  BY <1>6 DEF S

\* A registered version becomes only registered versions of its family.
LEMMA BecomesRegistered ==
    ASSUME registered \subseteq Class, NEW c \in registered
    PROVE  Becomes(c) \subseteq registered /\ \A d \in Becomes(c) : FamilyOf[d] = FamilyOf[c]
<1> DEFINE S == {d \in registered : FamilyOf[d] = FamilyOf[c]}
<1>1. S \in SUBSET Versions(FamilyOf[c]) /\ c \in S
  BY DEF Versions
<1>2. Closed(S)
  BY StepType DEF Closed
<1> HIDE DEF S
<1>3. \A d \in Becomes(c) : d \in S
  BY <1>1, <1>2 DEF Becomes
<1> QED
  BY <1>3 DEF S

----------------------------------------------------------------------------
(* The inductive invariant *)

\* A known Types hash stands for a registered version with that layout.
LEMMA VersionIsRegistered ==
    ASSUME TypeOK, NEW m \in Class, Known(m)
    PROVE  VersionInfo(m) \in registered /\ LayoutOf[VersionInfo(m)] = LayoutOf[m]
BY DEF TypeOK, Known, VersionInfo

LEMMA RegisteredIsKnown ==
    ASSUME TypeOK, NEW m \in registered
    PROVE  Known(m)
BY DEF TypeOK, Known

LEMMA InitIInv == Init => IInv
<1> SUFFICES ASSUME Init PROVE IInv
  OBVIOUS
<1>1. TypeOK
  <2>1. DOMAIN byTypes = {} /\ registered = {}
    BY DEF Init
  <2>2. \A f \in Family : Registered(f) = {} /\ current[f] = NoClass
    BY <2>1 DEF Init, Registered
  <2>3. wire \subseteq Class /\ task = Idle
    BY RegistryAssumption DEF Init
  <2> QED
    BY <2>1, <2>2, <2>3 DEF Init, TypeOK
<1>2. Filed
  BY DEF Init, Filed
<1> QED
  BY <1>1, <1>2 DEF Init, IInv, UnderWay, Returned

\* What UnmarshalTo and Unmarshal do, whoever calls them: they answer at once, or
\* begin the loop.
LEMMA BeginStep ==
    ASSUME IInv, UNCHANGED registry, NEW op \in Op, NEW m \in Class, NEW to \in registered,
           Known(m), VersionInfo(m) # to, FamilyOf[VersionInfo(m)] = FamilyOf[to],
           Begin(op, m, to)
    PROVE  UnderWay' /\ Returned' /\ task'.to \in registered
<1> PICK v : v = VersionInfo(m)
  OBVIOUS
<1>1. v \in registered
  BY VersionIsRegistered DEF IInv
<1>2. task' = [op |-> op, msg |-> m, to |-> to, path |-> <<v>>] /\ outcome' = None
  BY DEF Begin
<1>3. <<v>> \in Seq(registered) /\ Len(<<v>>) = 1 /\ <<v>>[1] = v
  BY <1>1
<1>4. Way(m, <<v>>)'
  BY <1>3 DEF Way, Known, VersionInfo, registry
<1>5. registered' = registered
  BY DEF registry
<1>6. task' \in [op : Op, msg : Class, to : registered', path : Seq(registered')]
  BY <1>2, <1>3, <1>5
<1>7. v # to /\ FamilyOf[to] = FamilyOf[v]
  OBVIOUS
<1>8. Way(task.msg, task.path)'
  BY <1>2, <1>4
<1>9. UnderWay'
  BY <1>2, <1>3, <1>6, <1>7, <1>8 DEF UnderWay
<1> QED
  BY <1>2, <1>9 DEF Returned

LEMMA OkStep ==
    ASSUME IInv, UNCHANGED registry, NEW op \in Op, NEW m \in Class, NEW to \in registered,
           Known(m), VersionInfo(m) = to, Finished(op, m, to, OK, <<to>>)
    PROVE  UnderWay' /\ Returned'
<1>1. registered \subseteq Class
  BY DEF IInv, TypeOK
<1>2. /\ outcome' = [op |-> op, msg |-> m, to |-> to, ret |-> OK, path |-> <<to>>]
      /\ task' = Idle
  BY DEF Finished
<1>3. <<to>> \in Seq(registered) /\ <<to>> \in Seq(Class) /\ Len(<<to>>) = 1 /\ <<to>>[1] = to
  BY <1>1
<1>4. Way(m, <<to>>)'
  BY <1>3 DEF Way, Known, VersionInfo, registry
<1>5. outcome' \in [op : Op, msg : Class \cup {NoClass}, to : Class \cup {NoClass},
                    ret : Ret, path : Seq(Class)]
  BY <1>1, <1>2, <1>3 DEF Ret
<1> QED
  BY <1>2, <1>3, <1>4, <1>5 DEF UnderWay, Returned

\* An error is right where the target is not one that the message's version becomes.
LEMMA ErrorStep ==
    ASSUME UNCHANGED registry, NEW op \in Op, NEW m \in Class \cup {NoClass},
           NEW to \in Class \cup {NoClass}, NEW code \in Ret \ {OK}, NEW path \in Seq(Class),
           op # "Read" /\ m \in registered => to \notin Becomes(VersionInfo(m)),
           Finished(op, m, to, code, path)
    PROVE  UnderWay' /\ Returned'
<1>1. /\ outcome' = [op |-> op, msg |-> m, to |-> to, ret |-> code, path |-> path]
      /\ task' = Idle
  BY DEF Finished
<1>2. Becomes(VersionInfo(m))' = Becomes(VersionInfo(m))
  BY DEF Becomes, Closed, Step, VersionInfo, registry
<1>3. outcome' \in [op : Op, msg : Class \cup {NoClass}, to : Class \cup {NoClass},
                    ret : Ret, path : Seq(Class)]
  BY <1>1
<1> QED
  BY <1>1, <1>2, <1>3 DEF UnderWay, Returned, registry

LEMMA UnmarshalToStep ==
    ASSUME IInv, UNCHANGED registry, NEW op \in Op, NEW m \in Class, NEW to \in Class,
           UnmarshalTo(op, m, to)
    PROVE  UnderWay' /\ Returned' /\ (task' # Idle => task'.to \in registered)
<1>1. TypeOK /\ registered \subseteq Class /\ <<>> \in Seq(Class)
  BY DEF IInv, TypeOK
<1>2. ASSUME m \in registered
      PROVE  /\ Known(m) /\ VersionInfo(m) \in registered
             /\ Becomes(VersionInfo(m)) \subseteq registered
             /\ \A d \in Becomes(VersionInfo(m)) : FamilyOf[d] = FamilyOf[VersionInfo(m)]
  BY <1>1, <1>2, RegisteredIsKnown, VersionIsRegistered, BecomesRegistered
<1>3. CASE to \notin registered /\ Finished(op, m, to, NOT_FOUND, <<>>)
  <2>1. NOT_FOUND \in Ret \ {OK}
    BY DEF Ret, NOT_FOUND, OK
  <2>2. UnderWay' /\ Returned'
    BY <1>1, <1>2, <1>3, <2>1, ErrorStep
  <2> QED
    BY <1>3, <2>2 DEF Finished
<1>4. CASE /\ ~Known(m) \/ (Known(m) /\ FamilyOf[VersionInfo(m)] # FamilyOf[to])
           /\ Finished(op, m, to, NOT_MATCH, <<>>)
  <2>1. NOT_MATCH \in Ret \ {OK}
    BY DEF Ret, NOT_MATCH, OK
  <2>2. UnderWay' /\ Returned'
    BY <1>1, <1>2, <1>4, <2>1, ErrorStep
  <2> QED
    BY <1>4, <2>2 DEF Finished
<1>5. CASE /\ to \in registered /\ Known(m) /\ VersionInfo(m) = to
           /\ Finished(op, m, to, OK, <<to>>)
  <2>1. UnderWay' /\ Returned'
    BY <1>5, OkStep
  <2> QED
    BY <1>5, <2>1 DEF Finished
<1>6. CASE /\ to \in registered /\ Known(m) /\ VersionInfo(m) # to
           /\ FamilyOf[VersionInfo(m)] = FamilyOf[to] /\ Begin(op, m, to)
  BY <1>6, BeginStep
<1> QED
  BY <1>3, <1>4, <1>5, <1>6 DEF UnmarshalTo

\* One turn of the loop: it goes on, ends at the target, or ends where the way does.
LEMMA DecorateStepKeeps ==
    ASSUME IInv, DecorateStep
    PROVE  UnderWay' /\ Returned' /\ (task' # Idle => task'.to \in registered)
<1> PICK op, m, to, path : op = task.op /\ m = task.msg /\ to = task.to /\ path = task.path
  OBVIOUS
<1> PICK next : next = ProgenyOf[Last(path)]
  OBVIOUS
<1>1. /\ registered \subseteq Class /\ TypeOK
      /\ op \in Op /\ m \in Class /\ to \in registered /\ path \in Seq(registered)
      /\ Way(m, path) /\ FamilyOf[to] = FamilyOf[path[1]]
      /\ \A i \in 1..Len(path) : path[i] # to
  BY DEF IInv, TypeOK, UnderWay, DecorateStep
<1>2. /\ Len(path) \in Nat /\ 1 \in 1..Len(path) /\ Len(path) \in 1..Len(path)
      /\ Last(path) = path[Len(path)] /\ Last(path) \in registered
  BY <1>1 DEF Way, Last
<1>3. UNCHANGED registry /\ registered' = registered
  BY DEF DecorateStep, registry
<1>4. ASSUME ~(next \in registered /\ <<next, Last(path)>> \in Decorates),
             Finished(op, m, to, NOT_MATCH, path)
      PROVE  UnderWay' /\ Returned' /\ task' = Idle
  <2>1. Step(path[Len(path)]) = NoClass
    BY <1>2, <1>4 DEF Step
  <2>2. ASSUME to \in Becomes(path[1]) PROVE FALSE
    <3>1. registered \subseteq Class /\ Way(m, path)
      BY <1>1
    <3>2. \E i \in 1..Len(path) : to = path[i]
      BY <2>1, <2>2, <3>1, WayEnds
    <3> QED
      BY <1>1, <3>2
  <2>3. to \notin Becomes(VersionInfo(m))
    BY <1>1, <2>2 DEF Way
  <2>4. NOT_MATCH \in Ret \ {OK} /\ path \in Seq(Class)
    BY <1>1 DEF Ret, NOT_MATCH, OK
  <2> QED
    BY <1>1, <1>3, <1>4, <2>3, <2>4, ErrorStep DEF Finished
<1>5. ASSUME next \in registered, <<next, Last(path)>> \in Decorates
      PROVE  /\ Append(path, next) \in Seq(registered)
             /\ Append(path, next) \in Seq(Class)
             /\ Len(Append(path, next)) = Len(path) + 1
             /\ \A i \in 1..Len(path) : Append(path, next)[i] = path[i]
             /\ Append(path, next)[Len(path) + 1] = next
             /\ Way(m, Append(path, next))'
  <2> DEFINE on == Append(path, next)
  <2>0. path \in Seq(registered) /\ path \in Seq(Class) /\ next \in Class
    BY <1>1, <1>5, SeqMonotonic
  <2>1. /\ on \in Seq(registered) /\ on \in Seq(Class) /\ Len(on) = Len(path) + 1 /\ on # <<>>
        /\ \A i \in 1..Len(path) : on[i] = path[i]
        /\ on[Len(path) + 1] = next
    <3>1. on \in Seq(registered)
      BY <1>5, <2>0
    <3>2. on \in Seq(Class)
      BY <2>0
    <3>3. /\ Len(on) = Len(path) + 1 /\ on[Len(path) + 1] = next
          /\ \A i \in 1..Len(path) : on[i] = path[i]
      BY <2>0
    <3>4. on # <<>>
      BY <1>2, <3>3
    <3> QED
      BY <3>1, <3>2, <3>3, <3>4
  <2> HIDE DEF on
  <2>2. next # NoClass /\ FamilyOf[next] = FamilyOf[Last(path)]
    BY <1>1, <1>2, <1>5, RegistryAssumption
  <2>3. \A i \in 1..Len(on) : FamilyOf[on[i]] = FamilyOf[on[1]]
    BY <1>1, <1>2, <2>1, <2>2 DEF Way
  <2>4. \A i \in 1..(Len(on) - 1) : on[i + 1] = ProgenyOf[on[i]] /\ <<on[i + 1], on[i]>> \in Decorates
    <3> SUFFICES ASSUME NEW i \in 1..(Len(on) - 1)
                 PROVE  on[i + 1] = ProgenyOf[on[i]] /\ <<on[i + 1], on[i]>> \in Decorates
      OBVIOUS
    <3>1. CASE i = Len(path)
      BY <1>2, <1>5, <2>1, <3>1
    <3>2. CASE i # Len(path)
      <4>1. i \in 1..(Len(path) - 1) /\ i + 1 \in 1..Len(path)
        BY <1>2, <2>1, <3>2
      <4>2. path[i + 1] = ProgenyOf[path[i]] /\ <<path[i + 1], path[i]>> \in Decorates
        BY <1>1, <4>1 DEF Way
      <4>3. on[i] = path[i] /\ on[i + 1] = path[i + 1]
        BY <1>2, <2>1, <4>1
      <4> QED
        BY <4>2, <4>3
    <3> QED
      BY <3>1, <3>2
  <2>5. Known(m)' /\ VersionInfo(m)' = VersionInfo(m)
    BY <1>1, <1>3 DEF Way, Known, VersionInfo, registry
  <2>6. on[1] = VersionInfo(m)
    BY <1>1, <1>2, <2>1 DEF Way
  <2>7. Way(m, on)'
    BY <1>1, <1>3, <2>1, <2>3, <2>4, <2>5, <2>6 DEF Way
  <2> QED
    BY <2>1, <2>7 DEF on
<1>6. ASSUME next \in registered, <<next, Last(path)>> \in Decorates, next = to,
             Finished(op, m, to, OK, Append(path, next))
      PROVE  UnderWay' /\ Returned' /\ task' = Idle
  <2> PICK on : on = Append(path, next)
    OBVIOUS
  <2>1. /\ outcome' = [op |-> op, msg |-> m, to |-> to, ret |-> OK, path |-> on]
        /\ task' = Idle
    BY <1>6 DEF Finished
  <2>2. /\ on \in Seq(Class) /\ Len(on) = Len(path) + 1 /\ on[Len(on)] = to
        /\ \A i \in 1..(Len(on) - 1) : on[i] # to
    BY <1>1, <1>2, <1>5, <1>6
  <2>3. Way(m, on)'
    BY <1>5, <1>6
  <2>4. outcome' \in [op : Op, msg : Class \cup {NoClass}, to : Class \cup {NoClass},
                      ret : Ret, path : Seq(Class)]
    BY <1>1, <2>1, <2>2 DEF Ret
  <2> QED
    BY <2>1, <2>2, <2>3, <2>4 DEF UnderWay, Returned
<1>7. ASSUME next \in registered, <<next, Last(path)>> \in Decorates, next # to,
             task' = [task EXCEPT !.path = Append(path, next)], UNCHANGED outcome
      PROVE  UnderWay' /\ Returned' /\ task'.to \in registered
  <2> PICK on : on = Append(path, next)
    OBVIOUS
  <2>1. task' = [op |-> op, msg |-> m, to |-> to, path |-> on]
    BY <1>7 DEF IInv, UnderWay, DecorateStep
  <2>2. /\ on \in Seq(registered) /\ Len(on) = Len(path) + 1 /\ on[1] = path[1]
        /\ \A i \in 1..Len(on) : on[i] # to
    BY <1>1, <1>2, <1>5, <1>7
  <2>3. Way(m, on)'
    BY <1>5, <1>7
  <2>4. Way(task.msg, task.path)'
    BY <2>1, <2>3
  <2>5. task' \in [op : Op, msg : Class, to : registered', path : Seq(registered')]
    BY <1>1, <1>3, <2>1, <2>2
  <2>6. UnderWay'
    BY <1>1, <2>1, <2>2, <2>4, <2>5 DEF UnderWay
  <2>7. Returned'
    <3>1. \A n, p : Way(n, p)' <=> Way(n, p)
      BY <1>3 DEF Way, Known, VersionInfo, registry
    <3>2. \A n : Becomes(VersionInfo(n))' = Becomes(VersionInfo(n))
      BY <1>3 DEF Becomes, Closed, Step, VersionInfo, registry
    <3> QED
      BY <1>3, <1>7, <3>1, <3>2 DEF IInv, Returned
  <2> QED
    BY <1>1, <2>1, <2>6, <2>7
<1> QED
  BY <1>4, <1>6, <1>7 DEF DecorateStep

\* Registration keeps the current versions and the table of hashes consistent.
LEMMA EnlistStep ==
    ASSUME IInv, NEW c \in Class, Enlist(c),
           \/ current' = [current EXCEPT ![FamilyOf[c]] = CurrentAfter(c)]
           \/ current' = [current EXCEPT ![FamilyOf[c]] = c]
    PROVE  IInv'
<1>1. /\ TypeOK /\ task = Idle /\ task' = Idle /\ outcome' = None
      /\ registered' = registered \cup {c}
      /\ UNCHANGED <<wire, results, unregistered>>
      /\ FamilyOf[c] \in Family
  BY RegistryAssumption DEF IInv, Enlist
<1>2. \A f \in Family : Registered(f)' = Registered(f) \cup (IF f = FamilyOf[c] THEN {c} ELSE {})
  BY <1>1 DEF Registered
<1>3. CurrentAfter(c) \in Registered(FamilyOf[c]) \cup {c}
  BY <1>1 DEF TypeOK, CurrentAfter
<1>4. PICK now \in Registered(FamilyOf[c]) \cup {c} : current' = [current EXCEPT ![FamilyOf[c]] = now]
  BY <1>3
<1>5. now \in Class
  BY <1>1, <1>4 DEF TypeOK, Registered
<1>6. /\ current' \in [Family -> Class \cup {NoClass}]
      /\ \A f \in Family : current'[f] = IF f = FamilyOf[c] THEN now ELSE current[f]
  BY <1>1, <1>4, <1>5 DEF TypeOK
<1>7. \A f \in Family : IF Registered(f)' = {} THEN current'[f] = NoClass
                                               ELSE current'[f] \in Registered(f)'
  <2> SUFFICES ASSUME NEW f \in Family
               PROVE  IF Registered(f)' = {} THEN current'[f] = NoClass
                                             ELSE current'[f] \in Registered(f)'
    OBVIOUS
  <2>1. CASE f = FamilyOf[c]
    BY <1>2, <1>4, <1>6, <2>1
  <2>2. CASE f # FamilyOf[c]
    <3>1. Registered(f)' = Registered(f) \cup {}
      BY <1>2, <2>2
    <3>2. current'[f] = current[f]
      BY <1>6, <2>2
    <3> QED
      BY <1>1, <3>1, <3>2 DEF TypeOK
  <2> QED
    BY <2>1, <2>2
<1>8. /\ DOMAIN byTypes' = {LayoutOf[d] : d \in registered'}
      /\ \A l \in DOMAIN byTypes' : byTypes'[l] \in registered' /\ LayoutOf[byTypes'[l]] = l
  <2>1. CASE c \in registered
    BY <1>1, <2>1 DEF Enlist, TypeOK
  <2>2. CASE c \notin registered
    <3>1. byTypes' = [l \in DOMAIN byTypes \cup {LayoutOf[c]} |->
                         IF l = LayoutOf[c] THEN c ELSE byTypes[l]]
      BY <2>2 DEF Enlist
    <3> QED
      BY <1>1, <3>1 DEF TypeOK
  <2> QED
    BY <2>1, <2>2
<1>9. TypeOK'
  BY <1>1, <1>6, <1>7, <1>8 DEF TypeOK
<1>10. Filed'
  BY <1>1 DEF IInv, Filed
<1> QED
  BY <1>1, <1>9, <1>10 DEF IInv, UnderWay, Returned

LEMMA NextIInv == IInv /\ [Next]_vars => IInv'
<1> SUFFICES ASSUME IInv, [Next]_vars PROVE IInv'
  OBVIOUS
<1>0. TypeOK /\ registered \subseteq Class
  BY DEF IInv, TypeOK
<1>1. ASSUME NEW c \in Class, Register(c) PROVE IInv'
  BY <1>1, EnlistStep DEF Register
<1>2. ASSUME NEW c \in Class, RegisterCurrent(c) PROVE IInv'
  BY <1>2, EnlistStep DEF RegisterCurrent
\* The calls and the loop leave the registry alone.
<1>3. ASSUME UNCHANGED <<registry, wire, unregistered>>,
             results' \in [Class -> SUBSET Class],
             \A c \in Class : results'[c] \subseteq results[c],
             UnderWay', Returned', task' # Idle => task'.to \in registered
      PROVE  IInv'
  <2>1. TypeOK'
    BY <1>0, <1>3 DEF TypeOK, registry, Registered
  <2>2. Filed'
    BY <1>3 DEF IInv, Filed, registry
  <2> QED
    BY <1>3, <2>1, <2>2 DEF IInv
<1>4. ASSUME NEW m \in Class, NEW to \in Class, CallUnmarshalTo(m, to) PROVE IInv'
  <2>1. UnderWay' /\ Returned' /\ (task' # Idle => task'.to \in registered)
    BY <1>4, UnmarshalToStep DEF CallUnmarshalTo, Op
  <2> QED
    BY <1>0, <1>3, <1>4, <2>1 DEF CallUnmarshalTo, TypeOK
<1>5. ASSUME NEW m \in Class, CallUnmarshal(m) PROVE IInv'
  <2>1. UNCHANGED registry /\ "Unmarshal" \in Op
    BY <1>5 DEF CallUnmarshal, Op
  <2>2. CASE ~Known(m) /\ Finished("Unmarshal", m, NoClass, NOT_MATCH, <<>>)
    <3>1. m \notin registered
      BY <1>0, <2>2, RegisteredIsKnown
    <3>2. NOT_MATCH \in Ret \ {OK} /\ <<>> \in Seq(Class)
      BY DEF Ret, NOT_MATCH, OK
    <3>3. UnderWay' /\ Returned'
      BY <2>1, <2>2, <3>1, <3>2, ErrorStep
    <3> QED
      BY <1>0, <1>3, <1>5, <2>2, <3>3 DEF CallUnmarshal, TypeOK, Finished
  <2>3. CASE Known(m)
    <3> PICK to : to = current[FamilyOf[VersionInfo(m)]]
      OBVIOUS
    <3>1. VersionInfo(m) \in registered
      BY <1>0, <2>3, VersionIsRegistered
    <3>2. FamilyOf[VersionInfo(m)] \in Family /\ VersionInfo(m) \in Registered(FamilyOf[VersionInfo(m)])
      BY <1>0, <3>1, RegistryAssumption DEF Registered
    <3>3. to \in registered /\ FamilyOf[to] = FamilyOf[VersionInfo(m)]
      BY <1>0, <3>2 DEF TypeOK, Registered
    <3>4. UnderWay' /\ Returned' /\ (task' # Idle => task'.to \in registered)
      <4>1. CASE to = VersionInfo(m) /\ Finished("Unmarshal", m, to, OK, <<to>>)
        <5>1. UnderWay' /\ Returned'
          BY <2>1, <2>3, <3>3, <4>1, OkStep
        <5> QED
          BY <4>1, <5>1 DEF Finished
      <4>2. CASE to # VersionInfo(m) /\ Begin("Unmarshal", m, to)
        BY <2>1, <2>3, <3>3, <4>2, BeginStep
      <4> QED
        BY <1>5, <2>3, <4>1, <4>2 DEF CallUnmarshal
    <3> QED
      BY <1>0, <1>3, <1>5, <3>4 DEF CallUnmarshal, TypeOK
  <2> QED
    BY <1>5, <2>2, <2>3 DEF CallUnmarshal
<1>6. ASSUME DecorateStep PROVE IInv'
  <2>1. UnderWay' /\ Returned' /\ (task' # Idle => task'.to \in registered)
    BY <1>6, DecorateStepKeeps
  <2> QED
    BY <1>0, <1>3, <1>6, <2>1 DEF DecorateStep, TypeOK
<1>7. ASSUME NEW m \in Class, Arrive(m) PROVE IInv'
  <2>1. UNCHANGED registry /\ task = Idle /\ task' = Idle /\ outcome' = None
    BY <1>7 DEF Arrive
  <2>2. CASE Known(m)
    <3>1. VersionInfo(m) \in registered /\ LayoutOf[VersionInfo(m)] = LayoutOf[m]
      BY <1>0, <2>2, VersionIsRegistered
    <3>2. /\ results' = [results EXCEPT ![VersionInfo(m)] = @ \cup {m}]
          /\ wire' = wire \ {m} /\ unregistered' = unregistered
      BY <1>7, <2>2 DEF Arrive
    <3>3. TypeOK'
      BY <1>0, <2>1, <3>1, <3>2 DEF TypeOK, registry, Registered
    <3>4. Filed'
      BY <1>0, <2>1, <3>1, <3>2 DEF IInv, Filed, registry, TypeOK
    <3> QED
      BY <2>1, <3>3, <3>4 DEF IInv, UnderWay, Returned
  <2>3. CASE ~Known(m)
    <3>1. /\ results' = results
          /\ wire' = wire \ {m} /\ unregistered' = unregistered \cup {m}
      BY <1>7, <2>3 DEF Arrive
    <3>2. TypeOK'
      BY <1>0, <2>1, <3>1 DEF TypeOK, registry, Registered
    <3>3. Filed'
      BY <2>1, <3>1 DEF IInv, Filed, registry
    <3> QED
      BY <2>1, <3>2, <3>3 DEF IInv, UnderWay, Returned
  <2> QED
    BY <2>2, <2>3
<1>8. ASSUME NEW to \in Class, CallRead(to) PROVE IInv'
  <2>1. UNCHANGED <<registry, wire, unregistered>> /\ "Read" \in Op
    BY <1>8 DEF CallRead, Op
  <2>2. CASE Finished("Read", NoClass, to, INSUFFICIENT, <<>>) /\ UNCHANGED results
    <3>1. INSUFFICIENT \in Ret \ {OK} /\ <<>> \in Seq(Class)
      BY DEF Ret, INSUFFICIENT, OK
    <3>2. UnderWay' /\ Returned'
      BY <2>1, <2>2, <3>1, ErrorStep
    <3> QED
      BY <1>0, <1>3, <2>1, <2>2, <3>2 DEF TypeOK, Finished
  <2>3. ASSUME NEW m \in results[to], results' = [results EXCEPT ![to] = @ \ {m}],
               UnmarshalTo("Read", m, to)
        PROVE  IInv'
    <3>1. m \in Class
      BY <1>0 DEF TypeOK
    <3>2. UnderWay' /\ Returned' /\ (task' # Idle => task'.to \in registered)
      BY <2>1, <2>3, <3>1, UnmarshalToStep
    <3> QED
      BY <1>0, <1>3, <2>1, <2>3, <3>2 DEF TypeOK
  <2> QED
    BY <1>8, <2>2, <2>3 DEF CallRead
<1>9. CASE UNCHANGED vars
  <2>1. UNCHANGED <<registry, wire, results, unregistered, task, outcome>>
    BY <1>9 DEF vars
  <2>2. \A n, p : Way(n, p)' <=> Way(n, p)
    BY <2>1 DEF Way, Known, VersionInfo, registry
  <2>3. \A n : Becomes(VersionInfo(n))' = Becomes(VersionInfo(n))
    BY <2>1 DEF Becomes, Closed, Step, VersionInfo, registry
  <2>4. UnderWay' /\ Returned'
    BY <2>1, <2>2, <2>3 DEF IInv, UnderWay, Returned, registry
  <2> QED
    BY <1>0, <1>3, <2>1, <2>4 DEF IInv, TypeOK, UnderWay
<1> QED
  BY <1>1, <1>2, <1>4, <1>5, <1>6, <1>7, <1>8, <1>9 DEF Next

\* In every order of registrations, arrivals and calls, whatever classes share their
\* layout.
THEOREM Invariance == Spec => []IInv
BY InitIInv, NextIInv, PTL DEF Spec

\* What flat.cc looks up without a test is there: the current version of a family
\* (flat.cc:98) and the version behind a Types hash (flat.cc:114).
THEOREM TypeCorrect == Spec => []TypeOK
<1>1. IInv => TypeOK
  BY DEF IInv
<1> QED
  BY <1>1, Invariance, PTL

----------------------------------------------------------------------------
(* Classes of different layouts *)

\* No two classes have the same member types, so that a Types hash names a class.
\* Without this a registration takes over the messages of another class.
LayoutsDiffer == \A c, d \in Class : LayoutOf[c] = LayoutOf[d] => c = d

LEMMA VersionIsOwn ==
    ASSUME LayoutsDiffer, TypeOK, NEW m \in Class, Known(m)
    PROVE  VersionInfo(m) = m /\ m \in registered
<1>1. VersionInfo(m) \in Class
  BY VersionIsRegistered DEF TypeOK
<1> QED
  BY <1>1, VersionIsRegistered DEF LayoutsDiffer

\* A way that meets its last version only at the end meets none twice: behind a
\* version that came again, the end would have to come again.
LEMMA WayIsInjective ==
    ASSUME registered \subseteq Class, NEW m, NEW path, Way(m, path),
           \A i \in 1..(Len(path) - 1) : path[i] # path[Len(path)]
    PROVE  IsInjective(path)
<1>1. path \in Seq(registered) /\ Len(path) \in Nat /\ DOMAIN path = 1..Len(path)
  BY DEF Way
<1> DEFINE Late == {k \in Nat : \E i, j \in 1..Len(path) :
                                   i < j /\ path[i] = path[j] /\ k = Len(path) - j}
<1>2. Late = {}
  <2> SUFFICES ASSUME Late # {} PROVE FALSE
    OBVIOUS
  <2>1. Late \subseteq Nat
    OBVIOUS
  <2>2. PICK k \in Late : \A l \in Late : k <= l
    <3> HIDE DEF Late
    <3> QED
      BY <2>1, LeastNatural
  <2>3. PICK i \in 1..Len(path), j \in 1..Len(path) :
            i < j /\ path[i] = path[j] /\ k = Len(path) - j
    BY <2>2
  <2>4. i \in 1..(Len(path) - 1)
    BY <1>1, <2>3
  <2>5. j # Len(path)
    BY <2>3, <2>4
  <2>6. /\ j \in 1..(Len(path) - 1) /\ j + 1 \in 1..Len(path)
        /\ i + 1 \in 1..Len(path)
    <3>0. j \in 1..Len(path) /\ Len(path) \in Nat
      BY <1>1, <2>3
    <3>1. j \in 1..(Len(path) - 1) /\ j + 1 \in 1..Len(path)
      BY <2>5, <3>0
    <3>2. i + 1 \in 1..Len(path)
      BY <1>1, <2>3, <2>4
    <3> QED
      BY <3>1, <3>2
  <2>7. path[i + 1] = path[j + 1]
    <3>1. path[i + 1] = ProgenyOf[path[i]] /\ path[j + 1] = ProgenyOf[path[j]]
      BY <2>4, <2>6 DEF Way
    <3> QED
      BY <2>3, <3>1
  <2>8. Len(path) - (j + 1) \in Late
    <3>1. Len(path) - (j + 1) \in Nat /\ i + 1 < j + 1
      BY <1>1, <2>3, <2>6
    <3> QED
      BY <2>6, <2>7, <3>1
  <2>9. k <= Len(path) - (j + 1)
    BY <2>2, <2>8
  <2> QED
    BY <1>1, <2>3, <2>9
<1>3. ASSUME NEW i \in 1..Len(path), NEW j \in 1..Len(path), path[i] = path[j], i < j
      PROVE  FALSE
  <2>1. Len(path) - j \in Late
    BY <1>1, <1>3
  <2> QED
    BY <1>2, <2>1
<1>4. \A i, j \in 1..Len(path) : path[i] = path[j] => i = j
  BY <1>1, <1>3
<1> QED
  BY <1>1, <1>4 DEF IsInjective

\* An object that is returned was decorated through every version between the
\* message's and its own, in order and once, cyclic Progeny included.
THEOREM ChainsAreHonest ==
    ASSUME LayoutsDiffer
    PROVE  Spec => []ChainIsHonest
<1>1. IInv => ChainIsHonest
  <2> SUFFICES ASSUME IInv, outcome.op # "none", outcome.ret = OK
               PROVE  /\ outcome.path[1] = outcome.msg
                      /\ Last(outcome.path) = outcome.to
                      /\ IsInjective(outcome.path)
                      /\ \A i \in 1..(Len(outcome.path) - 1) :
                            outcome.path[i + 1] = ProgenyOf[outcome.path[i]]
    BY DEF ChainIsHonest
  <2> PICK m, to, path : m = outcome.msg /\ to = outcome.to /\ path = outcome.path
    OBVIOUS
  <2>1. outcome # None
    BY DEF None
  <2>2. /\ TypeOK /\ registered \subseteq Class /\ m \in Class \cup {NoClass}
        /\ Way(m, path) /\ path[Len(path)] = to
        /\ \A i \in 1..(Len(path) - 1) : path[i] # to
    BY <2>1 DEF IInv, TypeOK, Returned
  <2>3. m \in Class
    BY <2>2 DEF Way
  <2>4. path[1] = m
    BY <2>2, <2>3, VersionIsOwn DEF Way
  <2>5. IsInjective(path)
    BY <2>2, WayIsInjective
  <2> QED
    BY <2>2, <2>4, <2>5 DEF Way, Last
<1> QED
  BY <1>1, Invariance, PTL

\* UnmarshalTo and Unmarshal succeed exactly when a chain of registered versions
\* leads from the message to the target.
THEOREM MigratesExactly ==
    ASSUME LayoutsDiffer
    PROVE  Spec => []MigratesWhenItCan
<1>1. IInv => MigratesWhenItCan
  <2> SUFFICES ASSUME IInv, outcome.op \in {"UnmarshalTo", "Unmarshal"},
                      outcome.msg \in registered
               PROVE  outcome.ret = OK <=> Readable(outcome.msg, outcome.to)
    BY DEF MigratesWhenItCan
  <2> PICK m, to, path : m = outcome.msg /\ to = outcome.to /\ path = outcome.path
    OBVIOUS
  <2>1. outcome # None
    BY DEF None
  <2>2. TypeOK /\ registered \subseteq Class /\ m \in Class
    BY DEF IInv, TypeOK
  <2>3. VersionInfo(m) = m
    BY <2>2, RegisteredIsKnown, VersionIsOwn
  <2>4. CASE outcome.ret = OK
    <3>1. Way(m, path) /\ path[Len(path)] = to
      BY <2>1, <2>4 DEF IInv, Returned
    <3>2. path[1] = m /\ Len(path) \in 1..Len(path)
      BY <2>3, <3>1 DEF Way
    <3>3. path[Len(path)] \in Becomes(path[1])
      BY <2>2, <3>1, <3>2, WayReaches
    <3> QED
      BY <2>4, <3>1, <3>2, <3>3 DEF Readable
  <2>5. CASE outcome.ret # OK
    <3>1. to \notin Becomes(m)
      BY <2>1, <2>3, <2>5 DEF IInv, Returned
    <3> QED
      BY <2>5, <3>1 DEF Readable
  <2> QED
    BY <2>4, <2>5
<1> QED
  BY <1>1, Invariance, PTL

----------------------------------------------------------------------------
(* Reading what was filed *)

\* A Read is answered at once, and not with an error.
ReadAnswers ==
    /\ task.op # "Read"
    /\ outcome.op = "Read" => outcome.ret \in {OK, INSUFFICIENT}

\* A message filed for a class is that class's, and the registry says so.
LEMMA FiledIsOwn ==
    ASSUME LayoutsDiffer, IInv, NEW c \in Class, NEW m \in results[c]
    PROVE  m = c /\ c \in registered /\ Recognised(m)
<1>1. TypeOK /\ m \in Class /\ c \in registered /\ LayoutOf[m] = LayoutOf[c]
  BY DEF IInv, TypeOK, Filed
<1>2. m = c
  BY <1>1 DEF LayoutsDiffer
<1>3. Known(m)
  BY <1>1, <1>2, RegisteredIsKnown
<1> QED
  BY <1>1, <1>2, <1>3, VersionIsOwn DEF Recognised

LEMMA ReadAnswersStep ==
    ASSUME LayoutsDiffer, IInv, ReadAnswers, [Next]_vars
    PROVE  ReadAnswers'
<1>1. ASSUME outcome' = None, task' = task PROVE ReadAnswers'
  BY <1>1 DEF ReadAnswers, None
<1>2. ASSUME NEW op, op # "Read", NEW m, NEW to, NEW code, NEW path, Finished(op, m, to, code, path)
      PROVE  ReadAnswers'
  BY <1>2 DEF ReadAnswers, Finished, Idle
<1>3. ASSUME NEW op, op # "Read", NEW m, NEW to, Begin(op, m, to) PROVE ReadAnswers'
  BY <1>3 DEF ReadAnswers, Begin, None
<1>4. ASSUME NEW c \in Class, Register(c) \/ RegisterCurrent(c) PROVE ReadAnswers'
  BY <1>1, <1>4 DEF Register, RegisterCurrent, Enlist
<1>5. ASSUME NEW m \in Class, NEW to \in Class, CallUnmarshalTo(m, to) PROVE ReadAnswers'
  BY <1>2, <1>3, <1>5 DEF CallUnmarshalTo, UnmarshalTo
<1>6. ASSUME NEW m \in Class, CallUnmarshal(m) PROVE ReadAnswers'
  BY <1>2, <1>3, <1>6 DEF CallUnmarshal
<1>7. ASSUME DecorateStep PROVE ReadAnswers'
  <2>1. task.op # "Read"
    BY DEF ReadAnswers
  <2>2. CASE \E code, path : Finished(task.op, task.msg, task.to, code, path)
    BY <1>2, <2>1, <2>2
  <2>3. CASE outcome' = outcome /\ \E path : task' = [task EXCEPT !.path = path]
    <3>1. task'.op = task.op
      <4>1. task \in [op : Op, msg : Class, to : registered, path : Seq(registered)]
        BY <1>7 DEF DecorateStep, IInv, UnderWay
      <4> QED
        BY <2>3, <4>1
    <3> QED
      BY <2>3, <3>1 DEF ReadAnswers
  <2> QED
    BY <1>7, <2>2, <2>3 DEF DecorateStep
<1>8. ASSUME NEW m \in Class, Arrive(m) PROVE ReadAnswers'
  BY <1>1, <1>8 DEF Arrive
<1>9. ASSUME NEW to \in Class, CallRead(to) PROVE ReadAnswers'
  <2>1. CASE Finished("Read", NoClass, to, INSUFFICIENT, <<>>)
    BY <2>1 DEF ReadAnswers, Finished, Idle
  <2>2. ASSUME NEW m \in results[to], UnmarshalTo("Read", m, to) PROVE ReadAnswers'
    <3>1. m = to /\ to \in registered /\ Known(m) /\ VersionInfo(m) = m
      BY FiledIsOwn DEF Recognised
    <3>2. Finished("Read", m, to, OK, <<to>>)
      BY <2>2, <3>1 DEF UnmarshalTo
    <3> QED
      BY <3>2 DEF ReadAnswers, Finished, Idle
  <2> QED
    BY <1>9, <2>1, <2>2 DEF CallRead
<1>10. CASE UNCHANGED vars
  BY <1>10 DEF ReadAnswers, vars
<1> QED
  BY <1>4, <1>5, <1>6, <1>7, <1>8, <1>9, <1>10 DEF Next

\* Read never loses a message that RBuffer filed: whatever was registered since, it is
\* still read as the class it was filed for.
THEOREM FiledIsRead ==
    ASSUME LayoutsDiffer
    PROVE  Spec => []FiledIsReadable
<1>1. Init => ReadAnswers
  BY DEF Init, ReadAnswers, Idle, None
<1>2. IInv /\ ReadAnswers /\ [Next]_vars => ReadAnswers'
  BY ReadAnswersStep
<1>3. IInv /\ ReadAnswers => FiledIsReadable
  BY FiledIsOwn DEF ReadAnswers, FiledIsReadable
<1> QED
  BY <1>1, <1>2, <1>3, Invariance, PTL DEF Spec

\* Every step that registers a class keeps the versions a message becomes.
LEMMA BecomesGrows ==
    ASSUME registered \subseteq registered', registered' \subseteq Class, NEW m \in Class
    PROVE  Becomes(m) \subseteq Becomes(m)'
<1>1. ASSUME NEW S \in SUBSET Versions(FamilyOf[m]), Closed(S)' PROVE Closed(S)
  <2>1. ASSUME NEW d \in S PROVE Step(d) \in S \cup {NoClass}
    <3>1. Step(d)' \in S \cup {NoClass}
      BY <1>1 DEF Closed
    <3>2. Step(d) # NoClass => Step(d)' = Step(d)
      BY DEF Step
    <3> QED
      BY <3>1, <3>2
  <2> QED
    BY <2>1 DEF Closed
<1>2. \A d \in Versions(FamilyOf[m]) :
         (\A S \in SUBSET Versions(FamilyOf[m]) : (m \in S /\ Closed(S)) => d \in S)
           => (\A S \in SUBSET Versions(FamilyOf[m]) : (m \in S /\ Closed(S)') => d \in S)
  BY <1>1
<1> QED
  BY <1>2 DEF Becomes

\* A registration takes away no message and no version that it could be read as.
THEOREM NothingUnlearned ==
    ASSUME LayoutsDiffer
    PROVE  Spec => ReadableStays
<1> DEFINE Stays == registered' # registered =>
                       \A m \in registered : Recognised(m) =>
                          /\ Recognised(m)'
                          /\ \A to \in Becomes(m) : Readable(m, to)'
<1>1. ASSUME IInv, IInv', [Next]_vars PROVE [Stays]_registry
  <2>1. TypeOK /\ TypeOK' /\ registered \subseteq Class /\ registered' \subseteq Class
    BY <1>1 DEF IInv, TypeOK
  <2>2. CASE registered' = registered
    BY <2>2
  <2>3. CASE registered' # registered
    <3>1. PICK c \in Class : Enlist(c)
      BY <1>1, <2>3 DEF Next, vars, registry, Register, RegisterCurrent, CallUnmarshalTo,
                        CallUnmarshal, DecorateStep, Arrive, CallRead
    <3>2. registered \subseteq registered'
      BY <3>1 DEF Enlist
    <3>3. ASSUME NEW m \in registered PROVE Recognised(m)'
      <4>1. m \in registered' /\ m \in Class
        BY <2>1, <3>2
      <4>2. Known(m)'
        BY <2>1, <4>1 DEF TypeOK, Known
      <4>3. VersionInfo(m)' \in Class /\ LayoutOf[VersionInfo(m)'] = LayoutOf[m]
        BY <2>1, <4>1, <4>2 DEF TypeOK, Known, VersionInfo
      <4> QED
        BY <4>1, <4>2, <4>3 DEF LayoutsDiffer, Recognised
    <3>4. ASSUME NEW m \in registered, NEW to \in Becomes(m) PROVE Readable(m, to)'
      BY <2>1, <3>2, BecomesGrows DEF Readable
    <3> QED
      BY <3>3, <3>4
  <2> QED
    BY <2>2, <2>3
<1> QED
  BY <1>1, Invariance, PTL DEF Spec, ReadableStays
=============================================================================
