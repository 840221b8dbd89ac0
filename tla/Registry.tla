------------------------------ MODULE Registry ------------------------------
(***************************************************************************)
(* tssd::Manager (flat.h, flat.cc): classes are registered as versions of  *)
(* families, a message is recognised by the hash of its Types, read as the *)
(* version it was written as and decorated along Progeny to the version    *)
(* that is asked for.  RBuffer files messages by what the registry says at *)
(* the time (pushFragment, tssd.cc) and Read asks the registry again.      *)
(*                                                                         *)
(* A (family, version) pair is the Class registered for it; a message is   *)
(* the Class its sender marshalled.  The Buffer it is in is rewound.       *)
(***************************************************************************)
EXTENDS Integers, Sequences, FiniteSets, SequencesExt, Functions

CONSTANTS
    Class,      \* the Flatable classes of sender and receiver
    Family,     \* what Family() returns
    NoClass,    \* no version: an empty Progeny()
    FamilyOf,   \* [Class -> Family]
    ProgenyOf,  \* [Class -> Class \cup {NoClass}], of the same family
    LayoutOf,   \* [Class -> anything], what Types hashes: member types, no names
    Decorates,  \* pairs <<to, from>> for which to.Decorate(from) returns OK
    Sent        \* bound: the messages that arrive through RBuffer

ASSUME RegistryAssumption ==
    /\ NoClass \notin Class
    /\ FamilyOf \in [Class -> Family]
    /\ ProgenyOf \in [Class -> Class \cup {NoClass}]
    /\ \A c \in Class : ProgenyOf[c] # NoClass => FamilyOf[ProgenyOf[c]] = FamilyOf[c]
    /\ DOMAIN LayoutOf = Class
    /\ Decorates \subseteq Class \X Class /\ Sent \subseteq Class

OK              == "OK"
NOT_FOUND       == "ERR_SCHEMA_NOT_FOUND"
NOT_MATCH       == "ERR_SCHEMA_NOT_MATCH"
INSUFFICIENT    == "ERR_INSUFFICIENT_DATA"

VARIABLES
    registered, \* families.first[..].versions
    current,    \* families.first[..].current, NoClass without a family
    byTypes,    \* families.second: a partial function of layouts
    wire,       \* messages that may arrive
    results,    \* results_[family][version]: the messages filed for a class
    unregistered, \* unregistered_
    task,       \* the decorate loop under way: [op, msg, to, path], or Idle
    outcome     \* history: [op, msg, to, ret, path] of a call that just returned

registry == <<registered, current, byTypes>>
vars     == <<registry, wire, results, unregistered, task, outcome>>

Idle == [op |-> "none", msg |-> NoClass, to |-> NoClass, path |-> <<>>]
None == [op |-> "none"]

Init ==
    /\ registered = {} /\ current = [f \in Family |-> NoClass]
    /\ byTypes = <<>>
    /\ wire = Sent /\ results = [c \in Class |-> {}] /\ unregistered = {}
    /\ task = Idle /\ outcome = None

----------------------------------------------------------------------------
(* Register, RegisterCurrent *)

Registered(f) == {c \in registered : FamilyOf[c] = f}

\* Mutant of CurrentAfter: the first version of a family is not made current.
CurrentIfLast(c) == IF ProgenyOf[c] = NoClass THEN c ELSE current[FamilyOf[c]]

\* The version a plain Register leaves current: the first of a family, and any that
\* has no Progeny, known already or not.
CurrentAfter(c) ==
    IF Registered(FamilyOf[c]) = {} \/ ProgenyOf[c] = NoClass THEN c
    ELSE current[FamilyOf[c]]

\* Mutant of Enlist: the other hashes are forgotten.
EnlistAlone(c) ==
    /\ task = Idle
    /\ registered' = registered \cup {c}
    /\ byTypes' = [l \in {LayoutOf[c]} |-> c]
    /\ outcome' = None
    /\ UNCHANGED <<wire, results, unregistered, task>>

Enlist(c) ==
    /\ task = Idle
    /\ registered' = registered \cup {c}
    /\ byTypes' = IF c \in registered THEN byTypes
                  ELSE [l \in DOMAIN byTypes \cup {LayoutOf[c]} |->
                           IF l = LayoutOf[c] THEN c ELSE byTypes[l]]
    /\ outcome' = None
    /\ UNCHANGED <<wire, results, unregistered, task>>

Register(c) ==
    /\ Enlist(c)
    /\ current' = [current EXCEPT ![FamilyOf[c]] = CurrentAfter(c)]

RegisterCurrent(c) ==
    /\ Enlist(c)
    /\ current' = [current EXCEPT ![FamilyOf[c]] = c]

----------------------------------------------------------------------------
(* UnmarshalTo, Unmarshal and the loop of decorate *)

\* TypesToVersionInfo of a message.
Known(m)       == LayoutOf[m] \in DOMAIN byTypes
VersionInfo(m) == byTypes[LayoutOf[m]]

Finished(op, m, to, code, path) ==
    /\ outcome' = [op |-> op, msg |-> m, to |-> to, ret |-> code, path |-> path]
    /\ task' = Idle

\* The loop starts at the version the message was read as.
Begin(op, m, to) ==
    /\ task' = [op |-> op, msg |-> m, to |-> to, path |-> <<VersionInfo(m)>>]
    /\ outcome' = None

\* Mutant of UnmarshalTo: any version of the family is read as it is.
UnmarshalFamily(op, m, to) ==
    \/ to \notin registered /\ Finished(op, m, to, NOT_FOUND, <<>>)
    \/ /\ to \in registered
       /\ IF Known(m) /\ FamilyOf[VersionInfo(m)] = FamilyOf[to]
          THEN Finished(op, m, to, OK, <<to>>)
          ELSE Finished(op, m, to, NOT_MATCH, <<>>)

UnmarshalTo(op, m, to) ==
    \/ /\ to \notin registered
       /\ Finished(op, m, to, NOT_FOUND, <<>>)
    \/ /\ to \in registered
       /\ ~Known(m) \/ (Known(m) /\ FamilyOf[VersionInfo(m)] # FamilyOf[to])
       /\ Finished(op, m, to, NOT_MATCH, <<>>)
    \/ /\ to \in registered /\ Known(m)
       /\ VersionInfo(m) = to
       /\ Finished(op, m, to, OK, <<to>>)
    \/ /\ to \in registered /\ Known(m)
       /\ VersionInfo(m) # to /\ FamilyOf[VersionInfo(m)] = FamilyOf[to]
       /\ Begin(op, m, to)

CallUnmarshalTo(m, to) ==
    /\ task = Idle
    /\ UnmarshalTo("UnmarshalTo", m, to)
    /\ UNCHANGED <<registry, wire, results, unregistered>>

\* Unmarshal(buf): to the current version of the message's family.  A nullptr is
\* returned where UnmarshalTo would return an error.
CallUnmarshal(m) ==
    /\ task = Idle
    /\ \/ /\ ~Known(m)
          /\ Finished("Unmarshal", m, NoClass, NOT_MATCH, <<>>)
       \/ /\ Known(m)
          /\ LET to == current[FamilyOf[VersionInfo(m)]]
             IN  IF to = VersionInfo(m) THEN Finished("Unmarshal", m, to, OK, <<to>>)
                 ELSE Begin("Unmarshal", m, to)
    /\ UNCHANGED <<registry, wire, results, unregistered>>

\* Mutants of DecorateStep: versions that are not registered are built; the loop does
\* not go on to the version it built.
DecorateUnknown ==
    /\ task # Idle
    /\ LET next == ProgenyOf[Last(task.path)]
           path == Append(task.path, next)
       IN  IF next = NoClass THEN Finished(task.op, task.msg, task.to, NOT_MATCH, task.path)
           ELSE IF next = task.to THEN Finished(task.op, task.msg, task.to, OK, path)
           ELSE task' = [task EXCEPT !.path = path] /\ UNCHANGED outcome
    /\ UNCHANGED <<registry, wire, results, unregistered>>
DecorateSame ==
    /\ task # Idle
    /\ IF ProgenyOf[Last(task.path)] = task.to
       THEN Finished(task.op, task.msg, task.to, OK, Append(task.path, task.to))
       ELSE UNCHANGED <<task, outcome>>
    /\ UNCHANGED <<registry, wire, results, unregistered>>

\* One turn of decorate's loop.
DecorateStep ==
    /\ task # Idle
    /\ LET it   == Last(task.path)
           next == ProgenyOf[it]
           path == Append(task.path, next)
           Fail == Finished(task.op, task.msg, task.to, NOT_MATCH, task.path)
       IN  \/ next \notin registered /\ Fail
           \/ next \in registered /\ <<next, it>> \notin Decorates /\ Fail
           \/ /\ next \in registered /\ <<next, it>> \in Decorates
              /\ IF next = task.to
                 THEN Finished(task.op, task.msg, task.to, OK, path)
                 ELSE task' = [task EXCEPT !.path = path] /\ UNCHANGED outcome
    /\ UNCHANGED <<registry, wire, results, unregistered>>

----------------------------------------------------------------------------
(* RBuffer, with messages of one fragment *)

\* Mutant of Arrive: a message is filed for the current version of its family.
ArriveCurrent(m) ==
    /\ task = Idle /\ m \in wire /\ Known(m)
    /\ wire' = wire \ {m}
    /\ results' = [results EXCEPT ![current[FamilyOf[VersionInfo(m)]]] = @ \cup {m}]
    /\ outcome' = None
    /\ UNCHANGED <<registry, unregistered, task>>

\* pushFragment.
Arrive(m) ==
    /\ task = Idle /\ m \in wire
    /\ wire' = wire \ {m}
    /\ IF Known(m)
       THEN /\ results' = [results EXCEPT ![VersionInfo(m)] = @ \cup {m}]
            /\ UNCHANGED unregistered
       ELSE unregistered' = unregistered \cup {m} /\ UNCHANGED results
    /\ outcome' = None
    /\ UNCHANGED <<registry, task>>

\* Read(flat): Buffer(family, version) takes a message, UnmarshalTo reads it.
CallRead(to) ==
    /\ task = Idle
    /\ \/ /\ results[to] = {}
          /\ Finished("Read", NoClass, to, INSUFFICIENT, <<>>)
          /\ UNCHANGED results
       \/ \E m \in results[to] :
             /\ results' = [results EXCEPT ![to] = @ \ {m}]
             /\ UnmarshalTo("Read", m, to)
    /\ UNCHANGED <<registry, wire, unregistered>>

Next ==
    \/ \E c \in Class : Register(c) \/ RegisterCurrent(c)
    \/ \E m, to \in Class : CallUnmarshalTo(m, to)
    \/ \E m \in Class : CallUnmarshal(m)
    \/ DecorateStep
    \/ \E m \in Class : Arrive(m)
    \/ \E to \in Class : CallRead(to)

Spec     == Init /\ [][Next]_vars
FairSpec == Spec /\ WF_vars(DecorateStep)

----------------------------------------------------------------------------
(* Properties *)

\* The types of the state.  What is looked up without a test is there: the current
\* version of a family, and the version behind a Types hash (flat.cc:98, flat.cc:114).
TypeOK ==
    /\ registered \subseteq Class /\ current \in [Family -> Class \cup {NoClass}]
    /\ \A f \in Family : IF Registered(f) = {} THEN current[f] = NoClass
                                               ELSE current[f] \in Registered(f)
    /\ DOMAIN byTypes = {LayoutOf[c] : c \in registered}
    /\ \A l \in DOMAIN byTypes : byTypes[l] \in registered /\ LayoutOf[byTypes[l]] = l
    /\ wire \subseteq Class /\ unregistered \subseteq Class
    /\ results \in [Class -> SUBSET Class]
    /\ task # Idle => task.to \in registered

\* The version an object of version c becomes next, if that one is registered and
\* willing to decorate.
Step(c) == IF c # NoClass /\ ProgenyOf[c] \in registered /\ <<ProgenyOf[c], c>> \in Decorates
           THEN ProgenyOf[c] ELSE NoClass

\* The versions an object of version c becomes in any number of steps: those in
\* every set of versions that holds c and is closed under steps.
Versions(f) == {c \in Class : FamilyOf[c] = f}
Closed(S)   == \A d \in S : Step(d) \in S \cup {NoClass}
Becomes(c)  == LET sets == {S \in SUBSET Versions(FamilyOf[c]) : c \in S /\ Closed(S)}
               IN  {d \in Versions(FamilyOf[c]) : \A S \in sets : d \in S}

Readable(m, to) == m \in registered /\ to \in Becomes(m)

\* Where layouts differ, a message is read as exactly what its Progeny chain says:
\* UnmarshalTo fails only if the chain does, in every order of registrations.
MigratesWhenItCan ==
    (outcome.op \in {"UnmarshalTo", "Unmarshal"} /\ outcome.msg \in registered) =>
        (outcome.ret = OK <=> Readable(outcome.msg, outcome.to))

\* An object that is returned went through every version between the message's and
\* its own, once, in order: no Decorate is skipped or repeated.
ChainIsHonest ==
    (outcome.op # "none" /\ outcome.ret = OK) =>
        /\ outcome.path[1] = outcome.msg
        /\ Last(outcome.path) = outcome.to
        /\ IsInjective(outcome.path)
        /\ \A i \in 1..(Len(outcome.path) - 1) : outcome.path[i + 1] = ProgenyOf[outcome.path[i]]

Recognised(m) == Known(m) /\ VersionInfo(m) = m

\* No registration takes away what could be read.
ReadableStays ==
    [][ registered' # registered =>
          \A m \in registered : Recognised(m) =>
             /\ Recognised(m)'
             /\ \A to \in Becomes(m) : Readable(m, to)' ]_registry

\* A message that was filed for a class can be read as that class whenever Read
\* comes for it: Read does not lose the Buffer it took (tssd.cc:353).
FiledIsReadable ==
    /\ \A c \in Class : \A m \in results[c] : m = c /\ c \in registered /\ Recognised(m)
    /\ outcome.op = "Read" => outcome.ret \in {OK, INSUFFICIENT}

\* decorate ends, if Progeny has no cycle.
DecorateEnds == task # Idle ~> task = Idle
=============================================================================
