# tssdcc: specifications, model checking and proofs

tssdcc marshals C++ objects by reflection into TSSD messages, cuts a message
into fragments, sends them through a `Writer`, and on the other side finds the
fragments in a byte stream, checks them, puts messages together, and reads them
into objects, migrating old versions of a class to newer ones. This directory
holds TLA+ models of those parts, the TLC runs that check them, and proofs about
the write side (where each byte of a message is, and what sealed fragments look like),
the receive side (the search for MAGIC, the parser, Read's loop, Buffers and the
reassembly of messages), the registry, and the parsing of times. Source lines below
are relative to `src/tssd/`.

## The system

| part | source | state it keeps | operations |
|---|---|---|---|
| Buffer, write side | `src/buffer.cc`, `include/buffer.h` | `fragments_`, `heads_`, `mtu_`, `size_`, `windex_`/`woffset_`, `checksum_len_` | Prepare, Append, AppendSize, Ftell/UpdateSize, Finish, Split, Merge, Clear |
| Buffer, fragment store | same | `fragments_` by id, `schema_`, `size_` | Push, Wanted, Fragments |
| Buffer, read side | same | `index_`/`offset_`, `size_` | Dump, DumpSize2/4, PeekByte, Rewind; Split and Merge of what was received |
| RBuffer, parser | `src/tssd.cc`, `include/tssd.h` | the cached bytes, the offsets of the fragment under way | Extract(data), Fragment, reset |
| RBuffer, reassembly | same | `results_`, `unregistered_`: Buffers by class and TID | pushFragment, Buffer() |
| RBuffer, transport | same | nothing | Extract(Reader), Read, Write |
| TypeInfo | `include/typeinfo.h`, `src/typeinfo.cc` | a tree built once per class | save, dump, copy, equal of thirteen operators; parse, MakeTypes |
| Manager | `include/flat.h`, `src/flat.cc` | `families`: versions by family, version by hash of Types | Register, RegisterCurrent, MarshalTo, UnmarshalTo, Unmarshal, decorate |
| RFC 3339 time | `include/time_rfc3339.h` | each thread's offset from UTC, asked of the system once | format, formatMilli/Macro/Nano; parse, parseMilli/Macro/Nano |
| MD5, transfer example | `src/md5.cc`, `../examples/transfer` | | hash; sockets |

How they interact. `RBuffer::Write` calls `Manager::MarshalTo`, which calls
`Buffer::Prepare`, the savers and `Buffer::Finish`, then sends the fragments in
order. `RBuffer::Read` calls `Extract(Reader)`, which reads bytes, feeds them to
`Extract(data)`, takes fragments out with `Fragment()` and files them with
`pushFragment`, which asks the Manager for the version the Types hash belongs to
and pushes the fragment into the Buffer of its TID. When a Buffer has all its
fragments Read takes it out and calls `Manager::UnmarshalTo`. The registry is
shared by all of them. The savers and readers of times call the time conversions,
which keep their offset `thread_local`. That is all the library knows of threads,
and it has no locks: the interleavings that matter are those of fragments,
messages, registrations and chunks of the stream, of the caller's calls, and of
what the peer writes while Read waits.

What is hard here: an order of fragments nobody tested, cuts of the stream at
any byte, recovery after a damaged fragment without losing the next one, sizes
that are patched after the fact across fragment boundaries, nodes and
destinations that are used again with their old content, 16-bit ids and sizes,
a registry that changes while messages are under way, a Reader that blocks, and a
clock offset that outlives its season. `PROJECT.json` lists
these hazards, each at its line, with the properties that would catch it. Some have
none, and a note that says why: the properties leave out classes with equal layouts,
equal TIDs, a cyclic Progeny, messages too long for their ids and negative lengths, or
the code promises nothing that could be stated.

What makes each part correct:

* write side: the payloads of the fragments, put together, are what was saved;
  every fragment can be parsed by the reader; checksums cover what is sent;
* fragment store: the answer 0 means the whole message, an answer n asks for
  something that is missing, and what is read, in pieces, while fragments arrive,
  rewound, split and merged, is the message in order;
* parser: the cache is exactly the tail of the stream that is still needed; all
  sound fragments come out, in order, and nothing else;
* reassembly: whole messages come out, once, whatever the order;
* Reader loop: Read returns a whole message or an error, keeps what it cached for
  later, and waits for the peer only while its message is not there;
* TypeInfo: what is read is what was saved, or an error, and a refused message
  leaves the destination alone;
* Manager: what can be read stays readable, a message is migrated exactly when
  there is a chain of registered versions, and never half way;
* times: a text is accepted exactly when it names a time of the calendar that can be
  counted, and is read as that time; what is written is read back.

## The modules

| module | models | how it corresponds |
|---|---|---|
| `BufferWrite` | write side, `Manager::MarshalTo` | one action per leaf, container start and end, Finish, Split, Merge, Clear; a byte is its role and index, so misplaced bytes are seen |
| `BufferWriteProof` | | theorems about `BufferWrite` |
| `FragmentBuffer` | Push, Wanted as operators on a Buffer record; the key of a Buffer (`FiledUnder`) | used by `OwnBuffer`, `Reassembly` and `RBufferReader` |
| `OwnBuffer` | an application with a Buffer of its own | actions PushOne, Clear, Dump, Rewind, Split, Merge; Stumble is a use of a null fragment |
| `OwnBufferProof` | | theorems about `OwnBuffer` |
| `Reassembly` | pushFragment, `results_`, `unregistered_`, `Buffer()` | actions Receive/Lose (transport, external), PushKnown, PushUnknown, Register, Take |
| `Delivery` | abstract specification of reassembly | messages sent and handed out: each whole, once unless it is repeated, or lost |
| `ReassemblyProof` | | theorems about `Reassembly` |
| `RBuffer` | detectMagic, parseHeads, parsePayload, parseChecksum, Validate, Fragment | the four steps of Extract as steps of one operation; the stream is a sequence of tokens |
| `RBufferProof` | | lemmas the other proofs share: Push and Wanted, the parser's invariant and what each step keeps |
| `RBufferFeed` | a caller that feeds chunks to Extract(data) | actions Extract, Loop, Fetch |
| `RBufferFeedProof` | | theorems about `RBufferFeed` |
| `RBufferReader` | Extract(Reader) and Read, composing `RBuffer` and `FragmentBuffer`; the loop of Write as the peer | one action per part of the loop, its exits as in the code; PeerWrite sends the next fragment or part of it, PeerClose ends the stream |
| `RBufferReaderProof` | | theorems about `RBufferReader` |
| `Registry` | Manager, with pushFragment and Read as its users | Register, RegisterCurrent, UnmarshalTo, Unmarshal, decorate one version at a time |
| `RegistryProof` | | theorems about `Registry` |
| `Codec` | save, dump, copy, equal, MakeTypes, and Dump/PeekByte/DumpSize | recursive operators on shapes and values; the payload is the very bytes of the format |
| `Unmarshal` | a Buffer of two fragments and an object read from it | MarshalTo, Push, Rewind, UnmarshalTo, Copy |
| `Time` | time_rfc3339.h and its use by timeOper | Save by any thread at any width, Receive of another program's text, Read, Clear |
| `TimeProof` | | theorems about `Time` |

`MC*` modules give the constants their values for TLC.

Modelling choices a reader should know:

* In `RBuffer` a token of the stream is one byte of MAGIC or payload, or stands
  for a group of bytes of a header. Cuts between MAGIC's bytes, which
  detectMagic handles in six ways, are distinguished; a cut in the middle of a
  group behaves as one in front of it: the step asks for more.
* The checksum is injective: a hash carries the tokens it was computed over.
* `Codec` narrows sizea from 16 bits to `SizeaMod` values, so that a container can
  overflow it; sizet is exact below 65536.
* A head states lengths that are natural numbers. The code's are `std::int16_t`
  (tssd.cc:127-134), so that a damaged head could state a negative one.
* In `Codec` a pointer is `<<>>` or `<<value>>`. Sharing is modelled where the code
  causes it: the elements of a container are read and copied through one node, and a
  pointer that is an element, or is in one, keeps what the node points to. It shares
  with its neighbours place by place of objects and arrays, up to the next null
  (`Aliased`).
* A time is one character in `Codec`: odd instants are those whose text the reader
  refuses. `Time` has the texts, as records of the values of their fields; `Junk` is
  a field with a character that is no digit. What is read is a timespec, rounded towards
  0: a fraction before 1970 leaves a negative tv_nsec (`timepointToTimespec`).
* An `unordered_map` is iterated in another order than a map (`Keys`): with the two
  keys of the run there is one other order.
* Arrays have no layout, except arrays of arrays of numbers, where the stride is the
  row's number of elements and not its bytes: `RowAt` is what a row reads from
  memory, `Overwritten` what reading row after row leaves there. Numbers are one
  or two bytes in the run, so that wrong and right strides both occur.
* The byte that PeekByte reads past the end of a fragment is the tag of the
  checksum array, which follows the payload in memory in every fragment made
  after Prepare or taken from a stream. A Buffer that was saved to without
  Prepare has nothing there; that case is not in the run.
* A null fragment (a hole that Fragments(), Rewind, Split or Merge meets) is
  undefined behaviour: `OwnBuffer` records a fault and does not go on.

## The runs

Passing runs. "States" are the distinct states of the complete search.

* `BufferWrite` (54 thousand states). Fragments of 8 or 9 bytes, of which a framed
  message has 4 or 5 for its payload; a header that does not fit; messages of up
  to `MaxSaved` = 11 bytes in up to four fragments, saved in chunks of up to 3,
  containers nested two deep, sizet of 2 bytes, Split to 5, 7 or 11 bytes. That
  is enough for a size field to start at, straddle and end at a fragment boundary,
  for a patched field to lie two fragments back, and for Split and Merge to move
  every boundary. `StreamInPlace` says where every byte is, `SizeIsSaved` what the
  sizes are, `SealedIsParsable` that sealed and re-cut fragments are ones the parser
  accepts, with checksums over what is sent, and `RecutKeepsPayload` that Split and
  Merge keep the message. Excepted are size fields that stray over a header, the
  finding of `BufferWrite_headers`, and the lengths that Split leaves (below).
* `Reassembly` (26 thousand). Three messages of two classes, up to three fragments, one
  class registered late, in any order, any fragment lost and those of one
  message received again at any time. `DeliveredWhole`, `AtMostOnce` (for what is
  not repeated: the receiver keeps no memory of what it delivered),
  `WantedIsMissing`, the liveness `ComesOut`, and `ImplementsDelivery`, a refinement.
* `OwnBuffer` (3,123). Four messages that share Types or TIDs in all combinations,
  one with more fragments than an id counts (`Int16Max` = 3), pushed in any order and
  again into one Buffer that is read by 1 to 3 bytes, rewound, split, merged and
  reused. `ZeroIsWhole`, `ReadsMessage`, `CompleteNeverFaults`. Messages are at most
  `MaxBytes` = 8 bytes when they are cut again, into pieces of 2 or 5 bytes, or not
  at all for an mtu without room.
* `RBufferFeed` (2,896). Ten streams, clean and with noise, false starts, damaged and
  truncated fragments, cut into chunks in every way. `CacheIsTail`, `NoMagicCached`,
  `NothingInvented`, and the liveness `AllFetched` for clean streams.
* `RBufferReader` (74 thousand). Three calls of Read or Buffer() over a Reader that returns
  any number of bytes; five streams with two messages interleaved, one of a class
  that is not registered, noise, and a fragment that fails its checksum, written a
  fragment at a time by a peer that may break off in one, close, or do neither.
  `CacheIsTail`, `KeptInOrder`, `WaitsForMore` (Read blocks only while the message is
  not all there), `ImplementsDelivery` (the loop, the parser and the Buffers together
  refine the specification that `Reassembly` refines), and the liveness
  `ReturnsOrStuck`.
* `Registry` (28 thousand). Three versions in one family and two in another whose
  newer version refuses to decorate, registered in every order and again, with
  messages of the oldest version arriving, being read and migrated at any time.
  `MigratesWhenItCan`, `ChainIsHonest`, `FiledIsReadable`, `ReadableStays`, `DecorateEnds`.
* `Unmarshal` (446 thousand). Twenty-six classes with numbers, strings, times, nested objects,
  arrays, arrays of arrays, vectors, lists, sets, maps, unordered_maps and
  pointers, pointers in containers and in the objects and arrays in them; every value
  (of arrays of arrays and of pointers, some) with numbers 1 and 2, strings of up to two
  characters and containers of up to two elements, vectors long enough to overflow
  sizea, and vectors of three pointers of which the middle one is null; the payload cut
  after every byte, the second fragment late or not; two
  reads, rewound or not; destinations unused and used. `ReadsBack` (through the
  stream and through Copy), `HonestAcrossClasses` (all pairs of classes with equal
  Types), `RefusedUntouched` (with the exception below).
* `Time` (64 thousand). Two threads in seven zones: UTC, east and west of it, with half
  and three quarters of an hour, with and without summer time; twelve instants at
  midnights, leap days, the ends of centuries and of the 64-bit range, and before
  1970; four widths of the fraction; and the texts of other programs at the ends of
  every field and around 1970. `ReadsBack` (written as the code means it, a time is read
  as it was), `NeverFarOff` (how wrong it can be otherwise), `ReadIsCalendar` (of the
  times that 64 bits of nanoseconds hold, with the exception below).

Two elements are the least that can share a node, two fragments the least that
have a boundary, two threads the least that cache different offsets; a third of
each repeats the same step.

Runs that end in a violation; each is something the repository says and the code
does not do. `PROJECT.json` quotes both sides.

* `BufferWrite_headers`: a size field that crosses the end of a fragment is patched
  over the header of the next one.
* `RBufferFeed_more`: parseChecksum takes `more` by value, so a chunk that ends
  in the checksum asks for nothing. Under a Reader, Extract then spins: it is the
  exception `StuckAtChecksum` in `ReturnsOrStuck`.
* `Unmarshal_strings`: an empty string is read as what its destination held before,
  which in a container is the element before it.
* `Time_zone`: the minutes of an offset are written as seconds, cut to two digits,
  and an offset west of UTC as characters that are no digits: such a time is read
  as another, or refused.

Other behaviour the models show and no line of the repository contradicts
clearly enough to be counted as a finding. The first items are exceptions that
properties name; the properties are violated without them:

* `NoAliases`, `NoOverflow`, `NoNullAtCut`, `NoOverlap` and `NoRefused` of `Unmarshal`.
  Elements of a container that are or contain pointers share objects, up to the next
  null, and show the last of them, in what is read and in what is copied; a vector of
  2^15 elements is refused and one of 2^16 + 1 is read as one element, with OK; a
  null pointer whose tag begins a fragment makes the message unreadable; the rows of
  an array of arrays of wider numbers overlap, in the object saved or in the one read; a
  time west of UTC is refused.
* `Overtaken`, `Shelved` and `BrokenOff` of `RBufferReader`: Read waits although its
  message is there, because a fragment of another message followed in the same
  chunk (the loop goes on after it has what it wants), because the message was
  cached behind a fragment that failed its checksum (the next Read reads before it
  looks), or because it follows one that broke off (its length is believed).
* After Split every fragment but the last states the payload length of the old mtu:
  `SealedIsParsable` asks of those only that what is there is legible.
* `RefusedUntouched` of `Unmarshal` excepts a Buffer that was refused as misformed and is
  read again without Rewind: the second read starts inside the message, where an inner
  object may pass for the whole.
* `Plain` of `Time`: an offset of another season, a fraction before 1970, and a short
  fraction with leading zeros are read as another time.
* A fragment pushed into a Buffer after Split or Merge replaces one that was cut
  differently; `OwnBuffer` calls the Buffer mixed and does not follow it.
* `ReadIsCalendar` of `Time` excepts times that 64 bits of nanoseconds do not hold, as in the
  year 0. The comment at time_rfc3339.h:187 says that what is out of range throws; it
  is accepted, and as the overflow is undefined, `Time` reads it as any instant.
* The timespec of a fraction before 1970 has a negative tv_nsec, which POSIX calls
  invalid. The library reads it back; other users of the object may not.
* A set of numbers has the tag of a merged array without the tag of its elements
  behind it, so that a vector cannot read it although the Types are equal. The
  run shows that this always ends in an error, never in wrong content.
* Two registered classes with the same member types share a hash, and the later
  registration takes the messages of both; `Registry` therefore gives every class
  members of its own.
* Read for the newest version does not find a message of an older one, which
  is filed under its own version; the caller has to take the Buffer and call
  UnmarshalTo, or Unmarshal.

## Fairness

* `Reassembly`: weak fairness of PushKnown for each fragment and of Take for each
  message. The transport behind a Reader is a stream: what it does not lose
  arrives while the application keeps reading, and an application that waits for
  messages keeps asking for those that are complete. There is none for Lose:
  `ComesOut` says that a message comes out or one of its fragments was lost.
* `RBufferFeed`: weak fairness of Loop, Fetch and Extract: code that is running goes
  on, and a caller that has more of the stream feeds it.
* `RBufferReader`: weak fairness of the call that is under way, and of the peer's
  next write: a message that was begun is sent on. None for PeerClose, and none that
  makes the application call: `ReturnsOrStuck` says that a call returns even over a
  connection that nobody closes, or waits with reason.
* `Registry`: weak fairness of DecorateStep: the loop in decorate runs on.
* `BufferWrite`, `OwnBuffer`, `Unmarshal` and `Time` are checked for safety only: each
  of their operations is a call that returns.

`CHECK_DEADLOCK FALSE` is set where a behaviour may end: nothing is left to send,
push or read, or a bound on calls is reached.

## What is proved

Each theorem is about the specification itself, for every value of its constants that
the module's `ASSUME` admits. Theorems that state a property of a run have its name in
brackets.

### The write side

`BufferWriteProof`, for every mtu, header, checksum, nesting of containers and message, and
every sequence of appends, Split and Merge:

* `Invariance`: the inductive invariant `IInv`.
* `TypeCorrect` [`TypeOK`].
* `StreamIsInPlace` [`StreamInPlace`]: every byte of the message is where it belongs, every
  patched size field says its length.
* `SizeIsKept` [`SizeIsSaved`]: size_ is the length of the message.
* `SealedCanBeParsed` [`SealedIsParsable`]: ids, lengths and checksums of what was sealed.
* `PayloadIsKept` [`RecutKeepsPayload`, an action property].

The one assumption is that of the module: lengths are positive, a header holds the 4 bytes
of a size, and a checksum fits the least mtu (the code has 8 bytes and a hash, against
256). `SealedIsParsable` and the ids in `RecutKeepsPayload` speak of Buffers whose number of
fragments and lengths fit a `std::int16_t` (`Countable`): beyond, ids wrap, and a
Buffer prepared for an mtu above 32767 states lengths that wrapped.

The argument. Before Finish a Buffer is `Shaped`: its fragments are numbered and full
up to the last, where the write position is, so that byte k of the message is
byte (k - 1) % c of fragment (k - 1) \div c behind the headers, c being what a fragment
takes (`PlaceIs`, `PlaceOfNext`). That is not inductive, because UpdateSize goes back:
`Placed` adds that every open frame names the place of a size field that still has
the reserved zeros, that frames do not overlap, and which bytes of a header or a field have
been overwritten by a field that crossed into the next fragment (`StrayIn`, `HeadIsWhole`).
One lemma follows a patch byte by byte (`PatchNext`): a byte is written in its place
(`PatchInPlace`), or it strayed and goes over the header of the next fragment (`PatchAstray`).
Append, UpdateSize and the cutting of a payload are folds; a fold over a sequence is
unfolded one element at a time (`PutAllUnfolds`, `FlattenUnfolds`) and followed by induction
over its length, done on the set of lengths for which the claim holds, with least numbers
(`Throughout`), as no operator can be passed to the library's theorem.
A sealed Buffer is `Sealed(w)` for a Buffer w that was placed, and a Buffer cut again is
`Sealed(w)` for one that the payload was appended to anew; that w is not in the state,
and the invariant says that there is one. This part of `IInv` is therefore not
evaluated by TLC; what follows from it is (`SealedIsParsable`, `SizeIsSaved`).

### The Buffer and the reassembly

`ReassemblyProof`, for every set of messages, classes and TIDs, any number of fragments
and any width of the ids:

* `Invariance`: the inductive invariant `IInv`.
* `TypeCorrect` [`TypeOK`].
* `DeliveryIsWhole` [`DeliveredWhole`], repetitions included.
* `DeliveredAtMostOnce` [`AtMostOnce`]: what is not repeated comes out once, whatever
  else is.
* `WantsTheMissing` [`WantedIsMissing`]: Wanted() is 0 exactly when all is there, and else
  names the first fragment that is missing.
* `Implements` [`ImplementsDelivery`], if all messages are good.

Good means: the ids of the message fit the id's width, and no other message has its
Types and TID. Both are needed: a wrapped id of a middle fragment is
negative and counts as the last one, and TIDs come from an unseeded `std::rand`.

The argument. `DeliveredWhole` is not inductive: that Take hands out the
right fragments depends on what the Buffers hold. `IInv` adds that each Buffer
is filed under the key of every fragment in it and holds a fragment at the index
of its id (`FiledUnder`); then a Buffer that Wanted calls complete holds, for a good
message, exactly fragments 1 to n of it. For at-most-once, `OnePlace` adds that a fragment
that is not repeated is in one place only, the network, a Buffer, or a message
delivered; a second delivery would need a second copy of the first fragment.
For `WantedIsMissing` the first gap exists by the least-number principle, and a
Buffer without one holds as many fragments as the message has, by the cardinality
of finite sets. `Delivery` is implemented by taking the delivered messages for its
state.

`OwnBufferProof`, for every set of messages, every order of their fragments, and Dump,
Rewind, Split, Merge, Clear and strange fragments in between:

* `Invariance`: the inductive invariant `IInv`.
* `TypeCorrect` [`TypeOK`].
* `ZeroMeansWhole` [`ZeroIsWhole`]: when Push answers 0 for a good message, the Buffer
  holds it whole.
* `ReadsInOrder` [`ReadsMessage`]: what is read is the message in order, size_ is what is left
  of what is held, and the payload of a message that is all there is the message.
* `NeverFaults` [`CompleteNeverFaults`]: after the answer 0 no operation meets a hole.

The argument. Split leaves fragments without ids, so there are three parts. `Typed` holds
always. `Received` holds until the first cut: the Buffer takes its key from the
first fragment, even from one it then rejects, so that either nothing was taken in
and it is empty, or it is filed under the key of all that was. `Kept` holds
until a fragment is pushed after a cut, and says for every good message that the
fragments may belong to (`Reads`) that there are n pieces of c bytes, the last of e, such that the
fragment at index i holds the bytes from i * c on (`Laid`), the read position
index * c + offset is the number of bytes read, and size_ is what is held less that
(`Progress`). Before a cut n, c and e are those of the sender, with holes
where nothing arrived; a cut chooses them anew (`Shape`). With that,
Dump advances byte by byte (`ReadByteReads`) across fragment ends; without holes the payload is
a prefix of the message (`ContentsLaid`); and what Split cuts is laid out again, the last
piece being what the division leaves (`PieceShape`). A fault comes with a hole
only, and a complete or cut Buffer has none. Dump is a recursive function, FlattenSeq a fold:
both are unfolded one step at a time (`ReadingUnfolds`, `FlattenUnfolds`) and followed
by induction over the numbers for which the claim holds (`UpTheNumbers`).

### The parser

`RBufferProof` is about detectMagic and the steps of Extract for any MAGIC (one that
overlaps itself included) and any tokens. `DetectedSearches`: the six cases of detectMagic,
which look at the old bytes, the seam and the new bytes in turn and move what they keep
to the front, leave what one search of old and new bytes joined leaves. The other lemmas
say what each step keeps: `ParserInv` is the order of the steps (which offset is known
when, and that it points at what the step before it found), `StepKeeps` that the
cache stays the end of the stream and that nothing which could be the start of a MAGIC
falls off it, `IntactInStream` that a fragment which is sound in the cache is sound in the
stream. They make no assumption about who calls, so that both compositions use them.

`RBufferFeedProof`, for every stream, with noise, false starts and damage, and every way
to cut it into chunks:

* `Invariance`: the inductive invariant.
* `TypeCorrect` [`TypeOK`].
* `CacheIsAlwaysTail` [`CacheIsTail`].
* `OnlyAStartIsCached` [`NoMagicCached`]: while no MAGIC is known the cache holds exactly
  what could be the start of one, back to the last fragment that was cut out.
* `NothingIsInvented` [`NothingInvented`]: what is fetched stands undamaged in the stream,
  in that order, none of it twice.

The stream is assumed to consist of tokens whose lengths are numbers, and the undamaged
fragments in it to be among those sent, in the order they stand there. The second is no
restriction on the parser: `IntactAt` asks of a place in the stream only what a peer that
computes the checksum gives, and a place that passes is a fragment somebody sent. `cut`
is a history variable; the code does not have it, and without it one could not say how far
back the cache must reach.

`NothingInvented` is not inductive: the invariant places every fetched fragment in
the stream and says that all those places are in front of the cache, so that the
next one, at the front of the cache, comes after them.

`RBufferReaderProof`, for every stream, every chunk the Reader returns and every moment the
peer writes, breaks off or closes:

* `Invariance`: the invariants `IInv` and `OnePlace`.
* `TypeCorrect` [`TypeOK`].
* `CacheIsAlwaysTail` [`CacheIsTail`]: no byte is dropped or fed twice.
* `Implements` [`ImplementsDelivery`], if all messages are good: the loop, the parser and
  the Buffers together deliver whole messages that were written, each once.

The loop keeps its chunk in `bs`, and goes round without reading when `more` is 0. That
this feeds nothing twice needs an invariant of its own (`Control`): where nothing is asked
of the Reader, `bs` is empty, or the call just returned a fragment or a checksum error,
after which the loop clears it; this in turn rests on a lemma about every step of
the parser, that none brings `more` down to 0 unless it returns (`StepAsks`). The chunk
counts as part of what is held while it is about to be fed. `OnePlace` is that of
`Reassembly`, with the wire replaced by the stream: a fragment that is in a Buffer or was
handed out stands in front of what is held, and the one that was just found stands at the
front of it, so it is nowhere yet. The assumption is that what stands in the stream
undamaged are fragments of messages, none of them twice.

### The registry

`RegistryProof`, for all classes, families, versions and orders of registration:

* `Invariance`, and `TypeCorrect` [`TypeOK`]: families, the current version and the hashes
  name registered classes.
* `ChainsAreHonest` [`ChainIsHonest`], `MigratesExactly` [`MigratesWhenItCan`], `FiledIsRead`
  [`FiledIsReadable`] and `NothingUnlearned` [`ReadableStays`, an action property], if
  `LayoutsDiffer`: no two classes have the same member types. Without it they are false:
  the hash is that of the types alone, and a later registration takes over the
  messages of an earlier class.

The invariant follows the loop of decorate: the path it has gone is a chain of registered
versions of one family, each the Progeny of the one before, and has not met the target yet
(`UnderWay`); when the loop has failed, the target is in no chain (`Returned`). What a class
can become is defined without recursion, as what is in every set of versions that holds the
class and is closed under steps (`Becomes`), and the two are joined by induction along
the path, done with least numbers. Progeny may be cyclic: that the path of an
object that is returned still has no version twice (`WayIsInjective`) follows because
behind one that came again, the end would have to come again.

### Times

`TimeProof`, for every set of zones, instants, threads and texts:

* `ForeignTexts`: a text that did not come from this library is one of `Texts`.
* `ReadsTheCalendar` [`ReadIsCalendar`, an action property]: a text that names a time of the
  Gregorian calendar is accepted and read as that time, before 1970 too, if 64 bits of
  nanoseconds hold it; one that names none is refused and the object is left alone.
* `TypeCorrect` [`TypeOK`]: what is read is a timespec whose seconds and nanoseconds have
  one sign, out of range too, and the offsets that the threads cached are the zone's.
* `ReadsItBack` [`ReadsBack`, an action property]: a time that is written as the code means
  it is accepted and read as it was, up to the digits that were asked for.
* `NeverFarFromIt` [`NeverFarOff`, an action property], if the zones have offsets of whole
  quarters of an hour (`QuarterHours`; all zones of today have): whatever is accepted
  is off by the season's shift, at most 18 minutes, and the second of the rounding. Other
  minutes, as in the local mean times of old, can lose more.

The assumptions are those of the module: an offset is less than a day, a text's fraction is
no longer than it says, and the times written are those that 64 bits of nanoseconds hold.

The argument about the texts of others: the table of the months' lengths and the calendar's month starts agree
(`MonthsAgree`), so the same days are accepted; and days-from-civil, which counts
in eras of 400 years that begin in March, gives the day that counting years from
1970 gives (`CalendarsAgree`), month by month, with the leap days of the year before
moved across the divisions by 4, 100 and 400.

That of the times written here: the message is what formatInternal made of an instant,
with an offset that the zone has or had (`Ours`, inductive with `TypeOK`). The calendar's
search finds a year and a month for every day in reach of 64 bits (`YearIs`, `MonthIs`),
and their text is read as that day (`DateIsRead`); a day of local time splits into hours,
minutes and seconds and comes together again (`DateIsWritten`). How many digits a number
loses in its field is the least count that makes it fit (`FirstDigits`, `NoMoreDigits`),
which gives the fraction (`FractionIsWritten`) and the offset: whole hours survive
(`HoursAreWritten`), quarters are refused or read as 0, 18 or 27 minutes (`QuartersAreNear`).
What is left is one sum of seconds (`ReadOfWritten`). That the timespec adds up to the
time it came from, whatever the sign, is the lemma `TimespecIs`.

### What is only model-checked

* Liveness (`ComesOut`, `AllFetched`, `ReturnsOrStuck`, `DecorateEnds`): it rests on fairness
  and ENABLED, which the prover does not handle.
* `KeptInOrder` and `WaitsForMore` of `RBufferReader`: that the parser finds every
  fragment is true of some streams only (a false start can swallow one), and which ones
  the run's streams show.
* `Codec` and `Unmarshal`, whose operators are recursive over shapes and values.

## Not modelled

* The reflection itself (`parse<T>`, `Create`), which runs in the compiler.
* Negative array lengths in a damaged head.
* Arrays of arrays of anything but numbers: their rows overlap objects, and what
  that does depends on the layout of the classes.
* The error Write returns for a Writer that returns 0. Short and broken writes are
  the peer of `RBufferReader`.
* The transfer example: sockets around Read and Write, over a `types.h` that the
  repository does not have. `RBufferReader` models what it gives to Read.
* MD5 (a third party's, taken to be injective), printing, building, and the getters
  of time_rfc3339.h that nothing uses.

## Plan

1. A composition from Write to Read: fragments sealed by `BufferWrite` as the stream
   of `RBuffer`, so that a receiver sees stray size fields and stale lengths.
2. Runs with other bounds where a larger instance shows more: three fragments in
   `Unmarshal`, longer streams in `RBufferReader`.
