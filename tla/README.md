# Verification of protobuf3

TLA+ models of `github.com/mistsys/protobuf3` (`src/protobuf3`), a Go package that encodes and
decodes structs as protobuf messages by reflection. The modules model the code as it is, TLC
checks them on small instances, and TLAPS proves what is said under [Proofs](#proofs).

`PROJECT.json` lists the components, the runs, for every property a mutation of the code that
breaks it, the source lines of every definition (`map`), the findings and the hazards.

## Inventory

| Component | State it keeps | Operations | Modules |
|---|---|---|---|
| Properties cache (`properties.go`) | `propertiesMap`, `propertiesMu`, descriptions shared by all goroutines | `GetProperties`, `getPropertiesLocked` | `PropertiesCache`, `PropertiesOracle`, `PropertiesRefinement` |
| Wire primitives (`decode.go`, `encode.go`) | the read position of a Buffer | `DecodeVarint`, `SkipVarint`, `SkipFixed`, `DecodeRawBytes`, `skip`; fixed-size and zigzag numbers; `SizeVarint`, `EncodeVarint` | `Wire`, `Numbers`, reference `MessageGrammar` |
| Scanner (`lib.go`) | `Buffer.buf`, `index` | `Next`, `Find`, `FindBytes`, `count_ahead`, `Rewind` | `Scanner`, `ScannerRefinement`, abstract `MessageItems` |
| Unmarshal (`decode.go`) | `buf`, `index`, `recursion_depth`, `array_indexes`; the remembered search; the memory decoded into | `Unmarshal`, `unmarshal_struct`, `dec_*` | `Decoder`, `Types`, reference `MessageMeaning` |
| Marshal (`encode.go`) | `buf`, `err`, the lengths still to be written | `Buffer.Marshal`, `Reset`, `enc_struct`, `enc_len_thing`, `enc_*` | `Encoder`, `Types`, reference `MessageMeaning` |
| Codec selection (`properties.go`: `Parse`, `init`, `setEncAndDec`, `stypeAsProtobuf`) | `Properties` of a field | which encoder, decoder, key and .proto type a Go type and tag get | `GoTypes`, `Codecs`, `FieldCodecs`, reference `ProtoMeaning` |
| Timestamps and durations (`encode.go`, `decode.go`) | none | `EncodeTimestamp`, `EncodeNSecTimestamp`, `DecodeTimestamp`, `DecodeNSecTimestamp`, `enc_Duration`, `dec_Duration` and the field codecs of `time.Time` and `time.Duration` | `Times`, `FieldCodecs`, reference `ProtoMeaning` |
| .proto generation (`properties.go`) | the types still to be looked at and those found | `AsProtobuf`, `AsProtobufFull2` | `Schema`, `ProtoFiles`, abstract `ProtoFile`, `Dependencies`, `ProtoFilesRefinement`, two runs in `ProtoFilesRuns` |
| Buffer lifecycle and pool (`lib.go`) | `buffer_pool`, `MaxRecursionDepth`, the fields that a Buffer keeps from one use to the next | `newBuffer`, `release`, the global `Marshal` and `Unmarshal` | `BufferPool`, `BufferPoolRefinement`, abstract `Calls` |
| Debug output (`DebugPrint`, `Properties.String`) | none | text for people | left out |
| Compatibility tests, vendored `golang/protobuf` | | third-party and generated code | left out |

How they interact: `Marshal` and `Unmarshal` ask the cache for the description of a type and then
read it without a lock, from any number of goroutines. Scanner, decoder and encoder work on a
`Buffer`, which belongs to one goroutine at a time: a client's own, or one that the global functions
take from the pool and put back. Types that marshal themselves call the package again, with Buffers
of their own. Scanner and decoder go through the wire primitives
and the packed and slice decoders call the scanner's `count_ahead` to size a slice. The field
encoders and decoders are what codec selection put into the description; the .proto generator reads
the type names that it put there, and the type it says a field leads to.

What is hard in this code:

* **The cache** is filled recursively while the entries it fills are already visible to the
  recursion; readers rely on never seeing an unfinished one.
* **The read position** is moved by primitives that each leave it somewhere else when they fail.
  Lengths come from the message and are added to positions, so sums may wrap around.
* **The decoder** decodes a nested message in place: it swaps `o.buf` and `o.index`, and has to put
  them back on every path. It remembers its last search for a field, and array positions by address.
* **Codec selection** fills in encoder, decoder, wire type and .proto name one by one for some seventy
  combinations; a slip shows only in what another implementation reads.
* **Times** are split into seconds and nanoseconds by divisions that round differently.
* **The pool** gives a Buffer to a goroutine that knows nothing of how the last call with it ended.
* **The .proto generator** works off maps whose order Go changes from run to run.
* **The encoder** writes a message behind a guess at the size of its length and moves it when the
  guess was wrong, while messages around it are in the same state. Errors are noted on the side.

What makes each component correct, and where it is stated:

* cache: readers see finished descriptions, one per type, that never change, and they are the ones
  the declarations determine (`CachedComplete`, `OnePointer`, `DescriptionsFinal`, `Safe`); every
  call returns (`EveryCallReturns`);
* scanner: it returns the items of the message, one after the other (`ReadsItems`, a refinement),
  and its loops end on any bytes (`LoopsEnd`);
* decoder: what lands in memory is what the message means (`Decodes`), nothing is read outside the
  message being decoded (`MessagesNest`), and any bytes come to an end (`UnmarshalEnds`);
* encoder: what is written means the value (`Encodes`), so the decoder gives it back; errors from
  any depth reach the caller (`ReportsErrors`);
* codecs: what one codec writes the other reads back (`ComesBack`), and a reader that only has the
  .proto file sees the same value (`DeclaredTypeReads`);
* times: either way to encode and either way to decode give the same time (`StampComesBack`), others
  understand what is written (`StampMeans`), and what they send is understood (`ReceivedMeans`);
* pool: no Buffer has two users (`Exclusive`), nothing is left in one that is put back
  (`PooledAreNew`), and calls are answered as if each were alone (`Implements`, a refinement);
* .proto files: they name nothing that they do not have (`Closed`, maps excepted), have each type that the
  arguments lead to, in order (`Implements`, a refinement), and are the same from run to run
  (`SameAnswer`), unless types share a name or several arguments are in error; the search for types
  ends (`Answers`).

`PROJECT.json` has the hazards one by one, with their lines and the property aimed at each.

## Modules and the code

### Properties cache

`PropertiesCache` is the Go heap (`objs`, a `*StructProperties` is an index), `propertiesMap`,
the RWMutex (`muWriter`, `muReaders`), the activations of `getPropertiesLocked` (`stack`) and where
each goroutine is (`pc`). `RLock`, `Lookup`, `RUnlock`, `AnnounceLock`, `Lock`, `Unlock` are the
double-checked locking of `GetProperties`; an announced writer keeps new readers out, as
`sync.RWMutex` does. Every branch of `getPropertiesLocked` is an action: an entry found
(`EnterCached`) or made (`EnterNew`), each kind of field (`MergeEmbedded`, `ParseReserved`,
`SkipField`, `AppendEntry`, `ResolveType`, `InitField`), each error return, the sort and tag check
at the end (`Finish`, `FinishFails`), and the panic of `NumField` on a type that is no struct,
which leaves the lock held. The sort is not stable, so its result is any permutation in order.

The declarations of the program (`decl`) are an input chosen in `Init`. Field names, Go kinds and
tag syntax are abstracted to whether a field parses and which struct types it leads to.

`PropertiesOracle` is the abstract specification: a call is answered with a description that is a
function of the declarations, in one step, or with an error. `PropertiesRefinement` maps what a
caller can reach from the pointer it was given to the oracle's answer.

### Wire primitives and scanner

`Wire` has the operators of `decode.go` that read at a position. Each returns a value, a new
position and an error, for every byte string. `DecodeVarint` has the three paths of the code:
one byte, the unrolled one and the bounds-checked loop, chosen at the same boundary.
The size of a word and the longest varint are the constants `Word`, `VarintLen` and `LastLimit`
(2^64, 10 and 2 in the code) so that overflow is within reach of short messages. TLC has 32-bit
integers, and the runs use smaller words; the code's constants satisfy the assumptions too
(2^64 is `LastLimit` times the weight of the last of 10 groups of 7 bits).

`Scanner` has one action per turn of the loops of `Find` and `count_ahead` and one for each way
that `Next` returns. `MessageGrammar` defines from the format what an item is, by existence of its
parts and without positions; `MessageItems` is the abstract specification on top of it: each
method's answer in one step; `ScannerRefinement` maps `Scanner` to it. `astray` is a history variable: after an error or a sorted `Find` that
stopped early no promise is made until `Rewind`.

### Decoder

A step decodes one item or starts or ends a nested call. The recursion of the Go code is `stack`,
whose frames keep what the local variables keep: the remembered search (`pidx`, `ptag`, `p`), `obuf` and
`oi` (`olim`, `oindex`), the array slot. `o.buf` of a nested message is a slice of the same memory,
so it is `msg` up to `lim`. `mem` maps addresses to values; an address is an object and an offset,
so that embedded structs and arrays share addresses with their first elements as they do in Go.
`filled` is `array_indexes`.

The kinds of decoders (`p.dec`) stand for the groups of Go functions that differ only in the Go
type they store: `number` for all integer types, bools and floats, `bytes` for strings and byte
slices, and so on; `word` and `signed` say what is left of a number in the field's type. Types that
unmarshal themselves (`custom...`, singly, in slices and arrays, by value and by pointer) may return
an error at any time; so may a `*pb` that does (`UnmarshalSelf`). The zeroing of the struct and
`Rewind` between two calls are actions.

`MessageMeaning` is the reference: which byte strings are messages of a type and what each means,
by recursion on nested messages over the items of the grammar.

### Encoder

A step encodes one field, or starts or ends a nested message. `enc_struct` walks the fields; the
fields that hold messages put them on the frame's `todo` list and each is begun by `Element`
(tag, then `Reserved` bytes for the length) and ended by `MessageDone`, which is the end of
`enc_len_thing`: `WithLength` moves the bytes and writes the length. `Reserved` is {4} in the code;
the run lets every message choose between 1 and 4, so that it meets lengths that turn out shorter, as
long and longer than the room. `ValuesAssumption` says what Go's type system says of values: a number is below what its type
holds, a pointer nil or to a value of its type, a length an `int`. A value does not hold itself, however indirectly
(`Height`): `Marshal` of one that does never returns. Maps are walked in any order. Types that marshal themselves write
their payload or refuse; the first error is kept by `noteError` and the encoding goes on. A pb that
marshals itself is `MarshalSelf`.

`MCTypes` holds the struct types that decoder and encoder share, with a field of every kind.
The same `MessageMeaning` is the reference for both: `Encodes` says that what was written means the
value, `Decodes` that decoding gives what was meant, and together they are the round trip.

### Codec selection, times

`GoTypes` has Go types as reflection shows them: kind, elements, name, and which of the package's
interfaces they implement. `Codecs` is `Properties.init`: `Parse`, and
`setEncAndDec` with an operator for each case of its switch on the kind of the field (`scalarCodec`,
`ptrCodec`, `sliceCodec`, `arrayCodec`, `mapCodec`), the override by `AsProtobuf3` and the key. Its result is a record of the
fields of `Properties`. An encoder is named by its shape and what it encodes:
`<<"slice_packed", "int8">>` is `enc_slice_packed_int8`.

`FieldCodecs` is a struct of one field. `Describe` picks the field and its codec, `Write` encodes a value with
the encoder that was picked, `ReadItem` decodes an item of the message with the decoder that was
picked. `Stamp`, `Receive` and `ReadStamp` are a client's own use of the Buffer's methods for time stamps, with
bytes from here or elsewhere. `Times` has the messages Timestamp and Duration; a `time.Time` is an integer,
its nanoseconds since 1970, an `int64` one within a word.

`ProtoMeaning` is the reference: what a reader sees of a field who has its declaration in a .proto file and
nothing else. It knows protobuf's types and no Go. A field's wire type, packing, sign and width must
agree with the *name* of its type there, which the Go code sets apart from encoder and decoder.

### .proto generation

`Schema` has a program's struct types with their `Properties` by `Codecs`, which of them are refused, and
what the file says of one type (`Declaration`). `ProtoFiles` is `AsProtobufFull2` step by step: `Call` fills
`todo`, `Discover` takes any type from it and adds those of its fields, `Sort` and `Declare` write what was found,
`CannotDeclare` is the panic of `GetProperties` on a type that is no struct. Each `\E` over a set is an
iteration over a Go map or the result of the unstable sort. `ProtoFile` is the abstract specification:
one step answers a call with the file that the types determine (closure, order of names, imports,
first error). It knows neither codecs nor `Properties`: what a type refers to and which types are refused are
constants of it, and `Dependencies` says them of Go types by the documentation's rules (a type that does not speak for itself
is described by its fields). `ProtoFilesRefinement` is the refinement mapping. Text is left out, but for the names of
types.

`ProtoFile` states its exceptions by name, and a run shows each to be a disagreement with a comment. `MayPanic`: a
type whose `AsProtobuf3` gives a name and no definition and that is no struct needs no line of a file, as
`properties.go:77` has it, but the code panics when it gets to one. The panic is allowed and not asked for: code that
went on and wrote the file without such a line would implement `ProtoFile`, too (`proto_discovered`). `Unordered`: types that share a name,
and errors of several arguments, come in some order (`proto_order`). That a file is "consistent from run to run"
(`properties.go:369`) is about two runs: `ProtoFilesRuns` remembers what a call has returned until it has returned
from the same call again.

### Buffers and their pool

`BufferPool` has goroutines that call the global `Marshal` and `Unmarshal`. `heap` is the fields of each
Buffer, `buffer_pool` the `sync.Pool` (it may return any Buffer or a new one, and `Collect` empties it), `stack`
the calls of each goroutine: nested messages share the Buffer of the call below, types that marshal
themselves and durations get their own, and packed numbers a second one for a while (`scratch`). `release` is two
steps, `Clear` and `PutBack`, between which others run. What one goroutine does between two uses of shared state
is split at every call, so that nested calls and errors meet pooled Buffers in any state.
The bytes are abstract: an item is a record of its kind and content. `Calls` is the abstract specification: the
answer of a call is computed by recursion from its arguments, without Buffers and without other callers, and a call, its
return and what the client takes are its only steps. `BufferPoolRefinement` says that `BufferPool` implements it; the
refinement mapping is the identity, as `request` and `reply` are variables of both. Its constants `Lists` and `Size` are the
lists of items that values and messages consist of, and a measure that falls from a list to those within it
(`ListsAssumption`): Go values are finite. The run takes the lists of its values and the number of items in them.

## Runs

`buffer_pool` takes about two minutes, the others about a minute or less; `Symmetry` permutes its goroutines,
which nothing tells apart and no liveness is checked of. Bounds are constants of the
modules.

| Run | Question | Instance |
|---|---|---|
| `cache_oracle` | Does every interleaving of two callers give both what the declarations say? | 2 goroutines, 1 call each, every program of three struct types from a menu of fields (plain, in error, pointing to or embedding another type, reserved, skipped, maps, repeated tags) in which mutually recursive types are in order and no struct embeds one that leads back to it (`InOrder`). Goroutines are symmetric. |
| `cache_live` | Does every call return? | the same with 2 calls each, four programs with recursion, errors and a panic. `CHECK_DEADLOCK FALSE`: after a panic under the lock the others wait for ever. |
| `scanner_items` | Do the scanning methods return the items? | messages of up to three fragments, among them truncated, overlong and wrapping ones; ids 1 and 2; a varint of 5 bytes and words of 30 bits. |
| `decoder_meaning` | Does Unmarshal give the message's meaning, and survive any bytes? | four root types, all pairs of items (and triples for arrays), each also cut short and next to malformed bytes; two calls with rewinding and zeroing in between; `MaxDepth` 3, varints of 3 bytes, words of 16 bits and `uint32`s of 8, so that ids above `uint32`, sign extension and wrapping lengths occur. |
| `field_codecs` | Does a field come back, in Go and by its .proto type? | every numeric kind, `string`, `[]byte`, `[N]byte`, `time.Time` and `time.Duration`, alone, behind a pointer, in a slice and in an array of 2, with each of six wire types; values at both ends of every range; ids around 16 and the end of the key; times around 0, the second, and the ends of an `int64`; received time stamps of up to three parts. `Word` = 65536, `Word32` = 256, `Word16` = 64 and `Word8` = 16 keep the order of the real widths, a second has 100 ns (twice that fits an `int32`, as 2·10^9 does). The zero time is -50 s. |
| `proto_files` | Is the .proto file complete, in order and the same when it is made again, and does the search end? | 17 struct types: recursive, mutually recursive, anonymous, two of one name, refused, with times, marshaling themselves, with definitions and names of their own; each with none, one or two other arguments, and each call made twice, so that any two orders of the maps meet. Of the 2772 calls 859 have types of one name or several errors, and 443 may panic; 1591 have neither. Fairness, see below. |
| `buffer_pool` | Are calls with pooled Buffers independent? | 2 goroutines, 4 Buffers (a goroutine needs at most 2 at once, as no value nests deeper), goroutines symmetric, recursion depths 1 and 2, arrays of 1 element; three values and four messages with packed numbers, nested and failing marshalers, bad items, too deep nesting, durations that fail. |
| `encoder_round_trip` | Does Marshal write what means the value, and report every error? | the same four types and one that nests them in pointers and slices, so that errors come up two messages deep; values with one field or all fields changed from zero; nested messages of 124 to 132 bytes around the step from one to two bytes of length; two calls into one Buffer. |

Two goroutines are enough for the lock protocol, as each step involves at most a writer and a
reader; three types are the smallest program with a cycle and a type outside it. Two items
are enough for what one item leaves behind for the next (position, search, array index, merged
values); arrays of two elements need a third for the overflow. A nesting of three has a message
whose length changes the length of its parent's.

The other runs show disagreements between the code and its own comments or tests; each is a finding
in `PROJECT.json` with the quoted line:

| Run | What TLC finds |
|---|---|
| `cache_errors` | a type whose Reserved tag does not parse (no `delete` after `parseReserved`), and a type that was finished meanwhile with a pointer to it (each error return takes out its own type only), both stay in `propertiesMap`: the next request for either succeeds. The trace ends with both in the map, and each alone violates the property. |
| `codec_slice_of_times` | slices and arrays of times are encoded, and decoded to as many zero times |
| `proto_discovered` | a struct that is only the value of a map is named in the file, and never discovered; a `uint32` whose `AsProtobuf3` gives a name and no definition is discovered, and `AsProtobufFull` panics on it. The trace ends with both, and each alone violates the property. |
| `proto_order` | the same call declares two types of one name in another order in the second run; the errors of several arguments have no order either |

## Fairness

`EveryCallReturns` assumes weak fairness of each goroutine's `GetProperties` steps, and nothing of
`Call`. Go's scheduler is preemptive and a runnable goroutine runs; a goroutine that waits for the mutex
needs no strong fairness because a `sync.RWMutex` with an announced writer admits no more readers,
and between writers the model has at most as many calls as `MaxCalls` allows. The property
excepts the case of a panic inside the lock, which is never released then.
`Answers` assumes weak fairness of the steps of `AsProtobufFull2`: one sequential call that nothing
blocks, so it runs on until it returns; nothing is assumed of the client. That it ends is not trivial, as
`todo` grows while it is worked off.
Scanner, decoder and encoder are sequential and assume no fairness. That they end is stated
as an action property: each step reads on or closes a call (`LoopsEnd`, `UnmarshalEnds`).

## Proofs

`PropertiesCache_proofs` proves for any set of goroutines, types and programs, and any number of
calls:

* `TypeCorrect`: type correctness, in which every pointer is to an allocated object;
* `FinishedStaysFinal`: a finished description in the map is never changed, replaced or removed;
* `ReadersSeeFinished` and `OnePointerPerType`, for programs whose Reserved tags all parse. The
  run `cache_errors` shows why that hypothesis is there.

The inductive invariant is `IInv`: `TypeOK`; who holds the mutex follows from where goroutines are
(`LockInv`); the activations on the stack work on different types, each on the unfinished description that is in
the map (`StackInv`); nothing is on the stack outside the lock (`QuietInv`); the outermost activation
is for the type asked for (`CallInv`). `DescriptionsFinal` needs `StackInv`: a step changes the
description on top of the stack, which is unfinished, so it changes no finished one.
Those on readers and pointers add `CompleteInv` (what is in the map is finished or on the stack) and
`AnswerInv` (what was returned is what is in the map). The steps have few effects on these (`Hit`, `Push`, `Work`,
`Forget`, `Keep`, `Complete`, `Panic`): lemma `Effects` maps the actions to them and the lemmas on these
invariants are by cases on the effects.

* `Refinement`: what `GetProperties` gives any goroutine is what `PropertiesOracle` computes from the
  declarations (`Safe`): the description of the type and of all it leads to, or an error when one of these has one.

Its hypothesis is that the programs are in order (`InOrder`, in `PropertiesRefinement`): what fields lead to are
structs (else `NumField` panics under the lock, see `cache_live`), Reserved fields parse (`cache_errors`), types that lead to
one another have no errors (`CyclesInOrder`, `cache_errors`), and no struct embeds one that leads
back to it (`NoCycleEmbeds`, `properties.go:1608`). `cache_oracle` checks programs that satisfy it. `TypesAssumption` says that a program
has finitely many types; `GraphsAssumption` says how declarations are written down: fields that are skipped or
Reserved lead nowhere, only Reserved and ordinary fields are in error, and the fields of `time.Time` are not listed, as nobody looks at them.

The invariant is `RInv`. To `IInv`, `CompleteInv` and `AnswerInv` it adds what has been built (`BuildInv`) and `GroundedInv`:
a goroutine with an answer finds all that the type leads to finished. The parts of `BuildInv`, and who needs them:

* `DoneInv`: a finished description shows the oracle's leaves, sorted, and the structs it embeds are finished. It comes from `FramesInv`: the
  description an activation works on shows what the fields before the one it is at contribute, and the entry of that
  field, when it is open, has the pointers resolved so far;
* `ChainInv`, `RetInv`: an activation is for a type that the field below is waiting for, and so is what has been returned: the pointer in the
  map, or an error of a type that is not valid;
* `CurrentInv`: pointers are to what is in the map. An error return takes a type out, which would break this, unless
  nothing that stays points to it. That is what the next three are for: objects of activations go up (`RisingInv`),
  what is older than an activation points to nothing newer (`OlderInv`), and what is newer is led to by the activation's type
  (`NewerInv`). What stays and points to the type that is taken out is newer, and so in a cycle with
  it, and types in cycles have no errors;
* `CacheInv`: what is in the map is of the type it is entered for, and `time.Time` is always there.

`GroundedInv` cannot be had during construction, where finished descriptions point to unfinished ones. Outside the
lock all that is in the map is finished (`QuietGrounded`), and goroutines take answers only then.

The rest is about the oracle. Its closures and its leaves are functions by recursion, of which the prover has
only the definition by `CHOOSE`; the proof shows that rounds exist, end, and give the least closed set (`RoundsExist`, `RoundsEnd`, `IsClosure`),
that embedding is as deep as there are types (`LeavesStable`), and that there is one way to number leaves by their tags when
no tag clashes (`OneNumbering`), as the sort is not stable and any ascending order is one of its results. Then what a caller can reach is what
the oracle describes (`ViewIsDescribe`), `Call` is a call of the oracle, `RUnlock` with an answer and `Unlock` are its reply, and all
other steps stutter (`MeantStep`).

`Wire_proofs` has lemmas on the wire primitives for every byte string, varint length and word size: a position that
is returned lies between the one given and the end of the bytes, reading a key moves ahead, a varint is a natural
number. The last needs an induction over the bytes of a varint, done with sets: `LeastNat` and `Downwards` come
from `WellFoundedInduction` and are facts about sets of naturals. They also relate each primitive to the grammar: a primitive
that succeeds has read what `MessageGrammar` says there is, from where it started to where it stopped, with the value that
the grammar gives it (`ItemReads`), and one that fails stands where there is none. The same module has the numbers, which
encoder and fields both write, for words and longest varints of any size:

* `VarintSizes`: `SizeVarint` is the number of bytes that `EncodeVarint` writes (each number below 2^64 has a least power of
  128 above it, and both loops stop there);
* `VarintReadBack`: what `EncodeVarint` writes `DecodeVarint` reads back, on each of its paths and whatever follows;
* `NumberReadBack`: so it is with each encoding of numbers, but for what 32 bits cannot hold of a number (`Encodable`).

`Scanner_proofs` builds on them, for all byte strings shorter than a word (`BuffersAssumption`: a slice's length is an
`int`):

* `TypeCorrect`: no read or slice beyond the buffer;
* `LoopsMoveAhead` (`LoopsEnd`): each turn of a loop moves on or ends it;
* `ItemsStandAlone` (`FullStandsAlone`): what `Next` returns as an item is one when its bytes are
  all there are, so that a caller can keep it and decode it by itself. It rests on lemmas that each
  primitive reads the same from a piece of the bytes that has all that it read, moved by where the piece starts;
* `Refinement` (`ReadsItems`): `Next`, `Find`, `FindBytes` and `count_ahead` return what `MessageItems` promises.

`MessageItems` speaks of the places a chain of items leads to, a set that is defined by rounds; the code reads from one
to the next. The lemmas `PlacesFrom` and `AlikesFrom` say that rounds end and that the places ahead of an item are its
own and those ahead of the next one. The inductive invariant (`OnTheWay`) is `TypeOK` (`Short`); that a call in progress waits
for what it was asked for (`Waiting`); that a search has left out no place that would answer it, as all those ahead
of where it began are ahead of where it stands or belong to other ids (`Searched`); and that `count_ahead` has
counted so many that with those alike that are still ahead they are all (`CountedSoFar`). Each turn either stutters
or answers (`FindPromised`, `EndsHere`).

`Decoder_proofs` proves the decoder's invariants and that it ends, for any struct types in the order of their ids, any
messages shorter than a word (`MessagesAssumption`: a slice's length is an `int`), any `MaxDepth` and number of calls:

* `TypeCorrect`: the read position stays in the bytes of the message being decoded;
* `NestingKept`: buffer and position are put back after nested messages on every path;
* `DepthCorrect`: `recursion_depth` counts the nested calls, and only errors leave it too high;
* `SearchCorrect`: the remembered search finds what a full search finds;
* `CallsEnd`: every step within a call reads on, ends a nested call or fails.

The inductive invariant `IInv` is `TypeOK`, `MessagesNest`, and three parts that the others need. `DepthInv` adds to
`DepthCounts` that packed decoders call nobody and that under a map entry there is room for another message: `dec_new_map`
compares the depth once, for the entry and for the message that may be its value. `SearchInv` adds to `SearchFinds` that all fields before
`pidx` have smaller ids than the last one searched for, which is why a search may start there. `CallersInv` says that a
call is made for a field and that packed numbers are read only without an error. The field decoders do few things to the
stack and the position (`Reads`, `Calls`, `Starts`, `Ends`, `LastEnds`, `Pops`); `StepEffect` maps every action to one of
them, and `TypeStep`, `NestStep`, `DepthStep`, `SearchStep`, `CallersStep` and `EffectReadsOn` are by cases on these.

`Encoder_proofs` proves for words, longest varints and messages of any size, and any room reserved:

* `LengthPutRight`: whatever room `enc_len_thing` has reserved for a length, it leaves the bytes before, the length and
  the message. The run `encoder_round_trip` has 1 and 4 bytes of room, with lengths that need 1 and 2;

and for any types and values (`ValuesAssumption`):

* `ErrorsAreReported` (`ReportsErrors`): what `Marshal` returns is an error that came up in a value marshaled since `Reset`,
  however deep in it, and none only if there is none;
* `EncoderTypes`: `TypeOK`, the buffer holds bytes and open messages lie in each other, as long as the length of the buffer is
  an `int` (`BufFits`).

Powers of 128 are a function (`Weight`), as the prover has no facts on `^`. The errors of a value are a recursive function
(`Errors`), which exists by induction on `Height` (`ErrorsIs`). The invariant (`ErrorsInv`) says that as long as no error is
noted, the errors of what is left of the value, on all open frames, are those of the whole value (`Noted`): of the messages
still to be begun (`ListErrors`) and of the fields after them (`RestErrors`). What is begun moves from a list to a frame of its
own, what is done had no error (`NothingMet`), and what had one is noted, and was an error of the value (`ErrorMet`). That needs each
encoder to go through all that is in its field, whatever order a map has (`ListsAre`, `ElementsErrors`). For `TypeOK` it adds
where the marks of frames are (`MarksOK`), with `LengthPutRight` for the end of a message and a lemma per encoder that it
writes bytes (`EncodedBytes`).

`BufferPool_proofs` proves for any goroutines, Buffers, values and messages:

* `SpecExclusive`: no Buffer has two users (`Exclusive`);
* `SpecPooledAreNew`: a Buffer in the pool is as a new one (`PooledAreNew`).

The inductive invariant has four parts: Buffers are records and those in the pool are new (`HeapOK`); on the stack of a
goroutine, calls other than messages have Buffers that no call below has (`StackOK`); stacks and pool have no Buffer in common (`Disjoint`);
a Buffer that is about to be put back is as new (`ClearedFirst`). `PooledAreNew` needs the last one, as `release` is two
steps, and that one needs `Exclusive`, as somebody else might write to the Buffer between them. All steps of a goroutine
have one effect on ownership (`StepKeeps`): they take Buffers that nobody has and give some to the pool.

And it proves that `BufferPool` implements `Calls`, with values and messages that are finite lists (`ListsAssumption`):

* `Refinement`: every call is answered as if it were alone and had a new Buffer (`Implements`).

The answers of `Calls` are functions defined by recursion. TLAPS knows nothing of these but their definition by `CHOOSE`, so
the proof first shows that functions as defined exist (`EncodedIs`, `DecodedIs`), by induction on `Size`: those that satisfy
the definition for lists smaller than n exist for all n and agree, as the definition of a list refers only to smaller ones.
The invariant (`Answered`) says that for each call on the stack of a goroutine there is what it comes to (`Follows`): the
call on top to what is left of its fields or items, appended to what it has (`AtTop`: `Finished` for Marshal, `ComesTo` for
Unmarshal); a call below to what it has and what the call above comes to (`Linked`); the first one to the answer that
`Calls` gives (`Asked`). What calls come to is a bound variable of the invariant: it never changes while a goroutine runs, and
nothing in the code computes it. There is a lemma for each action, which says that it goes on with the same
(`...Follows`), and one that the last `PutBack` returns it (`PutBackAnswers`). Marshal needs that joining lists is
associative, Unmarshal that an index of an array counts what this call stored in it, even when a message within
shares the Buffer (`FilledIn`), that a depth is exact until there is an error, and that a Buffer below is only changed
by messages (`Apart`, from `Exclusive`).

* `TypeCorrect`: `TypeOK`, the positions and depths of Buffers, from the same invariant, as only what is left of the
  messages below says where a narrowed Buffer is put back to.

The refinement relies on `MaxRecursionDepth` not being changed during calls, as its comment asks.

`ProtoFiles_proofs` proves for any struct types of which finitely many exist (`StructsAssumption`) and calls with
arguments among their pointers (`CallsAssumption`), and names that can be compared (`RankAssumption`):

* `TypeCorrect`;
* `Refinement`: `AsProtobufFull2` returns a file that the types determine, in whatever order the maps are walked, and panics
  only for a type that `MayPanic` names (`Implements`);
* `Consistent`: two runs of a call give the same answer, but for the calls of `Unordered` (`SameAnswer`).

Both sides are closures. `ProtoFile` has the least set that is closed under what a type refers to, the code a set of
pointers that it works off. The proof first shows that the rounds which define a least set exist and end (`RoundsExist`,
`LeastFixpoint`); that the types refused by the code, found in rounds of their own as `GetProperties` fails for a type
when it fails for one of its fields, are those refused by `Dependencies` (`BrokenFixed`); and that a field that
the code finds an endpoint, by the case of `setEncAndDec` it falls in, is one whose type speaks for itself (`FieldDescribed`).
The invariant says during the search that what has been found is in the closure and what is left to do leads to the rest
of it (`Search`, `Found`), and afterwards that what has been declared is an initial part of the names in order (`Declaring`) and
what has been written are its headers, imports, lines and first error (`Written`). Its last step writes the file of `ProtoFile`; the
others stutter. For two runs it is enough that `ProtoFile` has one file for a call that is not `Unordered`
(`OneFile`): an order of finitely many types by distinct ranks is the only one (`OneOrder`), and one error has one place.
No call panics in one run and not in the other: a call that `MayPanic` names always panics, as its types are all found in
any order (`Given`, `OneAnswer`).

`FieldCodecs_proofs` proves the round trip of a field, for any fields and values (`ValuesAssumption`: the values of a Go
type, with strings and slices that fit in memory), words of any lengths that are multiples of each other
(`FieldCodecsAssumption`), and messages whose length is an `int` (`BufFits`):

* `FieldsComeBack` (`ComesBack`): what `Marshal` writes of a field, `Unmarshal` reads back;
* `StampReadsBack`, `StampsComeBack` (`StampComesBack`): a time whose nanoseconds are an `int64`, written by
  either of two encoders, is the same time for either of two decoders;
* `FieldDescribed`: every field that `GetProperties` accepts has an encoder and a decoder of the same shape that fit its
  type, and the key of its id and wire type;
* `TypeCorrect` (`TypeOK`).

The proof follows the code from its parts up. `setEncAndDec` is a case distinction over some seventy combinations of kind and
shape; `FieldCodec` says what all of them have in common: a shape (single, pointer, slice, array, packed) with a unit (a number, a
string, bytes, a time or a duration) of the kind of the type (`UnitCodec`, `ListCodec`). Then there is, for each unit, that what is
written of it is read back wherever it stands (`NumberBack` and its like, from `NumberReadBack`, and for numbers of
fewer bits `StoredBack`: they are widened with or without their sign and cut off again), and for each shape, that
the value is a sequence of items, each of which turns what the field is before it into what it is after it (`Told`). Packed numbers
are one item, whose block is read in turns of a loop that the prover knows as a function by recursion (`RunExists`, `BlockBack`).
`OnTheWay` is the invariant: what has been decoded is what the items before the index say, and what is left of the message are
the items after it (`ReadSoFar`). In the end no item is left, as each has a key. The exceptions that `ComesBack` makes are needed
where the proof uses them: that a number fits (`Survives`) for `StoredBack`, that packed bools are not of a fixed
size for the length of the block, that times are not in slices for the codec of a unit, and that the key fits for `KeyBack`.
That such a reader takes no more than there is (`ItemEnds`) needs no exception: it holds of any bytes.

Model-checked only: `Decodes`, `Encodes`,
`ItemsSoFar`, `DeclaredTypeReads`, `StampMeans` and `ReceivedMeans`, which compare
with definitions by recursion over data; `EveryCallReturns` and `Answers` (liveness); and `Closed`, which says of the types of the run by
their names what `Refinement` says of any.

## What the code does that a reader might not expect

The models do as the code does; the properties say where they make an exception for one of these.
Besides the runs above:

* **Cache.** Embedding a type that is under construction (in a cycle) copies its list of fields as far as it has
  come, with entries that have no encoder (`properties.go:1608`). The programs of `cache_oracle` do not do so.
  Reserved ids of an embedded type are not taken over.
* **Scanner.** A sorted `Find` that stops early leaves the position between a key and its value
  (`lib.go:262`). `MessageItems` promises nothing from there to the next `Rewind` (`astray`).
* **Decoder.** `Rewind` keeps `array_indexes` (`lib.go:153`), so decoding again into a struct that was zeroed drops the
  elements of arrays; `Decodes` is about calls without such leftovers. An array whose elements have no size shares
  its address, and so its index, with the next field (`decode.go:1473`). The types of the run have none.
* **Encoder.** The elements of a slice of structs that have no size are not written (`encode.go:1191`). A pointer to a
  zero `time.Duration` or to an `Appender` that writes nothing is left out, where other pointers to zero
  values are kept.
* **Numbers.** 64-bit kinds with a 32-bit encoding lose high bits; `int` and `int64` with `fixed32` lose
  their sign. `int` and `uint` are declared with 32 bits. A `[]uint64` is declared `repeated int64`. Fixed-size bools are declared
  `bool`, and a packed block of them has the number of bools as its length. `[N]byte` and `[][]byte`
  accept tags other than `bytes`. Mismatched widths, and unsigned kinds with zigzag, have an empty .proto type.
  A tag from 2^29 on loses bits of its key.
* **Times.** `EncodeNSecTimestamp` of a time before 1970 with a fraction of a second has negative nanoseconds, which
  `EncodeTimestamp` does not write and a Timestamp may not have; `encode.go:1360` says the result is
  identical. Both decoders accept it.
* **.proto files.** An argument after the first that is a pointer to a pointer keeps one of them; it leads to its
  struct's fields, but the struct itself is not declared. An `AsProtobuf3` with a name and no definition has its struct
  declared under the Go name. Such a type that is no struct and that no field points to is not among those found,
  and its imports are lost.
* **Pool.** `dec_Duration` returns on errors without releasing its Buffer: it is garbage then, which
  costs an allocation and nothing else. Panics during construction leave the cache locked
  (`cache_live` excepts them).

## Not modelled

* Floats are the words they are made of; strings and payloads are byte strings.
* The capacity of slices: a decoder that appends into spare capacity finds what was there before
  (listed as a hazard).
* `DebugPrint`, `String`, error texts, and the layout of generated .proto files.
* The package function `DecodeVarint`, the `Count...` helpers (they size an allocation), `Immutable` Buffers (which
  differ in whether strings share memory with the message), the locations of times.
* Field encoders of structs, maps and marshalers are in `Encoder` and `Decoder` by kind, not by the table of
  `Codecs`; `FieldCodecs` describes such fields and does not encode them.
* A field with an id of 0 and messages for which the comments promise nothing (ids above `uint32`, items for a
  `[0]T` field) are decoded by the model as by the code, and the reference is silent about them.

## Plan

1. Done: all components that keep state or compute what others read; the proofs above.
2. The capacity of slices in `Decoder`, for the hazard of `dec_slice_struct_message`.
