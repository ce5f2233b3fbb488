---------------------------------- MODULE Times ----------------------------------
(***************************************************************************)
(* Points in time and durations on the wire (encode.go, decode.go): the    *)
(* messages google.protobuf.Timestamp and google.protobuf.Duration, each a *)
(* number of seconds and one of nanoseconds, as this code writes and reads *)
(* them.  A time.Time is the nanoseconds since 1970, of any size; an int64 *)
(* and a time.Duration are nanoseconds within a word.                      *)
(***************************************************************************)
EXTENDS Numbers

CONSTANT Second  \* in nanoseconds

\* the nanoseconds of a second fit in an int32
ASSUME SecondAssumption == Second \in Nat /\ Second >= 2 /\ 2 * Second <= Word32

\* int64(x)
Int64(x) == IF x < Word \div 2 THEN x ELSE x - Word

\* Go's division drops what is behind the point, that of TLA+ rounds down
Quotient(n, d) == IF n < 0 THEN -((-n) \div d) ELSE n \div d

\* a number of field id, with the key of a varint
Part(id, n) == <<8 * id + WireVarint>> \o EncodeVarint(n % Word)

\* mutant: the seconds are not rounded down
EncodeTimestamp_Truncated(ns) == LET secs == Quotient(ns, Second) IN Part(1, secs) \o Part(2, ns - secs * Second)

\* the seconds of a time.Time are rounded down
EncodeTimestamp(ns) == Part(1, ns \div Second) \o Part(2, ns % Second)

\* mutant: the nanoseconds keep the seconds
EncodeNSecTimestamp_Whole(ns) == Part(1, Quotient(ns, Second)) \o Part(2, ns)

EncodeNSecTimestamp(ns) ==
  LET secs == Quotient(ns, Second) IN Part(1, secs) \o Part(2, ns - secs * Second)

\* the message without its length, which takes one byte
enc_Duration(d) ==
  LET secs  == Quotient(d, Second)
      nanos == d - secs * Second
  IN  (IF secs # 0 THEN Part(1, secs) ELSE <<>>) \o (IF nanos # 0 THEN Part(2, nanos) ELSE <<>>)

-----------------------------------------------------------------------------
(* The loop that DecodeTimestamp, DecodeNSecTimestamp and dec_Duration share: the last of several *)
(* numbers counts, and other items are skipped                                                    *)

Parts(b) ==
  LET Failed(e) == [secs |-> 0, nanos |-> 0, err |-> e]
      \* the position, and the last number of seconds and of nanoseconds
      Loop[at \in (0..Len(b)) \X (0..(Word - 1)) \X (0..(Word - 1))] ==
        LET Unless(read, next) == IF read.err # None THEN Failed(read.err) ELSE next
            Seconds(number) == Unless(number, Loop[<<number.index, number.x, at[3]>>])
            Nanos(number)   == Unless(number, Loop[<<number.index, at[2], number.x>>])
            Other(skipped)  == Unless(skipped, Loop[<<skipped.index, at[2], at[3]>>])
            ItemOf(key)     == Unless(key,
              CASE key.x = 8 + WireVarint  -> Seconds(DecodeVarint(b, key.index))
                [] key.x = 16 + WireVarint -> Nanos(DecodeVarint(b, key.index))
                [] OTHER -> Other(skip(b, key.index, KeyWire(key.x))))
        IN  IF at[1] = Len(b) THEN [secs |-> at[2], nanos |-> at[3], err |-> None] ELSE ItemOf(DecodeVarint(b, at[1]))
  IN  Loop[<<0, 0, 0>>]

\* mutant: the nanoseconds are unsigned
DecodeTimestamp_Unsigned(b) ==
  LET p == Parts(b) IN [err |-> p.err, ns |-> IF p.err = None THEN Int64(p.secs) * Second + p.nanos ELSE 0]

\* time.Unix takes nanoseconds of any size and sign
TimeOf(p) == [err |-> p.err, ns |-> IF p.err = None THEN Int64(p.secs) * Second + Int64(p.nanos) ELSE 0]

DecodeTimestamp(b) == TimeOf(Parts(b))

\* the sum of int64 wraps around; dec_Duration adds up its parts in the same way
DecodeNSecTimestamp(b) ==
  [DecodeTimestamp(b) EXCEPT !.ns = Int64(@ % Word)]

Inner(b, from, to) == SubSeq(b, from + 1, to)

\* a Timestamp with its length at i
TimeIn(b, raw) ==
  IF raw.err # None THEN raw
  ELSE LET t == DecodeTimestamp(Inner(b, raw.x, raw.index)) IN [x |-> t.ns, index |-> raw.index, err |-> t.err]

decode_time_Time(b, i) == TimeIn(b, DecodeRawBytes(b, i))

\* a Duration with its length at i, which has been read
DurationIn(b, n) ==
  LET end == (n.index + n.x) % Word
      d   == DecodeNSecTimestamp(Inner(b, n.index, end))
  IN  IF n.err # None THEN n
      ELSE IF ~SliceEnds(b, n.index, end) THEN Fail(EOF, n.index)
      ELSE IF d.err # None THEN Fail(d.err, n.index)
      ELSE Read(d.ns, end)

dec_Duration(b, i) == DurationIn(b, DecodeVarint(b, i))
=============================================================================
