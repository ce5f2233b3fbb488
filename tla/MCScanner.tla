-------------------------------- MODULE MCScanner --------------------------------
(***************************************************************************)
(* Short messages for the scanner, put together from fragments: items of   *)
(* every form, and what truncation and corruption make of them.  A varint  *)
(* has 5 bytes here, the last below 4: a word has 30 bits.                 *)
(***************************************************************************)
EXTENDS ScannerRefinement

Good ==
  {<<8, 5>>,                        \* 1: varint
   <<136, 0, 133, 0>>,              \* the same, not minimal
   <<8, 129, 129, 129, 129, 129, 1>>, \* a varint too long for a word
   <<16, 129, 3>>,                  \* 2: varint
   <<18, 0>>, <<18, 2, 8, 5>>,      \* 2: bytes, none or another message
   <<18, 130, 0, 16, 1>>,           \* a length of two bytes
   <<146, 128, 0, 129, 128, 0, 9>>, \* a key and a length of three bytes
   <<136, 128, 0, 1>>,              \* a key of three bytes and the shortest value
   <<13, 8, 5, 18, 1>>,             \* 1: fixed32
   <<25, 1, 2, 3, 4, 5, 6, 7, 8>>,  \* 3: fixed64
   <<0, 1>>}                        \* 0: varint

Bad ==
  {<<8>>, <<136>>, <<18, 3, 8, 5>>, <<18, 129>>, <<18, 131, 128, 0, 1>>,
   <<11, 8, 5>>,                    \* a group
   <<255, 255, 255, 255, 7>>,       \* a key too large for a word
   <<18, 250, 255, 255, 255, 3>>,   \* a length that wraps around to the start of the item
   <<25, 1, 2, 3>>, <<13, 1>>}

WellFormed == {<<>>} \cup Good \cup {f \o g : f \in Good, g \in Good}

Messages == WellFormed \cup Bad \cup {f \o g : f \in Good, g \in Bad}
                       \cup {f \o g : f \in Bad, g \in Good}
  \cup {<<8, 5>> \o f \o g : f \in Good, g \in Good \cup Bad}
=============================================================================
