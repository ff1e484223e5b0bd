---------------------------- MODULE MCImageWrite ----------------------------
(* Bytes of two bits, pages of four bytes, erase blocks of eight. *)
EXTENDS ImageWrite

MCSync == <<{}, {0}>>

\* Any table: the properties do not depend on the polynomial.
MCCrcTable ==
  [b \in SUBSET {0, 1} |->
     {i + 1 : i \in b} \cup IF 0 \in b THEN {0, 3} ELSE {}]

FF == {0, 1}
A == {0}
B == {1}
O == {}

\* Text, a length of 5, padding, the sync word and two bytes of data.
Bitstream8 == <<B, A, A, FF, O, A, B, O>>

\* The same in one page after another, in halves of a page, and in two pages at
\* once; one byte longer, with a short last block; in blocks of three bytes; and
\* a file without a header.
Pages   == <<SubSeq(Bitstream8, 1, 4), SubSeq(Bitstream8, 5, 8)>>
Halves  == <<SubSeq(Bitstream8, 1, 2), SubSeq(Bitstream8, 3, 4),
             SubSeq(Bitstream8, 5, 6), SubSeq(Bitstream8, 7, 8)>>
Whole   == <<Bitstream8>>
Short   == <<<<B, A, B, FF>>, <<O, A, B, O>>, <<A>>>>
Threes  == <<<<B, A, B>>, <<FF, O, A>>, <<B, O, A>>>>
Other   == <<<<A, B, O, A>>>>

MCFiles == {Pages, Halves, Whole, Short, Threes, Other}

\* The searched part of the flash is arbitrary.
MCOldFlash ==
  {[a \in Address |-> IF a < HeaderSize THEN h[a] ELSE B] :
     h \in [0..(HeaderSize - 1) -> SUBSET {0, 1}]}

=============================================================================
