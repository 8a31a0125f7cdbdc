----------------------------- MODULE BufferSpan -----------------------------
(***************************************************************************)
(* const_buffer_subspan and mutable_buffer_subspan, two classes with the   *)
(* same code: the operators stand for the functions of either, and the     *)
(* actions for calls of them.  A subspan is a run of buffers with a start  *)
(* offset into the first and an end offset into the last of them.  The     *)
(* bytes of all buffers are numbered from 0, so that what a subspan stands *)
(* for is an interval of these numbers.                                    *)
(***************************************************************************)
EXTENDS Lists, Integers, FiniteSetsExt

CONSTANT Shapes  \* the sequences of buffer sizes to look at

ASSUME ShapesAssumption == \A s \in Shapes : s \in Seq(Nat)

VARIABLES
  sizes,    \* the size of each buffer
  subspan,  \* buffers_ (an index), size_, i0_, iN_
  interval  \* the first byte the subspan should have, and the one behind it

spanVars == <<sizes, subspan, interval>>

(* How many bytes lie before buffer k.                                     *)
Before(k) == SumOfFirst(k - 1, sizes)

Span(first, size, i0, iN) ==
  IF size = 1 /\ i0 = iN
    THEN [first |-> 0, size |-> 0, i0 |-> i0, iN |-> iN]
    ELSE [first |-> first, size |-> size, i0 |-> i0, iN |-> iN]

(* const_buffer_subspan(const_buffer_span).                                *)
WholeSpan(s) ==
  [first |-> 1, size |-> Len(s), i0 |-> 0,
   iN |-> IF s = <<>> THEN 0 ELSE s[Len(s)]]

buffer_size(s) ==
  CASE s.size = 0 -> 0
    [] s.size = 1 -> s.iN - s.i0
    [] OTHER -> Before(s.first + s.size - 1) - Before(s.first) - s.i0 + s.iN

(* The buffer behind first that holds byte n, and the place of n in it.    *)
find_buffer_index_for_n(first, last, n) ==
  LET Left(k) == n - (Before(k) - Before(first))
      fits == {k \in first..last : Left(k) <= sizes[k]}
  IN IF fits = {} THEN [index |-> last - first, rest |-> sizes[last]]
     ELSE [index |-> Min(fits) - first, rest |-> Left(Min(fits))]

(* Mutant of prefix: the start offset is forgotten.                        *)
prefix_from_start(s, n) ==
  LET first_length == sizes[s.first] - s.i0
      found == find_buffer_index_for_n(s.first + 1, s.first + s.size - 1,
                                       n - first_length)
  IN IF s.size = 0 THEN s
     ELSE IF n <= first_length THEN Span(s.first, 1, s.i0, n)
     ELSE Span(s.first, found.index + 2, s.i0, found.rest)

prefix(s, n) ==
  LET first_length == sizes[s.first] - s.i0
      found == find_buffer_index_for_n(s.first + 1, s.first + s.size - 1,
                                       n - first_length)
  IN IF s.size = 0 THEN s
     ELSE IF n <= first_length THEN Span(s.first, 1, s.i0, n + s.i0)
     ELSE Span(s.first, found.index + 2, s.i0, found.rest)

(* The loop of suffix over the inner buffers.  It compares with the size   *)
(* of the first buffer instead of the one it looks at, and subtracts sizes *)
(* from an unsigned n: a negative number stands for one near 2^64.         *)
suffix(s, n) ==
  LET length == sizes[s.first]
      Left(i) == n - s.iN - (Before(s.first + s.size - 1) - Before(s.first + i + 1))
      inner == {i \in 1..(s.size - 2) : 0 <= Left(i) /\ Left(i) <= length}
      i == Max(inner)
      first_length == length - s.i0
  IN CASE s.size = 0 -> s
       [] s.size = 1 ->
            Span(s.first, 1, IF n <= s.iN - s.i0 THEN s.iN - n ELSE s.i0, s.iN)
       [] s.size > 1 /\ n <= s.iN ->
            Span(s.first + s.size - 1, 1, s.iN - n, s.iN)
       [] s.size > 1 /\ n > s.iN /\ inner # {} ->
            Span(s.first + i, s.size - i, length - Left(i), length)
       [] OTHER ->
            IF 0 <= Left(0) /\ Left(0) <= first_length
              THEN Span(s.first, s.size, s.i0 + first_length - Left(0), s.iN)
              ELSE s

(* buffer_algorithms.hpp.                                                  *)
without_prefix(s, n) ==
  suffix(s, IF n <= buffer_size(s) THEN buffer_size(s) - n ELSE 0)

-----------------------------------------------------------------------------
SpanInit ==
  /\ sizes \in Shapes
  /\ subspan = WholeSpan(sizes)
  /\ interval = <<0, buffer_size(subspan)>>

Cut(s, from, to) ==
  /\ subspan' = s
  /\ interval' = <<from, to>>
  /\ UNCHANGED sizes

(* Callers ask for at most the bytes there are.                            *)
TakePrefix ==
  \E n \in 0..buffer_size(subspan) :
    Cut(prefix(subspan, n), interval[1], interval[1] + n)

TakeSuffix ==
  \E n \in 0..buffer_size(subspan) :
    Cut(suffix(subspan, n), interval[2] - n, interval[2])

DropPrefix ==
  \E n \in 0..buffer_size(subspan) + 1 :
    Cut(without_prefix(subspan, n),
        IF interval[1] + n <= interval[2] THEN interval[1] + n ELSE interval[2],
        interval[2])

SpanNext == TakePrefix \/ TakeSuffix \/ DropPrefix

-----------------------------------------------------------------------------
(* Cut in any order, a subspan of one or two buffers has the bytes it      *)
(* should have: no byte is lost at the seam between two buffers.  From     *)
(* three buffers on the loop of suffix makes this false.                   *)
SubspanHasItsBytes ==
  Len(sizes) <= 2 =>
    IF interval[1] = interval[2]
      THEN buffer_size(subspan) = 0
      ELSE /\ interval[1] = Before(subspan.first) + subspan.i0
           /\ interval[2] = Before(subspan.first + subspan.size - 1) + subspan.iN
=============================================================================
