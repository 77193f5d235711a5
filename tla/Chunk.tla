------------------------------- MODULE Chunk -------------------------------
(***************************************************************************)
(* Chunk::slice of lib.rs on top of Buffer::slice of buffer_queue.rs: a    *)
(* range of samples is translated to a range of bytes, which then narrows  *)
(* the window start .. end of the buffer.  The server sends a chunk piece  *)
(* by piece this way.                                                      *)
(***************************************************************************)
EXTENDS Integers

CONSTANTS
  Size,   \* bound: bytes in the chunk
  Usize   \* number of values of a usize

ASSUME SizeAssumption == Size \in Nat /\ Usize \in Nat /\ Size < Usize

VARIABLES
  checked,     \* whether integer overflow panics in this build, or wraps around
  width,       \* bytes per sample: 2 for Iq, 1 for the u8 of direct samples
  start, end,  \* fields of Buffer
  panicked     \* an assertion of Buffer::slice has failed, or an overflow check

chunkVars == <<checked, width, start, end, panicked>>

\* A bound of a range: a position, included or excluded, or none.
Bounds == [kind : {"Included", "Excluded"}, at : 0 .. Usize - 1]
            \cup {[kind |-> "Unbounded", at |-> 0]}

\* The reader fills a buffer from 0 to any even number of bytes.
ChunkInit ==
  /\ checked \in BOOLEAN
  /\ width \in {1, 2}
  /\ start = 0
  /\ end \in {n \in 1 .. Size : n % 2 = 0}
  /\ panicked = FALSE

\* Chunk::len
Length == (end - start) \div width

\* map_bound
ToBytes(bound) == [bound EXCEPT !.at = @ * width]

\* Fault: the range is taken from the beginning of the buffer.
SliceStart_Absolute(lower) ==
  CASE lower.kind = "Included" -> lower.at
    [] lower.kind = "Excluded" -> lower.at + 1
    [] lower.kind = "Unbounded" -> start

\* The two match expressions of Buffer::slice.
SliceStart(lower) ==
  CASE lower.kind = "Included" -> start + lower.at
    [] lower.kind = "Excluded" -> start + lower.at + 1
    [] lower.kind = "Unbounded" -> start

\* Fault: inclusive and exclusive ends are confused.
SliceEnd_Confused(upper) ==
  CASE upper.kind = "Included" -> start + upper.at
    [] upper.kind = "Excluded" -> start + upper.at + 1
    [] upper.kind = "Unbounded" -> end

SliceEnd(upper) ==
  CASE upper.kind = "Included" -> start + upper.at + 1
    [] upper.kind = "Excluded" -> start + upper.at
    [] upper.kind = "Unbounded" -> end

\* Sums and products of usize.  The operators above return them without a bound: a
\* part of a sum that overflows makes the sum overflow, and the remainder of a sum
\* depends on those of its parts.
IsUsize(x) == x < Usize
Wrapped(x) == x % Usize

\* The three assertions, and overflows if they are checked.
Panics(lower, upper) ==
  LET first == SliceStart(ToBytes(lower))
      past == SliceEnd(ToBytes(upper))
  IN  \/ checked /\ ~(IsUsize(first) /\ IsUsize(past))
      \/ ~(/\ start <= Wrapped(first)
           /\ Wrapped(first) <= Wrapped(past)
           /\ Wrapped(past) <= end)

Slice(lower, upper) ==
  /\ ~panicked
  /\ IF Panics(lower, upper)
     THEN panicked' = TRUE /\ UNCHANGED <<start, end>>
     ELSE /\ start' = Wrapped(SliceStart(ToBytes(lower)))
          /\ end' = Wrapped(SliceEnd(ToBytes(upper)))
          /\ UNCHANGED panicked
  /\ UNCHANGED <<checked, width>>

ChunkNext == \E lower, upper \in Bounds : Slice(lower, upper)

ChunkSpec == ChunkInit /\ [][ChunkNext]_chunkVars

----------------------------------------------------------------------------
(* What a range means: the samples from First up to, not including, Past. *)

First(lower) ==
  CASE lower.kind = "Included" -> lower.at
    [] lower.kind = "Excluded" -> lower.at + 1
    [] lower.kind = "Unbounded" -> 0

Past(upper) ==
  CASE upper.kind = "Included" -> upper.at + 1
    [] upper.kind = "Excluded" -> upper.at
    [] upper.kind = "Unbounded" -> Length

Selects(lower, upper) ==
  IF First(lower) <= Past(upper) /\ Past(upper) <= Length
  THEN /\ ~Panics(lower, upper)
       /\ Wrapped(SliceStart(ToBytes(lower))) = start + First(lower) * width
       /\ Wrapped(SliceEnd(ToBytes(upper))) = start + Past(upper) * width
  ELSE Panics(lower, upper)

\* Nothing wraps around.  (Where it does, a range that ends far behind the chunk may
\* select samples instead of panicking.)
NoWrapAround(lower, upper) ==
  \/ checked
  \/ IsUsize(SliceStart(ToBytes(lower))) /\ IsUsize(SliceEnd(ToBytes(upper)))

\* Whatever was sliced before, slicing a chunk of single bytes by a range of any
\* kind leaves exactly the samples of that range, and panics exactly if the range
\* does not lie within the chunk: for all bounds up to the greatest usize if overflows
\* are checked, and for those that do not overflow otherwise.
SliceSelectsRange ==
  width = 1 =>
    \A lower, upper \in Bounds : NoWrapAround(lower, upper) => Selects(lower, upper)

\* An Iq sample is 16 bits, and the reader asserts that a chunk is an even number of
\* bytes.  (A start that is excluded or an end that is included breaks this: slice
\* adds one byte, not one sample.)
WholeSamples == (end - start) % width = 0

\* With samples of any width the same holds of half-open ranges, which the server
\* uses, on a chunk of whole samples, wherever in its buffer the chunk starts.  What
\* is left are whole samples, too.
HalfOpenSliceSelectsRange ==
  WholeSamples =>
    \A lower, upper \in Bounds :
      lower.kind # "Excluded" /\ upper.kind # "Included" /\ NoWrapAround(lower, upper) =>
        Selects(lower, upper)

=============================================================================
