---------------------------- MODULE ChunkProofs ----------------------------
(***************************************************************************)
(* Proofs about Chunk::slice, for chunks of any size and any bounds that   *)
(* are a usize, in builds with and without overflow checks: whatever was   *)
(* sliced before, a slice is what its range says, or panics.               *)
(***************************************************************************)
EXTENDS Chunk, TLAPS

\* The window is one of the buffer, and a sample has one or two bytes.
ChunkInv ==
  /\ width \in {1, 2}
  /\ start \in 0 .. Size /\ end \in 0 .. Size
  /\ start <= end

\* Arithmetic of usize leaves values that fit as they are.
LEMMA WrappedFacts ==
  ASSUME NEW x \in Nat
  PROVE  /\ IsUsize(x) => Wrapped(x) = x
         /\ Wrapped(x) \in Nat
BY SizeAssumption DEF IsUsize, Wrapped

\* What slice makes of the bounds of a range.
LEMMA BoundFacts ==
  ASSUME ChunkInv, NEW bound \in Bounds
  PROVE  /\ bound.kind \in {"Included", "Excluded", "Unbounded"}
         /\ bound.at \in Nat
         /\ ToBytes(bound).kind = bound.kind
         /\ ToBytes(bound).at = bound.at * width
BY SizeAssumption DEF Bounds, ToBytes, ChunkInv

\* The length of a chunk is that of its window in samples.
LEMMA LengthFacts ==
  ASSUME ChunkInv
  PROVE  /\ Length \in Nat
         /\ width = 1 => Length = end - start
         /\ WholeSamples => end = start + Length * width
<1>1. CASE width = 1
  BY <1>1 DEF ChunkInv, Length
<1>2. CASE width = 2
  BY <1>2 DEF ChunkInv, Length, WholeSamples
<1>. QED  BY <1>1, <1>2 DEF ChunkInv

\* The bytes of a range of single bytes.
LEMMA ByteRange ==
  ASSUME ChunkInv, width = 1, NEW lower \in Bounds, NEW upper \in Bounds
  PROVE  /\ SliceStart(ToBytes(lower)) = start + First(lower)
         /\ SliceEnd(ToBytes(upper)) = start + Past(upper)
         /\ First(lower) \in Nat /\ Past(upper) \in Nat
<1>1. /\ lower.at \in Nat /\ upper.at \in Nat
      /\ ToBytes(lower).at = lower.at /\ ToBytes(upper).at = upper.at
  BY BoundFacts
<1>2. start \in Nat /\ end = start + Length /\ Length \in Nat
  BY LengthFacts DEF ChunkInv
<1>3. SliceStart(ToBytes(lower)) = start + First(lower) /\ First(lower) \in Nat
  BY <1>1, <1>2, BoundFacts DEF SliceStart, First
<1>4. SliceEnd(ToBytes(upper)) = start + Past(upper) /\ Past(upper) \in Nat
  BY <1>1, <1>2, BoundFacts DEF SliceEnd, Past
<1>. QED  BY <1>3, <1>4

\* The bytes of a half-open range of samples.
LEMMA SampleRange ==
  ASSUME ChunkInv, WholeSamples, NEW lower \in Bounds, NEW upper \in Bounds,
         lower.kind # "Excluded", upper.kind # "Included"
  PROVE  /\ SliceStart(ToBytes(lower)) = start + First(lower) * width
         /\ SliceEnd(ToBytes(upper)) = start + Past(upper) * width
         /\ First(lower) \in Nat /\ Past(upper) \in Nat
<1>1. /\ lower.at \in Nat /\ upper.at \in Nat
      /\ ToBytes(lower).at = lower.at * width /\ ToBytes(upper).at = upper.at * width
  BY BoundFacts
<1>2. start \in Nat /\ end = start + Length * width /\ Length \in Nat
  BY LengthFacts DEF ChunkInv
<1>3. width \in Nat /\ 0 * width = 0
  BY DEF ChunkInv
<1>4. SliceStart(ToBytes(lower)) = start + First(lower) * width /\ First(lower) \in Nat
  BY <1>1, <1>2, <1>3, BoundFacts DEF SliceStart, First
<1>5. SliceEnd(ToBytes(upper)) = start + Past(upper) * width /\ Past(upper) \in Nat
  BY <1>1, <1>2, <1>3, BoundFacts DEF SliceEnd, Past
<1>. QED  BY <1>4, <1>5

\* Widths scale bounds: the checks of Buffer::slice are those of the range.  A range
\* that overflows does not lie within the chunk.
LEMMA SelectsFromBytes ==
  ASSUME ChunkInv, NEW lower \in Bounds, NEW upper \in Bounds,
         NoWrapAround(lower, upper),
         NEW first \in Nat, first = First(lower),
         NEW past \in Nat, past = Past(upper),
         SliceStart(ToBytes(lower)) = start + first * width,
         SliceEnd(ToBytes(upper)) = start + past * width,
         end = start + Length * width, Length \in Nat
  PROVE  Selects(lower, upper)
<1>. DEFINE from == start + first * width
            to == start + past * width
<1>1. from \in Nat /\ to \in Nat /\ start \in Nat /\ end \in Nat /\ IsUsize(end)
  BY SizeAssumption DEF ChunkInv, IsUsize
<1>2. /\ start <= from
      /\ from <= to <=> first <= past
      /\ to <= end <=> past <= Length
  <2>1. PICK length \in Nat : length = Length
    OBVIOUS
  <2>2. CASE width = 1
    BY <2>1, <2>2 DEF ChunkInv
  <2>3. CASE width = 2
    BY <2>1, <2>3 DEF ChunkInv
  <2>. QED  BY <2>2, <2>3 DEF ChunkInv
<1>. HIDE DEF from, to
<1>3. SliceStart(ToBytes(lower)) = from /\ SliceEnd(ToBytes(upper)) = to
  BY DEF from, to
<1>4. CASE IsUsize(from) /\ IsUsize(to)
  <2>1. Wrapped(from) = from /\ Wrapped(to) = to
    BY <1>1, <1>4, WrappedFacts
  <2>2. Panics(lower, upper) <=> ~(first <= past /\ past <= Length)
    BY <1>2, <1>3, <1>4, <2>1 DEF Panics
  <2>. QED  BY <1>3, <2>1, <2>2 DEF Selects, from, to
<1>5. CASE ~(IsUsize(from) /\ IsUsize(to))
  <2>1. Panics(lower, upper)
    BY <1>3, <1>5 DEF Panics, NoWrapAround
  <2>2. ~(first <= past /\ past <= Length)
    BY <1>1, <1>2, <1>5, SizeAssumption DEF IsUsize
  <2>. QED  BY <2>1, <2>2 DEF Selects
<1>. QED  BY <1>4, <1>5

\* Slices stay within their buffer.
THEOREM ChunkInvariance == ChunkSpec => []ChunkInv
<1>1. ChunkInit => ChunkInv
  BY SizeAssumption DEF ChunkInit, ChunkInv
<1>2. ASSUME ChunkInv, NEW lower \in Bounds, NEW upper \in Bounds, Slice(lower, upper)
      PROVE  ChunkInv'
  <2>1. SliceStart(ToBytes(lower)) \in Nat /\ SliceEnd(ToBytes(upper)) \in Nat
    <3>1. /\ ToBytes(lower).at \in Nat /\ ToBytes(upper).at \in Nat
          /\ ToBytes(lower).kind \in {"Included", "Excluded", "Unbounded"}
          /\ ToBytes(upper).kind \in {"Included", "Excluded", "Unbounded"}
      BY <1>2, BoundFacts DEF ChunkInv
    <3>. QED  BY <1>2, <3>1 DEF ChunkInv, SliceStart, SliceEnd
  <2>2. PICK from \in Nat, to \in Nat :
          /\ from = Wrapped(SliceStart(ToBytes(lower)))
          /\ to = Wrapped(SliceEnd(ToBytes(upper)))
    BY <2>1, WrappedFacts
  <2>3. CASE Panics(lower, upper)
    BY <1>2, <2>3 DEF Slice, ChunkInv
  <2>4. CASE ~Panics(lower, upper)
    <3>1. start <= from /\ from <= to /\ to <= end
      BY <2>2, <2>4 DEF Panics
    <3>2. start' = from /\ end' = to /\ width' = width
      BY <1>2, <2>2, <2>4 DEF Slice
    <3>. QED  BY <1>2, <2>2, <3>1, <3>2, SizeAssumption DEF ChunkInv
  <2>. QED  BY <2>3, <2>4
<1>3. ChunkInv /\ [ChunkNext]_chunkVars => ChunkInv'
  BY <1>2 DEF ChunkNext, chunkVars, ChunkInv
<1>. QED  BY <1>1, <1>3, PTL DEF ChunkSpec

\* A chunk of single bytes is sliced as its range says, whatever its bounds.
THEOREM SlicesSelectRanges == ChunkSpec => []SliceSelectsRange
<1>1. ASSUME ChunkInv, width = 1, NEW lower \in Bounds, NEW upper \in Bounds,
             NoWrapAround(lower, upper)
      PROVE  Selects(lower, upper)
  <2>1. /\ SliceStart(ToBytes(lower)) = start + First(lower) * width
        /\ SliceEnd(ToBytes(upper)) = start + Past(upper) * width
        /\ First(lower) \in Nat /\ Past(upper) \in Nat
    BY <1>1, ByteRange
  <2>2. end = start + Length * width /\ Length \in Nat
    BY <1>1, LengthFacts DEF ChunkInv
  <2>. QED  BY <1>1, <2>1, <2>2, SelectsFromBytes
<1>2. ChunkInv => SliceSelectsRange
  BY <1>1 DEF SliceSelectsRange
<1>. QED  BY <1>2, ChunkInvariance, PTL

\* So is a chunk of whole samples of any width, by a half-open range.
THEOREM HalfOpenSlicesSelectRanges == ChunkSpec => []HalfOpenSliceSelectsRange
<1>1. ASSUME ChunkInv, WholeSamples, NEW lower \in Bounds, NEW upper \in Bounds,
             lower.kind # "Excluded", upper.kind # "Included", NoWrapAround(lower, upper)
      PROVE  Selects(lower, upper)
  <2>1. /\ SliceStart(ToBytes(lower)) = start + First(lower) * width
        /\ SliceEnd(ToBytes(upper)) = start + Past(upper) * width
        /\ First(lower) \in Nat /\ Past(upper) \in Nat
    BY <1>1, SampleRange
  <2>2. end = start + Length * width /\ Length \in Nat
    BY <1>1, LengthFacts DEF ChunkInv
  <2>. QED  BY <1>1, <2>1, <2>2, SelectsFromBytes
<1>2. ChunkInv => HalfOpenSliceSelectsRange
  BY <1>1 DEF HalfOpenSliceSelectsRange
<1>. QED  BY <1>2, ChunkInvariance, PTL

=============================================================================
