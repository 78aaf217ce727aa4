---------------------------- MODULE BitmapSearch ----------------------------
(***************************************************************************)
(* find_next_range_of_unset_bits (BugChecker/Allocator.cpp): the search of *)
(* the arena allocator for min_length free blocks, word by word.  One      *)
(* action is one turn of a loop of the code; the bit map does not change   *)
(* while the search runs.                                                  *)
(*                                                                         *)
(* The local `bucket`, shifted right by viewed_bits, is the part of the    *)
(* word at offsets >= viewed_bits (Unviewed); shifting brings in zeroes,   *)
(* which is what the loop relies on and what the offsets stand for.        *)
(***************************************************************************)
EXTENDS Bitmap

CONSTANTS Starts,     \* where searches start
          Lengths     \* the lengths asked for

ASSUME SearchAssumption ==
    /\ Starts \subseteq Bits
    /\ Lengths \subseteq Nat \ {0}

VARIABLES
    bits,             \* m_data
    from0,            \* `from` at the call
    min_length, max_length,
    from,             \* `from`, which the search overwrites
    bucket_index, viewed_bits, free_chunks,
    pc,               \* the loop the search is in
    result            \* the return value

args == <<bits, from0, min_length, max_length>>
vars == <<bits, from0, min_length, max_length, from, bucket_index,
          viewed_bits, free_chunks, pc, result>>

NotAsked == -1        \* the (size_t)-1 of min_length > max_length

words_OneLess == (m_size \div bit_size) - 1

\* The whole words of the bit map.
words == m_size \div bit_size

AtMost_NotMin(n, max) == n

\* The lesser of the two: min(free_chunks, max_length).
AtMost(n, max) == IF n <= max THEN n ELSE max

TypeOK ==
    /\ bits \subseteq Bits
    /\ from0 \in Bits
    /\ min_length \in Lengths
    /\ max_length \in Lengths
    /\ from \in Bits
    /\ bucket_index \in Nat
    /\ viewed_bits \in 0 .. bit_size
    /\ free_chunks \in 0 .. m_size
    /\ pc \in {"buckets", "inner", "trailing", "done"}
    /\ result \in {NotAsked} \cup 0 .. max_length

Init ==
    /\ bits \in SUBSET Bits
    /\ from0 \in Starts
    /\ min_length \in Lengths
    /\ max_length \in Lengths
    /\ from = from0
    /\ bucket_index = from0 \div bit_size
    /\ viewed_bits = from0 % bit_size      \* start_bucket_bit
    /\ free_chunks = 0
    /\ pc = IF min_length > max_length THEN "done" ELSE "buckets"
    /\ result = IF min_length > max_length THEN NotAsked ELSE 0

-----------------------------------------------------------------------------
Return(n) ==
    /\ result' = n
    /\ pc' = "done"

Base == bucket_index * bit_size

\* The bits of the bucket that are set, as offsets, from viewed_bits on.
Unviewed == { i \in viewed_bits .. bit_size - 1 : Base + i \in bits }

FullBucket  == \A i \in 0 .. bit_size - 1 : Base + i \in bits
EmptyBucket == \A i \in 0 .. bit_size - 1 : Base + i \notin bits

\* Where the free range starts that is extended at offset i of the bucket.
StartAt(i) == from' = IF free_chunks = 0 THEN Base + i ELSE from

NextBucket ==
    /\ bucket_index' = bucket_index + 1
    /\ viewed_bits' = 0
    /\ pc' = "buckets"

AfterFull_Kept == free_chunks

\* A full bucket ends a free range that is too short.
AfterFull == 0

Full ==
    /\ pc = "buckets" /\ bucket_index < words /\ FullBucket
    /\ IF free_chunks >= min_length
         THEN /\ Return(AtMost(free_chunks, max_length))
              /\ UNCHANGED <<bucket_index, viewed_bits, free_chunks>>
         ELSE /\ NextBucket
              /\ free_chunks' = AfterFull
              /\ UNCHANGED result
    /\ UNCHANGED <<args, from>>

\* An empty bucket counts as a whole, also if the search starts inside it.
Empty ==
    /\ pc = "buckets" /\ bucket_index < words /\ EmptyBucket
    /\ StartAt(0)
    /\ free_chunks' = free_chunks + bit_size
    /\ IF free_chunks' >= max_length
         THEN Return(max_length) /\ UNCHANGED <<bucket_index, viewed_bits>>
         ELSE NextBucket /\ UNCHANGED result
    /\ UNCHANGED args

Mixed ==
    /\ pc = "buckets" /\ bucket_index < words /\ ~FullBucket /\ ~EmptyBucket
    /\ pc' = "inner"
    /\ UNCHANGED <<args, from, bucket_index, viewed_bits, free_chunks, result>>

\* The rest of the bucket is free: the range may go on in the next one.
InnerZero ==
    /\ pc = "inner" /\ viewed_bits < bit_size /\ Unviewed = {}
    /\ StartAt(viewed_bits)
    /\ free_chunks' = free_chunks + (bit_size - viewed_bits)
    /\ viewed_bits' = bit_size
    /\ UNCHANGED <<args, bucket_index, pc, result>>

\* The first set bit z ends the range; the set bits from z to u are skipped.
InnerBits ==
    /\ pc = "inner" /\ viewed_bits < bit_size
    /\ \E z \in Unviewed :
         /\ \A i \in Unviewed : z <= i
         /\ StartAt(viewed_bits)
         /\ LET free == free_chunks + (z - viewed_bits) IN
            IF free >= min_length
              THEN /\ Return(AtMost(free, max_length))
                   /\ viewed_bits' = z
                   /\ free_chunks' = free
              ELSE /\ \E u \in z + 1 .. bit_size :
                        /\ \A i \in z .. u - 1 : i \in Unviewed
                        /\ u \notin Unviewed
                        /\ viewed_bits' = u
                   /\ free_chunks' = 0
                   /\ UNCHANGED <<pc, result>>
    /\ UNCHANGED <<args, bucket_index>>

InnerDone ==
    /\ pc = "inner" /\ viewed_bits = bit_size
    /\ NextBucket
    /\ UNCHANGED <<args, from, free_chunks, result>>

\* After the last whole word: enough is free already, or the bits of an
\* incomplete word are looked at one by one.
BucketsDone ==
    /\ pc = "buckets" /\ bucket_index >= words
    /\ IF free_chunks < min_length
         THEN pc' = "trailing" /\ viewed_bits' = 0 /\ UNCHANGED result
         ELSE Return(AtMost(free_chunks, max_length)) /\ UNCHANGED viewed_bits
    /\ UNCHANGED <<args, from, bucket_index, free_chunks>>

Trailing ==
    /\ pc = "trailing" /\ viewed_bits < m_size % bit_size
    /\ LET bit == words * bit_size + viewed_bits IN
       IF bit \in bits
         THEN free_chunks' = 0 /\ UNCHANGED <<from, pc, result>>
         ELSE /\ from' = IF free_chunks = 0 THEN bit ELSE from
              /\ free_chunks' = free_chunks + 1
              /\ IF free_chunks' >= min_length
                   THEN Return(AtMost(free_chunks', max_length))
                   ELSE UNCHANGED <<pc, result>>
    /\ viewed_bits' = viewed_bits + 1
    /\ UNCHANGED <<args, bucket_index>>

TrailingDone ==
    /\ pc = "trailing" /\ viewed_bits = m_size % bit_size
    /\ Return(0)
    /\ UNCHANGED <<args, from, bucket_index, viewed_bits, free_chunks>>

Next == \/ Full \/ Empty \/ Mixed \/ InnerZero \/ InnerBits \/ InnerDone
        \/ BucketsDone \/ Trailing \/ TrailingDone

Spec == Init /\ [][Next]_vars

-----------------------------------------------------------------------------
(* Properties.                                                              *)

\* What the search returns is a free range of an allowed length, inside the bit
\* map: Alloc claims it without looking at the bits again.
FoundIsFree ==
    pc = "done" /\ result > 0 => /\ FreeRange(bits, from, result)
                                 /\ result \in min_length .. max_length

\* Nothing is passed over: no free range of min_length bits starts between the
\* place where the search began and the one it found, and if it gives up there
\* is none up to the end.  Alloc takes a failure for "out of memory" and stops
\* the machine.
FirstFit ==
    pc = "done" /\ result # NotAsked =>
        IF result = 0 THEN NoneFree(bits, from0, min_length)
                      ELSE IsFirstFree(bits, from0, min_length, from)

\* set_range changes the bits of the range and no others, whatever its
\* position relative to the bytes (Alloc and Free depend on it).
SetRangeExact ==
    pc = "done" /\ from0 + max_length <= m_size =>
        LET range == Span(from0, max_length) IN
        /\ set_range(bits, from0, max_length, TRUE) = bits \cup range
        /\ set_range(bits, from0, max_length, FALSE) = bits \ range

\* count_in_range counts the bits of the range, however it is cut into bytes and
\* words (GetPoolMap and TestBitmap depend on it).
CountExact ==
    pc = "done" /\ from0 + max_length <= m_size =>
        LET range == Span(from0, max_length) IN
        /\ count_in_range(bits, from0, max_length, TRUE)
             = Cardinality(bits \cap range)
        /\ count_in_range(bits, from0, max_length, FALSE)
             = Cardinality(range \ bits)
=============================================================================
