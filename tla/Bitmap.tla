------------------------------- MODULE Bitmap -------------------------------
(***************************************************************************)
(* The bit map of the arena allocator (class SerenityOSBitmap in           *)
(* BugChecker/Allocator.cpp): the byte-wise routines set_range and         *)
(* count_in_range.  The search for a free range is a loop and has a module *)
(* of its own, BitmapSearch.                                               *)
(*                                                                         *)
(* A bit map is the set of the indices of its set bits.  The widths of a   *)
(* byte (8) and of a machine word (sizeof(size_t)) are constants, so that  *)
(* small instances have several bytes and several words.                   *)
(***************************************************************************)
EXTENDS Integers, FiniteSets

CONSTANTS ByteBits,   \* bits of a byte
          WordBytes,  \* sizeof(size_t)
          m_size      \* bits of the bit map

ASSUME BitmapAssumption ==
    /\ ByteBits \in Nat \ {0}
    /\ WordBytes \in Nat \ {0}
    /\ m_size \in Nat
    /\ m_size % ByteBits = 0

bit_size == ByteBits * WordBytes

size_in_bytes == m_size \div ByteBits

Bits == 0 .. m_size - 1

\* The bits start .. start + len - 1: what the callers mean by a range.
Span(start, len) == start .. start + len - 1

\* The bits of the bytes first .. last - 1, and the two mask tables: the bits
\* of the byte of `start` from `start` on, and those of the byte of `end`
\* before `end` (none when `end` is the first bit of its byte).
ByteRange(first, last) == first * ByteBits .. last * ByteBits - 1

bitmask_first_byte(start) ==
    { b \in ByteRange(start \div ByteBits, start \div ByteBits + 1) :
        b % ByteBits >= start % ByteBits }

bitmask_last_byte(end) ==
    { b \in ByteRange(end \div ByteBits, end \div ByteBits + 1) :
        b % ByteBits < end % ByteBits }

-----------------------------------------------------------------------------
\* A memset that starts with the first byte instead of the one after it.
RangeMask_WholeFirst(start, len) ==
    LET first == start \div ByteBits
        last  == (start + len) \div ByteBits
    IN  IF first = last
        THEN bitmask_first_byte(start) \cap bitmask_last_byte(start + len)
        ELSE bitmask_last_byte(start + len) \cup ByteRange(first, last)

\* The bits set_range changes: one masked byte, or a masked first and a masked
\* last byte with a memset of the bytes between them.
RangeMask(start, len) ==
    LET first == start \div ByteBits
        last  == (start + len) \div ByteBits
    IN  IF first = last
        THEN bitmask_first_byte(start) \cap bitmask_last_byte(start + len)
        ELSE bitmask_first_byte(start) \cup bitmask_last_byte(start + len)
                \cup ByteRange(first + 1, last)

set_range(bits, start, len, value) ==
    IF len = 0 THEN bits
    ELSE IF value THEN bits \cup RangeMask(start, len)
                  ELSE bits \ RangeMask(start, len)

-----------------------------------------------------------------------------
popcount(bits, mask) == Cardinality(bits \cap mask)

\* The first word boundary at or after a byte, and the last at or before it.
AlignUp(byte)   == ((byte + WordBytes - 1) \div WordBytes) * WordBytes
AlignDown(byte) == (byte \div WordBytes) * WordBytes

\* The clamp of ptr_large to last left out.
CountMiddle_NoClamp(bits, first, last) ==
    LET ptr_large  == AlignUp(first)
        last_large == AlignDown(last)
        tail       == IF ptr_large < last_large THEN last_large ELSE ptr_large
    IN  popcount(bits, ByteRange(first, ptr_large))
          + popcount(bits, ByteRange(ptr_large, tail))
          + popcount(bits, ByteRange(tail, last))

\* The whole bytes strictly between the first and the last: byte by byte up to
\* a word boundary, word by word, then byte by byte again.
CountMiddle(bits, first, last) ==
    LET ptr_large  == IF AlignUp(first) > last THEN last ELSE AlignUp(first)
        last_large == AlignDown(last)
        tail       == IF ptr_large < last_large THEN last_large ELSE ptr_large
    IN  popcount(bits, ByteRange(first, ptr_large))
          + popcount(bits, ByteRange(ptr_large, tail))
          + popcount(bits, ByteRange(tail, last))

\* Set bits of the range; the last byte is read only inside the bit map.
CountSet(bits, start, len) ==
    LET first == start \div ByteBits
        last  == (start + len) \div ByteBits
    IN  IF first = last
        THEN popcount(bits, bitmask_first_byte(start)
                                \cap bitmask_last_byte(start + len))
        ELSE popcount(bits, bitmask_first_byte(start))
               + (IF last < size_in_bytes
                  THEN popcount(bits, bitmask_last_byte(start + len)) ELSE 0)
               + (IF first + 1 < last
                  THEN CountMiddle(bits, first + 1, last) ELSE 0)

count_in_range(bits, start, len, value) ==
    IF len = 0 THEN 0
    ELSE IF value THEN CountSet(bits, start, len)
                  ELSE len - CountSet(bits, start, len)
-----------------------------------------------------------------------------
\* What find_next_range_of_unset_bits promises for a range of len bits
\* (BitmapSearch shows that its loop keeps the promise): the first free range at
\* or after `from`, except that a word without set bits is looked at from its
\* first bit, and so is an incomplete last word.
SearchFrom(bits, from) ==
    LET word == from - (from % bit_size)
    IN  IF \/ word + bit_size > m_size
           \/ \A b \in Span(word, bit_size) : b \notin bits
        THEN word ELSE from

FreeRange_NoEnd(bits, start, len) ==
    \A b \in Span(start, len) : b \notin bits

FreeRange(bits, start, len) ==
    /\ start + len <= m_size
    /\ \A b \in Span(start, len) : b \notin bits

IsFirstFree(bits, from, len, start) ==
    /\ start \in SearchFrom(bits, from) .. m_size - 1
    /\ FreeRange(bits, start, len)
    /\ \A b \in SearchFrom(bits, from) .. start - 1 : ~FreeRange(bits, b, len)

NoneFree(bits, from, len) ==
    \A b \in SearchFrom(bits, from) .. m_size - 1 : ~FreeRange(bits, b, len)
=============================================================================
