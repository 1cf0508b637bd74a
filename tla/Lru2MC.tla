------------------------------- MODULE Lru2MC -------------------------------
(* A small instance of Lru2 for TLC. *)
EXTENDS Lru2, Bitwise

(* The keys compete for the first bucket; the loops over the buckets have a *)
(* second one to go to.                                                     *)
FirstBucket == [k \in Keys |-> 0]

(* maskOfNextPowOf2 in 16 bits, and the number of buckets made of it. *)
MaskOfNextPowOf2(cap) ==
  LET fill(c, shift) == c | shiftR(c, shift)
  IN  IF cap > 0 /\ cap & (cap - 1) = 0 THEN cap - 1
      ELSE fill(fill(fill(fill(cap, 1), 2), 4), 8)

BucketCount(cap) == (MaskOfNextPowOf2(cap) + 1) % 2^16

(* It is the least power of two that holds cap, as NBuckets is taken to be, *)
(* up to 2^15; above, mask + 1 is no uint16 and no bucket is made at all.   *)
ASSUME MaskIsNextPowOf2 ==
  \A cap \in 1..300 \cup {2^k + d : k \in 9..15, d \in {-1, 0, 1}} :
    IF cap <= 2^15
    THEN /\ BucketCount(cap) \in {2^k : k \in 0..15}
         /\ cap <= BucketCount(cap) /\ BucketCount(cap) < 2 * cap
    ELSE BucketCount(cap) = 0
=============================================================================
