---------------------------- MODULE MCKHashTable ----------------------------
(***************************************************************************)
(* KHashTable with the DJB2 hashes of one-letter keys.  DJB2 shifts left,  *)
(* adds and xors, so the low bits of the hash depend on low bits only:     *)
(* KH_Hash computes it modulo 2^HashBits, which is exact for every table   *)
(* of at most 2^HashBits slots.                                            *)
(***************************************************************************)
EXTENDS KHashTable, SequencesExt, Bitwise

HashBits == 10

KH_Hash(buffer) ==
    FoldLeft(LAMBDA hash, byte : ((32 * hash + hash) % 2^HashBits) ^^ byte, 5381 % 2^HashBits, buffer)

\* In a table of 8 slots "a" and "i" start at slot 4, "h" at slot 5, and "b"
\* and "j" at the last slot, so that the second of them wraps around.
Byte == "a" :> 97 @@ "b" :> 98 @@ "h" :> 104 @@ "i" :> 105 @@ "j" :> 106
HashMixed == "a" :> 452 @@ "b" :> 455 @@ "h" :> 461 @@ "i" :> 460
HashWrap == "b" :> 455 @@ "h" :> 461 @@ "j" :> 463

\* Nothing reads ret: states that differ in it only go on in the same way, and the
\* properties look at it after a step only, which TLC does for each step it takes.
WithoutRet == <<dictVars, pc, resizeVars, live>>

ASSUME HashesAreDJB2 ==
    /\ \A k \in DOMAIN HashMixed : HashMixed[k] = KH_Hash(<<Byte[k]>>)
    /\ \A k \in DOMAIN HashWrap : HashWrap[k] = KH_Hash(<<Byte[k]>>)

\* KH_BlobStartingIndexForSize and the step of the probe sequence mask with
\* size - 1; StartingIndex and Probe take the remainder.
ASSUME MaskIsRemainder ==
    \A e \in 0..5 : \A h \in 0..127 :
        LET n == 2^e
        IN  /\ (h & (n - 1)) = StartingIndex(h, n)
            /\ \A i \in 0..(n - 1) : ((h % n) + i) & (n - 1) = Probe(h % n, i, n)
==============================================================================
