-------------------------------- MODULE Zlib --------------------------------
(***************************************************************************)
(* sample-tools/impl/zlib_impl.h: compress and uncompress into a buffer    *)
(* whose size is guessed and doubled as long as zlib says it is too small. *)
(* Data is its length; what zlib returns is external.                      *)
(***************************************************************************)
EXTENDS Integers

compressBound(n) == n + n \div 4096 + n \div 16384 + n \div 33554432 + 13

Attempts == 20

(* What zlib does with a buffer: needed is the length of the result, -1    *)
(* for data that is not compressed data.                                   *)
zlib(needed, size) ==
  IF needed = -1 THEN "Z_DATA_ERROR" ELSE IF needed > size THEN "Z_BUF_ERROR" ELSE "Z_OK"

(* Mutant: the buffer is tried again without growing. *)
Result_NoGrowth(needed, size) == zlib(needed, size)

(* The result of the last attempt.                                         *)
Result(needed, size) ==
  LET attempt[i \in 1..Attempts] ==
        LET result == zlib(needed, size * 2^(i - 1))
        IN IF result = "Z_BUF_ERROR" /\ i < Attempts THEN attempt[i + 1] ELSE result
  IN attempt[1]

(* The length of the result, 0 for the empty string.                       *)
Run(length, needed) ==
  IF length # 0 /\ Result(needed, compressBound(length + 1024)) = "Z_OK" THEN needed ELSE 0

Compress(length, compressed) == Run(length, compressed)
Uncompress(length, original) == Run(length, original)
=============================================================================
