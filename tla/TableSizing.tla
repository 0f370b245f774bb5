---------------------------- MODULE TableSizing ----------------------------
(***************************************************************************)
(* The size of the block-checksum hash table (pnetlibs.c): the first     *)
(* number accepted by psync_is_prime when searching upward from           *)
(* ((blockcnt+1)/2)*6+1 through the numbers that are 1 or 5 modulo 6.    *)
(***************************************************************************)
EXTENDS Naturals

(* Mutant of TrialDivision: the loop stops before i * i = num.         *)
RECURSIVE TrialDivision_SquareOff(_, _)
TrialDivision_SquareOff(num, i) ==
  IF i * i >= num THEN TRUE
  ELSE IF num % i = 0 THEN FALSE
  ELSE TrialDivision_SquareOff(num, i + 2)

(* psync_is_prime: trial division by the odd numbers from 5; the callers *)
(* only pass numbers that are 1 or 5 modulo 6.                             *)
RECURSIVE TrialDivision(_, _)
TrialDivision(num, i) ==
  IF i * i > num THEN TRUE
  ELSE IF num % i = 0 THEN FALSE
  ELSE TrialDivision(num, i + 2)
IsPrime(num) == TrialDivision(num, 5)

(* The size search of psync_net_create_hash: from ((blockcnt+1)/2)*6+1    *)
(* alternately add 4 and 2 until psync_is_prime accepts.                   *)
RECURSIVE SizeSearch(_)
SizeSearch(c) ==
  IF IsPrime(c) THEN c
  ELSE IF IsPrime(c + 4) THEN c + 4
  ELSE SizeSearch(c + 6)
TableSize(blockcnt) == SizeSearch(((blockcnt + 1) \div 2) * 6 + 1)

=============================================================================
