----------------------------- MODULE RandomIter -----------------------------
(***************************************************************************)
(* RandomIterSource and RandomGenerator::gen_iter: the order in which a    *)
(* search visits the workers.  From a random start, the index advances by  *)
(* a stride that is coprime with the number of workers.  The generator     *)
(* itself is any start.                                                    *)
(***************************************************************************)
EXTENDS Naturals

Coprime(a, b) == \A d \in 2 .. b : ~(a % d = 0 /\ b % d = 0)

(* The candidates that pass both filters of RandomIterSource::from; the    *)
(* unwrap after them panics if there is none.                              *)
Candidates(range) ==
  {p \in (range \div 2) .. (range - 1) : Coprime(p, range) /\ p # 0}

(* The range is reversed, so that the first candidate is the largest.      *)
Prime(range) ==
  CHOOSE p \in Candidates(range) : \A q \in Candidates(range) : q <= p

(* One call of the closure of gen_iter.  An index that reaches the range   *)
(* wraps around; a subtraction is enough, for the stride is smaller.       *)
AdvanceOff(range, prime, index) ==
  IF index + prime > range THEN index + prime - range ELSE index + prime

Advance(range, prime, index) ==
  IF index + prime >= range THEN index + prime - range ELSE index + prime

(* The indices that the iterator yields, from a start in 0 .. range - 1.   *)
GenIter(range, start) ==
  LET prime == Prime(range)
      index[n \in 0 .. range] ==
        IF n = 0 THEN start ELSE Advance(range, prime, index[n - 1])
  IN  {index[n] : n \in 1 .. range}

(* The source can be made for every number of workers except one, and a    *)
(* search of `range` steps visits all of them, hence each of them once.    *)
VisitsAll(range) ==
  /\ Candidates(range) # {} <=> range # 1
  /\ range # 1 =>
       \A start \in 0 .. range - 1 : GenIter(range, start) = 0 .. range - 1
=============================================================================
