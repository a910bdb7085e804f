----------------------------- MODULE PairOracle -----------------------------
(***************************************************************************)
(* What a price oracle reads from the pair.  The reference is the time     *)
(* integral of the spot price, summed second by second; the pair only      *)
(* touches its accumulators when its reserves change, at most once per     *)
(* block, in wrapping arithmetic.                                          *)
(***************************************************************************)
EXTENDS Pair

VARIABLES
  integral,        \* sum over all past seconds of the spot price, wrapped
  untouched        \* seconds since the reserves were last recorded; it stays
                   \* at TimeModulus once the pair missed a turn of its clock

ovars == <<vars, integral, untouched>>

SpotPrice(t) ==
  IF reserve[0] # 0 /\ reserve[1] # 0 THEN Price(reserve[Other(t)], reserve[t]) ELSE 0

OInit ==
  /\ Init
  /\ integral = [t \in Token |-> 0]
  /\ untouched = 0

(* The reserves recorded now hold until the next second.                   *)
OTick ==
  /\ Tick
  /\ integral' = [t \in Token |-> (integral[t] + SpotPrice(t)) % UintModulus]
  /\ untouched' = Min(untouched + 1, TimeModulus)

ORecording ==
  /\ Recording
  /\ untouched' = IF untouched < TimeModulus THEN 0 ELSE untouched
  /\ UNCHANGED integral

ONotRecording == NotRecording /\ UNCHANGED <<integral, untouched>>

ONext == OTick \/ ORecording \/ ONotRecording
OSpec == OInit /\ [][ONext]_ovars

(* Extrapolated to the present, the accumulators are the integral of the   *)
(* spot price, through every wrap of the clock and of the accumulators, as *)
(* long as the pair was never left alone for a whole turn of its 32-bit *)
(* clock: so the difference of two readings is the time-weighted price.    *)
(* Readings are taken between transactions.                                *)
AccumulatorIsIntegral ==
  untouched < TimeModulus =>
    \A t \in Token :
      (priceCumulative[t] + SpotPrice(t) * TimeElapsed) % UintModulus = integral[t]
=============================================================================
