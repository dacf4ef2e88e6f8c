------------------------- MODULE MCBookingLifecycle -------------------------
(* Instances of BookingLifecycle for TLC.                                  *)
EXTENDS BookingInvariant, TLC

(* A confirmed booking may be cancelled.                                   *)
Cancellations == {<<"CONFIRMED", "CANCELLED">>}

(* A payment may start, and a booking may fail or be refunded.             *)
Payments == {<<"INITIATED", "PENDING_PAYMENT">>, <<"PENDING_PAYMENT", "FAILED">>,
             <<"CONFIRMED", "REFUNDED">>}

Symmetry == Permutations(Workers) \cup Permutations(Ids \ Legacy)
              \cup Permutations(Keys) \cup Permutations(Refs)
=============================================================================
