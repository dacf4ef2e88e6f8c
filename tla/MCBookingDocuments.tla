------------------------- MODULE MCBookingDocuments -------------------------
(* Instances of BookingDocuments for TLC: two bookings that can be pinned, *)
(* and so compete for the numbers, and a legacy one that never is.         *)
EXTENDS BookingDocuments, TLC

CONSTANTS b1, b2, b3, k1, k2, r1, r2

(* Which key and which reference a booking gets is shown by no document.   *)
KeyOf == b1 :> k1 @@ b2 :> k2 @@ b3 :> NoKey

RefOf == b1 :> r1 @@ b2 :> r2 @@ b3 :> NoRef

(* What no document shows or asks about is left at one value: the key, the *)
(* reference, the lock, a partial pin, a supplier recorded before the      *)
(* booking is confirmed (an issue cannot tell that from one recorded just  *)
(* after), the statuses that are neither INITIATED, CONFIRMED nor          *)
(* CANCELLED, and a change of the legacy booking.  A supplier comes to one  *)
(* of the two bookings only.                                               *)
Plain ==
  \A b \in Ids :
    /\ bookings[b].key \in {NoKey, KeyOf[b]}
    /\ bookings[b].ref \in {NoRef, RefOf[b]}
    /\ fxLocks[b] = "NONE"
    /\ pins[b] # Truth!Unpinned => pins[b].components /\ pins[b].policy
    /\ bookings[b].supplier => pins[b] # Truth!Unpinned
    /\ bookings[b].status \in {"ABSENT", "INITIATED", "CONFIRMED", "CANCELLED"}
    /\ b # b1 => ~bookings[b].supplier
    /\ b = b3 => bookings[b].status # "CANCELLED"
=============================================================================
