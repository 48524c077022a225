---------------------------- MODULE RingCounters ----------------------------
(***************************************************************************)
(* The arithmetic of the PCM rings: cursors that grow without end in an    *)
(* unsigned integer of Wrap values, slots of a buffer of Capacity samples  *)
(* (src/backend/plugins/alsa-output/src/ring.rs, and the copy of it in     *)
(* web-audio).  Both numbers are powers of two there; what the ring needs  *)
(* is that the slots do not jump when a cursor wraps.                      *)
(***************************************************************************)
EXTENDS Integers

CONSTANTS Capacity, Wrap

ASSUME CounterAssumption ==
  /\ Capacity \in Nat \ {0}
  /\ Wrap \in Nat /\ Wrap > Capacity /\ Wrap % Capacity = 0

Cursor == 0..(Wrap - 1)
Slots  == 0..(Capacity - 1)

\* Mutant: addition without wrapping.
WrappingAddPlain(a, n) == a + n

\* wrapping_add(), wrapping_sub(), and `& mask`.
WrappingAdd(a, n) == IF a + n < Wrap THEN a + n ELSE a + n - Wrap
WrappingSub(a, b) == IF b <= a THEN a - b ELSE a - b + Wrap
Slot(p)           == p % Capacity

Smaller(a, b) == IF a <= b THEN a ELSE b
=============================================================================
