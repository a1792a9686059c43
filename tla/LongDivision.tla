---------------------------- MODULE LongDivision -----------------------------
(* TLC's integers have 32 bits: a product that is divided at once is written *)
(* as a long division.  d is what is known of the quotient, and the rest.    *)
EXTENDS Integers

(* Two more bits of the quotient.                                            *)
Digit(d, c) == [q |-> 4 * d.q + ((4 * d.r) \div c), r |-> (4 * d.r) % c]

TwoDigits(d, c) == Digit(Digit(d, c), c)
FourDigits(d, c) == TwoDigits(TwoDigits(d, c), c)
==============================================================================
