------------------------------ MODULE MCDelivery ------------------------------
(* Delivery with named slots.                                              *)
EXTENDS Delivery

CONSTANTS s1, s2
=============================================================================
