------------------------------ MODULE MCLinks ------------------------------
(***************************************************************************)
(* Instances of Links for TLC: one phone, two sockets it may open and one  *)
(* dial of ours.                                                           *)
(***************************************************************************)
EXTENDS Links, TLC

CONSTANTS phone, i1, i2, i3, o1, certA, certB

\* Every link authenticates as the phone.
MCDevOf == [l \in Links |-> phone]

\* Every link presents the phone's certificate ...
SameCert == [l \in Links |-> certA]

\* ... or the second socket presents a renewed one.
TwoCerts == [l \in Links |-> IF l = i2 THEN certB ELSE certA]

\* Accepted sockets with the same certificate are interchangeable.
InSymmetry == Permutations(InLinks)
=============================================================================
