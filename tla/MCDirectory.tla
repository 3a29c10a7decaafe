---------------------------- MODULE MCDirectory ----------------------------
(***************************************************************************)
(* Three people: the first administrator, another Google identity that     *)
(* presents his address, and one who signs in under two addresses of his   *)
(* own.                                                                    *)
(***************************************************************************)
EXTENDS Directory, TLC

CONSTANTS dev, bossMail

MCAddressesOf == [p \in People |-> IF p = dev THEN Emails \ {bossMail} ELSE {bossMail}]

\* The requests, and the ids that are not the first administrator's, are
\* interchangeable.
Symmetry == Permutations(Requests) \cup Permutations(Accounts \ {Root})

=============================================================================
