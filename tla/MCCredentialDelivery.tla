------------------------ MODULE MCCredentialDelivery ------------------------
(* Instances of CredentialDelivery.                                         *)
EXTENDS CredentialDelivery, TLC

Symmetry == {f @@ g : f \in Permutations(Users), g \in Permutations(Senders)}

\* Once sweeps have overlapped, only one player is followed and nothing is cut
\* short as well.
OneTrouble == overlapped => Cardinality(confirmed) <= 1 /\ ~upset
=============================================================================
