--------------------------- MODULE MCKeyDerivation ---------------------------
(* The seeds that come closest to a clash: one that repeats the domain of    *)
(* the scalars, one that ends like the bytes of a dependent's secret, and    *)
(* an ordinary one.                                                         *)
EXTENDS KeyDerivation

Repeating ==
    [i \in 1 .. 32 |-> NostrDomain[((i - 1) % Len(NostrDomain)) + 1]]

EndsInDomain ==
    [i \in 1 .. 32 |->
        IF i <= 17 THEN Repeating[i] ELSE DependentDomain[i - 17]]

MCSeed == { Repeating, EndsInDomain, [i \in 1 .. 32 |-> i] }

\* Two indices that differ in their second byte alone.
MCIndex == {1, 257}

=============================================================================
