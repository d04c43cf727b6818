--------------------------- MODULE MCCryptoStream ---------------------------
(***************************************************************************)
(* Plaintexts up to one byte more than is allowed, and what becomes of     *)
(* their containers when they are cut, extended, mixed or relabelled.      *)
(***************************************************************************)
EXTENDS CryptoStream

CONSTANTS k1, k2, k3

\* A private key of the legacy suite 2 may belong to either of two KEMs; k3 is foreign.
KeysOf == [s \in Suite |-> IF s = 1 THEN <<k1>> ELSE <<k1, k2>>]

Plain == {[i \in 1..n |-> <<(i + b) % 2>>] : n \in 0..MaxFileBytes + 1, b \in {0, 1}}

Intact ==
    {Sealed(k1, s, p) : s \in Suite, p \in Plain}
    \cup {Sealed(k2, 2, p) : p \in {q \in Plain : Len(q) = MaxFileBytes}}
    \cup {Sealed(k3, 1, p) : p \in {q \in Plain : Len(q) = MaxFileBytes}}

Sample == Sealed(k1, 1, [i \in 1..MaxFileBytes |-> <<i % 2>>])

Damaged ==
    {SubSeq(Sample, 1, n) : n \in 0..Len(Sample) - 1}
    \cup {Append(Sample, Sample[Len(Sample)])}
    \cup {HeaderOf(2) \o SubSeq(Sample, 3, Len(Sample)), <<<<3>>>> \o Sample, <<<<0>>>> \o Sample}
    \cup {[Sample EXCEPT ![2] = <<0>>], [Sample EXCEPT ![3] = Garbage]}

Stored == Intact \cup Damaged
=============================================================================
