------------------------------ MODULE MCKDSearch ------------------------------
(***************************************************************************)
(* Trees over up to five features of two numbers each, so that both are    *)
(* used to divide and equal values occur at every depth, and over seven    *)
(* and thirteen, for which a median takes two and three groups of five: in *)
(* every order a quadratic polynomial gives, with and without equal values.*)
(***************************************************************************)
EXTENDS KDSearch

Descriptors(values) == [1..2 -> values]
ByPolynomial(n) ==
    {[j \in 1..n |-> <<(a * j * j + b * j) % n, 0>>] : a \in 0..(n - 1), b \in 0..(n - 1)}
MCFeatureArrays ==
    UNION ({[1..n -> Descriptors(0..2)] : n \in 1..3}
             \union {[1..n -> Descriptors(0..1)] : n \in 4..5}
             \union {ByPolynomial(n) : n \in {7, 13}})
MCQueries == {<<0, 0>>, <<1, 1>>, <<0, 2>>, <<1, 3>>}
=============================================================================
