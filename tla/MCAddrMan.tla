----------------------------- MODULE MCAddrMan -----------------------------
(***************************************************************************)
(* Instances of AddrMan for TLC.                                           *)
(***************************************************************************)
EXTENDS AddrMan

CONSTANTS h1, h2, h3, h4, near, far

FourHosts == {h1, h2, h3, h4}
ThreeHosts == {h1, h2, h3}
OnePort == FourHosts \X {1}
TwoPorts == {<<h1, 1>>, <<h1, 2>>, <<h2, 1>>, <<h3, 1>>}

\* What a source says of a host lands in bucket 1 or 2.
BucketsOf(hosts) ==
    [h \in hosts |-> IF h = h1 THEN (near :> 1) @@ (far :> 2)
                                ELSE (near :> 2) @@ (far :> 1)]
NewBucketsFour == BucketsOf(FourHosts)
NewBucketsThree == BucketsOf(ThreeHosts)

\* One tried bucket for all, so that it fills.
TriedOnePort == [s \in OnePort |-> 1]
TriedTwoPorts == [s \in TwoPorts |-> 1]

\* The hosts other than h1 play the same part.
SymmetryFour == Permutations({h2, h3, h4})
SymmetryThree == Permutations({h2, h3})
=============================================================================
