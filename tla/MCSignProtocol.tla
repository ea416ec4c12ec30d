--------------------------- MODULE MCSignProtocol ---------------------------
(* Lengths around the chunk of 230 bytes and the piece of 256.              *)
EXTENDS SignProtocol

SomeSizes == {[path |-> p, tx |-> t, change |-> c] :
                p \in {38, 230}, t \in {231, 460}, c \in {3, 230}}
SomeRawLens == {256, 257, 600, 2049}
SomeShorts == {1, 255}
=============================================================================
