---------------------------- MODULE MCNodeStreams ----------------------------
(***************************************************************************)
(* Up to four requests for NodeStreams; two of them have one timestamp.    *)
(***************************************************************************)
EXTENDS NodeStreams

TwoReq  == {"a", "b"}
FourReq == {"a", "b", "c", "d"}

Stamps == [q \in Req |-> CASE q = "a" -> 1 [] q = "b" -> 2 [] OTHER -> 3]
=============================================================================
