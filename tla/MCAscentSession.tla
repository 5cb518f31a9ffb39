--------------------------- MODULE MCAscentSession ---------------------------
(***************************************************************************)
(* Programs of two clients for the model checking of AscentSession: the    *)
(* one of examples/client.cpp, and the four calls of an Ascent session.    *)
(***************************************************************************)
EXTENDS AscentSession

Separate == <<"open", "publish", "execute", "close">>
Twice    == <<"open", "publish_and_execute", "publish_and_execute", "close">>

TwiceAndOnce == [c \in Clients |-> IF c = 1 THEN Twice ELSE Separate]

\* One stream or two, with clients that take turns or overlap.
AllRegimes == [streams : {1, 2}, turns : BOOLEAN]
=============================================================================
