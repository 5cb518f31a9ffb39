--------------------------- MODULE MCAsyncRequest ---------------------------
(***************************************************************************)
(* Operations and handles for the model checking of AsyncRequest.          *)
(***************************************************************************)
EXTENDS AsyncRequest

CONSTANTS o1, o2, o3, a, b, c
=============================================================================
