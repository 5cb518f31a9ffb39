------------------------------- MODULE VizLog -------------------------------
(***************************************************************************)
(* What the ranks of a SERVIZ instance promise together: they run one      *)
(* common sequence of visualizations, each request at most once, and no    *)
(* rank starts a visualization before all the others have started the one  *)
(* before it.  There are no queues, no handlers and no collectives here.   *)
(***************************************************************************)
EXTENDS Naturals, Sequences

CONSTANTS Rank, Req

VARIABLE ran    (* ran[r]: the requests rank r has begun to visualize        *)

Init == ran = [r \in Rank |-> <<>>]

\* Rank r is not ahead of any other, and follows those that are ahead of it.
Run(r, q) ==
  LET n == Len(ran[r])
  IN  /\ \A k \in 1..n : ran[r][k] # q
      /\ \A s \in Rank : Len(ran[s]) >= n
      /\ \A s \in Rank : Len(ran[s]) > n => ran[s][n + 1] = q
      /\ ran' = [ran EXCEPT ![r] = Append(@, q)]

Next == \E r \in Rank, q \in Req : Run(r, q)

Spec == Init /\ [][Next]_ran
=============================================================================
