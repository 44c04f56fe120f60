------------------------------ MODULE MCConcolic ------------------------------
(***************************************************************************)
(* Small programs for the concolic search.                                 *)
(***************************************************************************)
EXTENDS Concolic

C(site, side) == [site |-> site, side |-> side]

MCSides == [a |-> {0, 1, 2}, b |-> {0, 1}, c |-> {0, 1, 2}, d |-> {0, 1}]

\* A dispatch, a check in two steps, and a loop (site d) the input leaves when it likes.
MCPath ==
    <<<<C("a", 0)>>,
      <<C("a", 1), C("b", 0)>>,
      <<C("a", 1), C("b", 1), C("c", 0)>>,
      <<C("a", 1), C("b", 1), C("c", 1)>>,
      <<C("a", 2), C("d", 0)>>,
      <<C("a", 2), C("d", 1), C("d", 0)>>,
      <<C("a", 2), C("d", 1), C("d", 1), C("d", 0)>>,
      <<C("a", 2), C("d", 0)>>>>

MCEnding ==
    <<"returned", "returned", "returned", "goal", "returned", "unsupported", "goal", "returned">>

\* No goal lies behind the first side of b.
MCCanReach(conditions) == \A k \in 1..Len(conditions) : conditions[k] # C("b", 0)

\* The solver may give up on the check and on the loop.
MCHard == {<<C("a", 1), C("b", 1)>>, <<C("a", 1), C("b", 1), C("c", 1)>>,
           <<C("a", 2)>>, <<C("a", 2), C("d", 1)>>}
=============================================================================
