----------------------------- MODULE MCReachability -----------------------------
(***************************************************************************)
(* A program of five functions for the analyses and the walk.              *)
(***************************************************************************)
EXTENDS Reachability

Plain == [goal |-> FALSE, target |-> "none", callee |-> 1]
Goal == [Plain EXCEPT !.goal = TRUE]
Call(f) == [Plain EXCEPT !.target = "function", !.callee = f]
Through(target) == [Plain EXCEPT !.target = target]

B(body, ends, to) == [body |-> body, ends |-> ends, to |-> to]
Unused == B(<<>>, "stop", {})

\* main branches to a call that cannot come back, to a tail call and to a table; the
\* second and third function call each other, and the goal is in the last one to be
\* analysed, so that a second pass is needed.
MCProgram ==
    <<[b \in Blocks |->
         CASE b = 0 -> B(<<Plain>>, "goto", {1, 2, 4})
           [] b = 1 -> B(<<Call(4)>>, "goto", {3})
           [] b = 2 -> B(<<Call(2), Through("import")>>, "table", {1, 3})
           [] b = 3 -> B(<<Plain>>, "return", {})
           [] b = 4 -> B(<<Call(5)>>, "goto", {3, 5})
           [] b = 5 -> B(<<Goal>>, "return", {})],
      [b \in Blocks |->
         CASE b = 0 -> B(<<>>, "goto", {1, 2, 4})
           [] b = 1 -> B(<<Call(3)>>, "tail", {})
           [] b = 2 -> B(<<Through("import")>>, "tail", {})
           [] b = 4 -> B(<<>>, "goto", {4})
           [] OTHER -> Unused],
      [b \in Blocks |->
         CASE b = 0 -> B(<<>>, "goto", {1, 2, 3})
           [] b = 1 -> B(<<Call(2)>>, "return", {})
           [] b = 2 -> B(<<Goal>>, "stop", {})
           [] b = 3 -> B(<<Through("import")>>, "return", {})
           [] OTHER -> Unused],
      [b \in Blocks |->
         CASE b = 0 -> B(<<Plain>>, "goto", {1, 2})
           [] b = 1 -> B(<<Call(4)>>, "goto", {0})
           [] b = 2 -> B(<<>>, "stop", {})
           [] OTHER -> Unused],
      [b \in Blocks |->
         CASE b = 0 -> B(<<>>, "goto", {1, 2, 3})
           [] b = 1 -> B(<<Through("unresolved")>>, "return", {})
           [] b = 2 -> B(<<Through("import")>>, "tail", {})
           [] b = 3 -> B(<<>>, "unresolved", {})
           [] OTHER -> Unused]>>
=============================================================================
