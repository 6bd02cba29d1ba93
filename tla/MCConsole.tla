----------------------------- MODULE MCConsole ------------------------------
(* The console on a small screen: see Console.cfg. *)
EXTENDS Console

\* No output, and a line as wide as the screen, which wraps before it ends
MCOutputs == {<<>>, [i \in 1 .. Width + 1 |->
                        IF i <= Width THEN "o" ELSE "\n"]}
=============================================================================
