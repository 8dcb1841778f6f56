---------------------------- MODULE MCRegression ----------------------------
(* Constants of Regression for TLC. *)
EXTENDS Regression

MCScripts == {"cfg", "gen", "tb", "fcov", "merge", "regr"}
Ran(log) == [open |-> TRUE, uvm |-> log, trace |-> <<"instr", "ecall">>]

\* A simulation that passes, one that reports an error, one that ends by its
\* own clock, and one whose trace is empty.
MCOutcomes ==
  {Ran(<<"passed", "error">>), Ran(<<"error", "failed">>), Ran(<<"timeout", "failed">>),
   [Ran(<<"passed">>) EXCEPT !.trace = <<"ecall">>]}
FewOutcomes == {Ran(<<"passed", "error">>), Ran(<<"error", "failed">>)}
=============================================================================
