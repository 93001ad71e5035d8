----------------------------- MODULE MCConfiguring -----------------------------
(* Configuring with the day-of-week fields the translations treat differently: every day, a
   list with Sunday by both its numbers, a range that ends in 7, and a step beside a day. *)
EXTENDS Configuring, MCWizard

Span(a, b) == [star |-> FALSE, first |-> a, last |-> b, step |-> 1]

MCFields ==
  {{Star}, {Plain(0), Plain(7), Plain(3)}, {Span(5, 7)}, {[Star EXCEPT !.step = 2], Plain(1)}}
MCSymmetry == WizardSymmetry \union Permutations(Tab)
=============================================================================
