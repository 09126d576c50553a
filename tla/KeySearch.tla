----------------------------- MODULE KeySearch ------------------------------
(***************************************************************************)
(* What searches for keys promise: the candidates are tried one after the  *)
(* other, all of them, and what is printed is the good ones among those    *)
(* that have been tried.  Another search may then begin.                   *)
(***************************************************************************)
EXTENDS Naturals

VARIABLES
  count,    \* the candidates are 0 .. count - 1
  good,     \* the candidates that must be found
  next, printed

vars == <<count, good, next, printed>>

Fresh == good \subseteq 0 .. count - 1 /\ next = 0 /\ printed = {}

Try ==
  /\ next < count
  /\ next' = next + 1
  /\ printed' = printed \union ({next} \intersect good)
  /\ UNCHANGED <<count, good>>

AnotherSearch == next = count /\ Fresh'

Next == Try \/ AnotherSearch

\* What is printed is right; and the search goes on to its end.
Promise == Fresh /\ [][Next]_vars
Spec == Promise /\ WF_vars(Try)
=============================================================================
