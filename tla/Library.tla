------------------------------ MODULE Library ------------------------------
(***************************************************************************)
(* What converting promises of the files of the library, whoever converts  *)
(* and wherever it is cut short: of each one, the release is on disk, then *)
(* a remux of it, then a remux of that, and none of them ever goes away.   *)
(***************************************************************************)
EXTENDS Naturals

CONSTANT Lib    \* library paths

VARIABLE kept   \* what is on disk of each, under its name or as .original

Newest(f, c) == c \in kept[f] /\ \A d \in kept[f] : d[2] <= c[2]

Init == kept = [f \in Lib |-> {<<f, 0>>}]

\* One more remux, of the newest file there is.
Convert(f) ==
    \E c \in kept[f] :
        /\ Newest(f, c)
        /\ kept' = [kept EXCEPT ![f] = @ \union {<<f, c[2] + 1>>}]

Next == \E f \in Lib : Convert(f)

Spec == Init /\ [][Next]_kept
=============================================================================
