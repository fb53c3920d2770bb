------------------------------- MODULE Filters -------------------------------
(***************************************************************************)
(* The loops that go over a list and keep what passes a test, or append    *)
(* what each element brings, as they are written all over the services     *)
(* (append in Go, a comprehension in the scripts, slices.DeleteFunc).      *)
(* The test is a set and the loop a recursive function, so that theorems   *)
(* can be stated about it (the provers know nothing of SelectSeq).         *)
(***************************************************************************)
EXTENDS Naturals, Sequences

\* The elements of s that are in T, in their order.
Filter(s, T) ==
    LET kept[i \in 0 .. Len(s)] ==
            IF i = 0 THEN <<>>
            ELSE IF s[i] \in T THEN Append(kept[i - 1], s[i]) ELSE kept[i - 1]
    IN  kept[Len(s)]

\* The lists of ss, one after the other.
Joined(ss) ==
    LET upTo[i \in 0 .. Len(ss)] == IF i = 0 THEN <<>> ELSE upTo[i - 1] \o ss[i]
    IN  upTo[Len(ss)]
=============================================================================
