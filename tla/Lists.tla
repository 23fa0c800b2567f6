------------------------------- MODULE Lists --------------------------------
(***************************************************************************)
(* The loop that goes through a slice of Go and appends what passes a test *)
(* to a new one, `for ... { if ... { out = append(out, x) } }`.  It is     *)
(* SelectSeq with the test given as a set, spelled out so that its result  *)
(* can be reasoned about.                                                  *)
(***************************************************************************)
EXTENDS Naturals, Sequences

(* The elements of the sequence s that are in S, in their order. *)
Kept(s, S) ==
    LET kept[n \in 0 .. Len(s)] ==
            IF n = 0 THEN << >>
            ELSE IF s[n] \in S THEN Append(kept[n - 1], s[n]) ELSE kept[n - 1]
    IN  kept[Len(s)]
=============================================================================
