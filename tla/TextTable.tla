------------------------------ MODULE TextTable ------------------------------
(***************************************************************************)
(* What an interner promises, without buffers, pointers or a hash map: a   *)
(* list of texts, each in it once, that only ever grows at its end.  A     *)
(* token is the place of a text in the list, counted from 0.               *)
(***************************************************************************)
EXTENDS Naturals, Sequences

CONSTANT Texts

VARIABLE names

Init == names = <<>>

\* A text that is not in the list yet is put at its end.
Add(text) ==
  /\ \A i \in DOMAIN names : names[i] # text
  /\ names' = Append(names, text)

Next == \E text \in Texts : Add(text)

Spec == Init /\ [][Next]_names
=============================================================================
