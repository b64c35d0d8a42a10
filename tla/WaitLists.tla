----------------------------- MODULE WaitLists ------------------------------
(***************************************************************************)
(* The kernel's list_head as the code uses it for messages, sleeping        *)
(* receivers and sleeping senders: add at the tail, delete anywhere, walk   *)
(* from the head.  A list is the sequence of its elements.                  *)
(***************************************************************************)
EXTENDS Naturals, Sequences, Functions

\* list_del of every element of S.
Without(s, S) ==
  LET W[i \in 0 .. Len(s)] ==
        IF i = 0 THEN << >>
        ELSE IF s[i] \in S THEN W[i - 1] ELSE Append(W[i - 1], s[i])
  IN  W[Len(s)]

\* list_del of the element at position i.
DropAt(s, i) ==
  [j \in 1 .. Len(s) - 1 |-> IF j < i THEN s[j] ELSE s[j + 1]]
=============================================================================
