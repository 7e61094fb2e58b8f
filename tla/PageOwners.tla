----------------------------- MODULE PageOwners -----------------------------
(***************************************************************************)
(* What a page allocator promises its callers: whoever asks for n pages is *)
(* given n pages in a row that nobody else has, and has them, the same     *)
(* ones, until giving them back.                                           *)
(***************************************************************************)
EXTENDS Integers

CONSTANTS
  MaxPage,  \* pages there may be
  Sizes     \* page counts asked for

VARIABLE owned  \* the page runs handed out

Run(p, n) == p .. p + n - 1

Init == owned = {}

Grant(n) ==
  \E p \in 0 .. MaxPage - n :
    /\ \A o \in owned : o \cap Run(p, n) = {}
    /\ owned' = owned \cup {Run(p, n)}

GiveBack == \E o \in owned : owned' = owned \ {o}

Next == (\E n \in Sizes : Grant(n)) \/ GiveBack

Spec == Init /\ [][Next]_owned
=============================================================================
