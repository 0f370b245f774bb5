----------------------------- MODULE ContentSet -----------------------------
(***************************************************************************)
(* What the block-checksum table promises its users: a set of block       *)
(* contents to which the construction adds each remote block's content    *)
(* (or, past the collision cap, does not), and from which a match claims  *)
(* and removes exactly the matched content, so that no content is claimed *)
(* twice and no other content is lost.                                     *)
(***************************************************************************)
CONSTANT Contents
VARIABLES stored, claimed

Init == stored = {} /\ claimed = {}

Add(c) == stored' \in {stored \cup {c}, stored} /\ UNCHANGED claimed

Claim(c) ==
  /\ c \in stored /\ c \notin claimed
  /\ stored' = stored \ {c}
  /\ claimed' = claimed \cup {c}

Next == \E c \in Contents : Add(c) \/ Claim(c)

Spec == Init /\ [][Next]_<<stored, claimed>>
=============================================================================
