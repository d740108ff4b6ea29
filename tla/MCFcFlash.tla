----------------------------- MODULE MCFcFlash ------------------------------
(* FcFlash on a small instance: two firmware bodies for one of two boards, *)
(* the other board too small for them, two chunks to an image; and uploads *)
(* that the slot must not accept, one whose length is no whole number of   *)
(* words and one above the limit.                                          *)
EXTENDS FcFlash, TLC

CONSTANTS A, B, Odd, Big

Symmetry == Permutations({A, B})

MCData    == {A, B, Odd, Big}
MCUploads == { [data |-> A,   size |-> 4, board |-> 1],
               [data |-> B,   size |-> 4, board |-> 1],
               [data |-> Odd, size |-> 6, board |-> 1],
               [data |-> Big, size |-> 8, board |-> 1] }
MCFlashSize == [b \in {1, 2} |-> 6 - b]

(* One firmware body and one board: for liveness, and for longer queues.   *)
OneData      == {A}
OneUpload    == { [data |-> A, size |-> 4, board |-> 1] }
OneFlashSize == [b \in {1} |-> 5]
=============================================================================
