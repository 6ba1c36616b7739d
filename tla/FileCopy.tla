------------------------------ MODULE FileCopy ------------------------------
(***************************************************************************)
(* What a DCC file transfer promises (abstract): a file is copied block by *)
(* block.  The copy begins with nothing or with a part that is there       *)
(* already, from then on it only grows, by the blocks that come next, and  *)
(* either side may call it done only when the copy is whole.               *)
(***************************************************************************)
EXTENDS Naturals, Sequences

VARIABLES whole,      \* the number of blocks of the file; it never changes
          copy,       \* the blocks in the destination file
          begun,      \* the receiver has opened it
          receiver,   \* "busy", "done", "failed", "removed"
          sender

vars == <<whole, copy, begun, receiver, sender>>

(* The beginnings of the file, and those that go on after n blocks. *)
Blocks(n) == [i \in 1..n |-> i]
From(n) == {Blocks(m) : m \in n..whole}

Init ==
    /\ whole \in Nat
    /\ copy = <<>> /\ begun = FALSE /\ receiver = "busy" /\ sender = "busy"

(* The receiver opens the file, if it has not yet, and writes what comes   *)
(* next, perhaps up to the last block.                                     *)
Write ==
    /\ receiver = "busy" /\ begun' = TRUE
    /\ copy' \in From(IF begun THEN Len(copy) ELSE 0)
    /\ receiver' \in {"busy"} \cup (IF Len(copy') = whole THEN {"done"} ELSE {})
    /\ UNCHANGED <<whole, sender>>

(* The receiver gives up, before or after it has opened the file. *)
ReceiverFails ==
    /\ receiver = "busy" /\ receiver' = "failed"
    /\ \/ UNCHANGED <<begun, copy>>
       \/ ~begun /\ begun' = TRUE /\ copy' \in From(0)
    /\ UNCHANGED <<whole, sender>>

SenderFails == sender = "busy" /\ sender' = "failed" /\ UNCHANGED <<whole, copy, begun, receiver>>

(* The sender may believe that the file was received only when it was. *)
SenderDone ==
    /\ sender = "busy" /\ begun /\ Len(copy) = whole
    /\ sender' = "done"
    /\ UNCHANGED <<whole, copy, begun, receiver>>

(* The user takes a finished transfer off the list. *)
Remove ==
    /\ \/ receiver \in {"done", "failed"} /\ receiver' = "removed" /\ UNCHANGED sender
       \/ sender \in {"done", "failed"} /\ sender' = "removed" /\ UNCHANGED receiver
    /\ UNCHANGED <<whole, copy, begun>>

Next == Write \/ ReceiverFails \/ SenderFails \/ SenderDone \/ Remove

Spec == Init /\ [][Next]_vars
=============================================================================
