------------------------------- MODULE PageDoc -------------------------------
(***************************************************************************)
(* What one scan is to the people who use it, according to the comments of *)
(* the handlers: a sequence of pages, each an image that may have been     *)
(* turned.  Every request that changes it does one thing to it: turn one   *)
(* page in place (edit_handlers.go:96), take one page out and close the    *)
(* gap (scan_handlers.go:261), put the pages in another order without      *)
(* touching them (scan_handlers.go:164), or delete the whole scan.         *)
(***************************************************************************)
EXTENDS Naturals, Sequences, Functions

CONSTANT PageLimit

VARIABLE doc   \* the pages, or <<>> once the scan is deleted

Init == doc = [i \in 1 .. PageLimit |-> [img |-> i, turned |-> FALSE]]

Turn(i) == doc' = [doc EXCEPT ![i].turned = ~@]

Delete(i) == doc' = [k \in 1 .. Len(doc) - 1 |-> IF k < i THEN doc[k] ELSE doc[k + 1]]

Reorder == \E order \in Bijection(DOMAIN doc, DOMAIN doc) :
             doc' = [i \in DOMAIN doc |-> doc[order[i]]]

DeleteAll == doc' = <<>>

Next == \/ \E i \in DOMAIN doc : Turn(i) \/ Delete(i)
        \/ Reorder
        \/ DeleteAll

Spec == Init /\ [][Next]_doc
=============================================================================
