------------------------------ MODULE SheetFeed ------------------------------
(***************************************************************************)
(* What the scan loop expects of a driver.Session (internal/driver): sheets*)
(* come one at a time and in the order they lie in the feeder, the session *)
(* reports the end of the batch only when no sheet is left, and an error   *)
(* ends it at any time.                                                    *)
(***************************************************************************)
EXTENDS Naturals

CONSTANT Sheets  \* sheets in the feeder when the session is opened

VARIABLES delivered,  \* sheets handed to the caller
          outcome     \* "open" until HasNextPage says no or a call fails

Init == delivered = 0 /\ outcome = "open"

Deliver == /\ outcome = "open"
           /\ delivered < Sheets
           /\ delivered' = delivered + 1
           /\ UNCHANGED outcome

End == /\ outcome = "open"
       /\ outcome' \in {"failed"} \cup (IF delivered = Sheets THEN {"completed"} ELSE {})
       /\ UNCHANGED delivered

Next == Deliver \/ End

Spec == Init /\ [][Next]_<<delivered, outcome>>
==============================================================================
