-------------------------- MODULE MCScannerSession --------------------------
(* Instances of ScannerSession.tla for TLC. *)
EXTENDS ScannerSession

Trouble(kinds, left) == [kinds |-> kinds, left |-> left]

\* One fault more than makes Command give up; then every other kind.
AllTroubles == {Trouble({"write", "busy", "jam"}, 5), Trouble({"soft", "busy", "jam"}, 4),
                Trouble({"write", "read", "soft"}, 4), Trouble({"read", "split", "pulled"}, 3),
                Trouble({"busy", "bare"}, 3), Trouble({"write", "muddle", "busy"}, 3)}

OneFailedRead == {Trouble({"read"}, 1)}
=============================================================================
