------------------------------ MODULE MCPageApi ------------------------------
(* Instances of PageApi.tla for TLC. *)
EXTENDS PageApi

CONSTANTS c1, c2

Calm == [ops |-> [c \in Clients |-> {}], pages |-> 3, scanning |-> FALSE,
         diskFails |-> FALSE, crashes |-> FALSE]

\* Requests for each of the two clients.
Both(first, second) == [c \in Clients |-> IF c = c1 THEN first ELSE second]

\* One client reorders and deletes, and the server is killed in between.
Interrupted == {[Calm EXCEPT !.ops = Both({"reorder", "deletePage"}, {}),
                             !.pages = 4, !.crashes = TRUE]}

\* One client changes a scan while calls fail and the server is killed, and one
\* changes a scan whose saves fail while it goes on; two edit and delete one that
\* is still being scanned; one deletes pages that another one reorders and
\* reads; two delete, turn and read the same pages.
AllScenes == Interrupted \cup
             {[Calm EXCEPT !.ops = Both({"rotate", "deletePage", "deleteScan"}, {}),
                           !.diskFails = TRUE, !.crashes = TRUE],
              [Calm EXCEPT !.ops = Both({"rename", "deletePage"}, {}),
                           !.scanning = TRUE, !.diskFails = TRUE],
              [Calm EXCEPT !.ops = Both({"deletePage", "deleteScan"},
                                        {"rename", "rotate"}),
                           !.pages = 2, !.scanning = TRUE],
              [Calm EXCEPT !.ops = Both({"deletePage"},
                                        {"reorder", "combine", "export", "getPage"})],
              [Calm EXCEPT !.ops = Both({"deletePage", "rotate"}, {"deletePage", "combine"}),
                           !.pages = 2]}

TwoDeleters == {[Calm EXCEPT !.ops = Both({"deletePage"}, {"deletePage"})]}
RenameInScan == {[Calm EXCEPT !.ops = Both({"rename"}, {}), !.pages = 1, !.scanning = TRUE]}
RenamesAndDeletes == {[Calm EXCEPT !.ops = [c \in Clients |-> {"rename", "deletePage"}],
                                   !.pages = 2]}
=============================================================================
