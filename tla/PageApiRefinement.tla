-------------------------- MODULE PageApiRefinement --------------------------
(***************************************************************************)
(* One client at a time and nothing failing, PageApi.tla implements        *)
(* PageDoc.tla: from one quiet moment to the next, whatever happens to     *)
(* meta.json and to the page files in between, the scan a client sees      *)
(* changes by one abstract operation or not at all.                        *)
(***************************************************************************)
EXTENDS PageApi

VARIABLE doc   \* history: the scan as it could be seen at the last quiet moment

\* What GET /scans/{id} and GET /scans/{id}/pages/{n} show of the scan.
View == [i \in DOMAIN meta.body.pages |->
           LET content == files[File(meta.body.pages[i].file)]
           IN  [img |-> content.img, turned |-> content.turned]]

SpecWithView == /\ Init /\ doc = View
                /\ [][Next /\ doc' = IF Quiet' THEN View' ELSE doc]_<<vars, doc>>

Abstract == INSTANCE PageDoc

\* Each request, seen as a whole, is one operation of PageDoc.tla.
ImplementsPageDoc == Abstract!Spec

\* What a reading request sends are the pages that the abstract document has
\* where the record lists the numbers asked for, each complete and turned as it
\* is there, in the order asked for.
Asked(c) == IF loc[c].want = <<>> THEN <<loc[c].n>> ELSE loc[c].want
ServesDocument ==
  \A c \in Clients : pc[c] = "serve" =>
    /\ Len(loc[c].got) = Len(Asked(c))
    /\ \A k \in DOMAIN loc[c].got : \E i \in DOMAIN doc :
         /\ loc[c].body.pages[i].index = Asked(c)[k]
         /\ doc[i] = [img |-> loc[c].got[k].img, turned |-> loc[c].got[k].turned]
         /\ ~loc[c].got[k].torn
=============================================================================
