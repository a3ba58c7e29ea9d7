------------------------------- MODULE MCWebApp -------------------------------
(* Instances of WebApp.tla for TLC. *)
EXTENDS WebApp

CONSTANTS j1, j2

Base == [scans |-> {j1, j2}, does |-> {}, ordered |-> FALSE, slow |-> FALSE, failures |-> 0,
         calls |-> 3]

\* Looking at pages and editing them; picking pages; acting on scans, with
\* answers in order and in any order; scanning, with polls that are slow or not.
AllScenes == {[Base EXCEPT !.does = {"select", "open", "edit", "deletePage"}, !.scans = {j1},
                           !.failures = 1],
              [Base EXCEPT !.does = {"select", "open", "edit", "deletePage"}, !.calls = 2],
              [Base EXCEPT !.does = {"select", "open", "deletePage", "toggle", "combine"},
                           !.scans = {j1}, !.failures = 1],
              [Base EXCEPT !.does = {"select", "open", "deletePage", "rename", "reorder",
                                     "deleteJob"}, !.ordered = TRUE],
              [Base EXCEPT !.does = {"select", "rename", "reorder", "deleteJob"},
                           !.failures = 1, !.calls = 2],
              [Base EXCEPT !.does = {"start", "select"}, !.scans = {}, !.slow = TRUE,
                           !.failures = 1, !.calls = 2],
              [Base EXCEPT !.does = {"start", "select", "deleteJob"}, !.scans = {},
                           !.failures = 1, !.calls = 2]}
=============================================================================
