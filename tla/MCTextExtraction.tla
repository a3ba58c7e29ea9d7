--------------------------- MODULE MCTextExtraction ---------------------------
(* Instances of TextExtraction.tla for TLC. *)
EXTENDS TextExtraction

\* Sheets with ink in places: none, the front, one pixel and two of the rear.
Inks == {{}, {<<1, 0, 0>>, <<1, 0, 1>>, <<3, 0, 0>>}, {<<2, 0, 1>>}, {<<2, 0, 0>>, <<4, 0, 1>>}}
Sheets == {[duplex |-> d, stripes |-> n, ink |-> i] : d \in BOOLEAN, n \in 0 .. 4, i \in Inks}
Square == [duplex |-> TRUE, stripes |-> 4, ink |-> {<<2, 0, 1>>, <<4, 0, 0>>}]
Oblong == [Square EXCEPT !.stripes = 5]

Nothing == [sheets |-> {}, degrees |-> {}, ints |-> {}, edits |-> 0, pages |-> {},
            requests |-> {}, crashes |-> 0]
WideInts == -4 .. 3
Limit == <<1, 2>>

\* Every kind of sheet; every sequence of a few edits; two requests while the
\* front is turned.
AllScenes == {[Nothing EXCEPT !.sheets = Sheets],
              [Nothing EXCEPT !.sheets = {Oblong}, !.degrees = {90, 180, 270},
                              !.ints = WideInts, !.edits = 3, !.pages = {1}],
              [Nothing EXCEPT !.sheets = {Square}, !.degrees = {90}, !.edits = 1,
                              !.pages = {1}, !.requests = {1, 2}, !.crashes = 1]}
===============================================================================
