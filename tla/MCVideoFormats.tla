--------------------------- MODULE MCVideoFormats ---------------------------
(* Instances of VideoFormats for TLC. *)
EXTENDS VideoFormats

Cea(n)  == [cea |-> 1, nr |-> n]
Vesa(n) == [cea |-> 0, nr |-> n]

\* A screen without an extension, and others with one.
Plain == [base |-> {Vesa(9)}, extension |-> "none", audio |-> FALSE,
          blocks |-> <<>>, tooLong |-> 0, est3 |-> {}, std9 |-> <<>>]
Tv    == [Plain EXCEPT !.extension = "cea", !.audio = TRUE,
                       !.blocks = <<{Cea(4)}, {Cea(34)}>>]
Long  == [Tv EXCEPT !.base = {}, !.tooLong = 2]
Std   == [Plain EXCEPT !.extension = "cea", !.base = {}, !.est3 = {Cea(4)},
                       !.std9 = <<Vesa(16), Vesa(9)>>]
Other == [Plain EXCEPT !.extension = "other"]

MCSinks       == {Plain, Tv, Long, Std, Other}
MCHwLists     == {<<Cea(34), Cea(4), Vesa(9)>>, <<Vesa(9)>>}
MCStdModes    == {Vesa(9)}
MCPrioLists   == {<<Cea(4), NoFormat>>, <<Cea(3), Cea(5)>>,
                  <<Cea(3), Cea(5), Cea(3), Cea(5), Vesa(9)>>}
MCDefault     == <<Cea(3), Vesa(9), Cea(34)>>
MCResolutions == {Vesa(16)}

=============================================================================
