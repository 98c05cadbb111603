------------------------------ MODULE MCMeasure ------------------------------
(* An instance of Measure for TLC.  The words are of four, two and no CJK    *)
(* characters; "ui" is too short for the trigram index, and occurs in "d"    *)
(* inside of a longer token only; "e" has one of its words behind the        *)
(* snippet.  The questions take every route: words of four characters, of    *)
(* two, both, ASCII with an operator, ASCII with CJK white space.            *)
EXTENDS Measure

MCCjk    == [w \in Word |-> CASE w = "long" -> 4 [] w = "two" -> 2 [] OTHER -> 0]
MCLength == [w \in Word |-> CASE w = "long" -> 4 [] w \in {"two", "ui", "OR"} -> 2 [] OTHER -> 6]
MCWithin == [t \in Text |-> CASE t = "a" -> {"long", "ui"} [] t = "b" -> {"two", "deploy"}
                              [] t = "c" -> {"long", "two"} [] t = "d" -> {"deploy", "ui"}
                              [] t = "e" -> {"two", "long", "OR"}]
MCWhole  == [t \in Text |-> CASE t = "a" -> {"ui"} [] t = "b" -> {"deploy"} [] t = "c" -> {}
                              [] t = "d" -> {"deploy"} [] t = "e" -> {"OR"}]
MCSnippet == [MCWithin EXCEPT !["e"] = {"two"}]
MCItem == 1..5
MCKnowledge == <<"a", "b", "c", "d", "e">>
MCQuestion == <<Asks(<<"long", "ui">>, 0), Asks(<<"two">>, 0), Asks(<<"two", "long">>, 0),
                Asks(<<"deploy", "OR", "ui">>, 0), Asks(<<"deploy", "OR", "ui">>, 3)>>
MCExpected == <<"long", "two", "two", "deploy", "long">>
MCSnippetChars == [t \in Text |-> CASE t = "a" -> 20 [] t = "d" -> 240 [] OTHER -> 120]
MCSessions == <<40, 90, 300>>
MCEvent == [kind : {"search", "route"}, baseline : {0, 50}, mem4 : {0, 20, 45, 70}]
===============================================================================
