---------------------------- MODULE MCReporting ----------------------------
(* An instance of Reporting: the lines that make a difference to the parser. *)
EXTENDS Reporting

MCLines == {<<"blank", "">>, <<"event", "e">>, <<"data", "x">>, <<"data", "[DONE]">>}
=============================================================================
