--------------------------- MODULE MCStreamMapper ---------------------------
(* Two sessions on the event stream; a delta is empty or says hello. *)
EXTENDS StreamMapper

MCTexts == {<<>>, <<"hello">>}
=============================================================================
