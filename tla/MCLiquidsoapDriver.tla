------------------------- MODULE MCLiquidsoapDriver -------------------------
(* Replies for the model checker: none of them contains the end marker or  *)
(* a NUL byte in CleanBodies; a title that ends in END, and a NUL byte, in *)
(* the other two.                                                          *)
EXTENDS LiquidsoapDriver

CleanBodies == {<<>>, <<"text">>, <<"text", "text", "text", "text">>}

EndInTitleBodies == {<<"endline">>, <<"text">>}

NulBodies == {<<"nul">>, <<"text">>}
=============================================================================
