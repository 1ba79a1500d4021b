--------------------------- MODULE MCPromptBridge ---------------------------
(* A workflow of two stages and a few prompts between them.                *)
EXTENDS PromptBridge, TLC

CONSTANTS c1, c2, p1, sub

TwoStages == <<"01_draft", "02_review">>
Forwards == {<<1, 2>>}
Plain == {<<"report">>}
Dotted == {<<"report", "v2">>}
=============================================================================
