---------------------------- MODULE MCFixStream ----------------------------
EXTENDS FixStream
MCTags == {"8", "9", "10", "35", "x"}
MCOtherNumbers == ("s" :> 67)
MCDefs == (<<"s">> :> <<>>)
MCFields == {Field("35", <<"s">>), Field("x", <<>>)}
=============================================================================
