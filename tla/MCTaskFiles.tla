------------------------------ MODULE MCTaskFiles ------------------------------
EXTENDS TaskFiles

NoneAndOne == <<NoName, "p">>
TwoTitles == <<"A", "B">>
=============================================================================
