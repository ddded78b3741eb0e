-------------------------------- MODULE MCApp --------------------------------
EXTENDS App

MCNames == {"a", "b"}
MCNameOrder == <<"a", "b">>
=============================================================================
