-------------------------------- MODULE MCSh --------------------------------
(* Sh with command lines that nest pipes, lists, redirections.             *)
EXTENDS Sh

Entered ==
  {<<>>, <<"a">>, <<"a", "&">>, <<"(", "a">>, <<"a", "|", "a">>, <<"a", "|", "a", "&">>,
   <<"a", "|", "a", "|", "a">>, <<"a", "|", "(", "a", "&", ")">>, <<"(", "a", ";", "a", ")", "|", "a">>,
   <<"a", "<", "a", "|", "a", ">", "a", ">", "a">>}
=============================================================================
