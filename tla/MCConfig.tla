------------------------------ MODULE MCConfig ------------------------------
(***************************************************************************)
(* Values of Config's constants for TLC.  Of the digits somebody writes 1; *)
(* the 0 is the one a printed float begins with.  A name that is a digit   *)
(* tells a line without its end.                                           *)
(***************************************************************************)
EXTENDS Config

MCWritten == {<<"a">>, <<" ">>, <<"\n">>, <<"=">>, <<"1">>, <<".">>, <<"\"">>, <<"\\">>, True}
MCNames == {<<"a">>, <<"1">>}
MCSettings == {[type |-> "long", text |-> <<"1">>], [type |-> "bool", text |-> True],
               [type |-> "float", text |-> <<".", "1">>]}
=============================================================================
