------------------------------ MODULE MCYuckGen ------------------------------
(***************************************************************************)
(* Calls of yuck: code, header and code, man pages with includes, and the  *)
(* intermediary alone.  m4's text does not fit in the pipe.                *)
(***************************************************************************)
EXTENDS YuckGen

Call(cmd, args, header, includes, output, keep) ==
  [cmd |-> cmd, args |-> args, header |-> header, includes |-> includes, output |-> output, keep |-> keep]
MCCalls == {Call("gen", <<"a">>, FALSE, <<>>, "stdout", FALSE),
            Call("gen", <<"a", "b">>, TRUE, <<>>, "file", FALSE),
            Call("genman", <<"a">>, FALSE, <<"i", "j">>, "file", FALSE),
            Call("genman", <<"a">>, FALSE, <<"i">>, "stdout", TRUE),
            Call("gendsl", <<"a", "b">>, FALSE, <<>>, "file", FALSE)}
MCTemp == <<"t1", "t2">>
MCText == <<<<"h", "STX", "SO">>, <<"c", "ETX", "SI", "c">>>>
=============================================================================
