---------------------------- MODULE MCYuckParse -----------------------------
(***************************************************************************)
(* Parsers as those of the programs here, without commands, and of yuck    *)
(* itself, with commands: the command c takes a value for its own -f.      *)
(***************************************************************************)
EXTENDS YuckParse

Opt(of, short, long, type) == [cmd |-> of, short |-> short, long |-> long, type |-> type]
Common == {Opt(None, "f", <<"f">>, "flag"), Opt(None, "v", <<"v">>, "arg"),
           Opt(None, "o", <<"o">>, "arg_opt"), Opt(None, "h", <<"h">>, "auto"),
           Opt(None, "", <<"a">>, "arg"), Opt(None, "", <<"r">>, "flag")}
Plain    == Common \cup {Opt(None, "m", <<"m">>, "arg_mul")}
Commands == Common \cup {Opt(<<"c">>, "f", <<"f">>, "arg_mul"), Opt(<<"c">>, "u", <<"u">>, "arg_mul_opt")}

Parser(commands, options, max, allow) ==
  [commands |-> commands, options |-> options, max_posargs |-> max, allow_dash |-> allow]
MCParsers == {Parser({}, Plain, 9, FALSE), Parser({}, Plain, 1, TRUE),
              Parser({<<"c">>}, Commands, 9, FALSE), Parser({<<"c">>}, Commands, 9, TRUE)}

MCArguments == {<<"c">>, <<"w">>, <<"-">>, <<"-", "-">>, <<"-", "f">>, <<"-", "v">>,
                <<"-", "f", "v", "w">>, <<"-", "f", "5">>, <<"-", "f", "c">>, <<"-", "5">>, <<"-", "o">>, <<"-", "u">>,
                <<"-", "-", "f">>, <<"-", "-", "f", "=", "w">>, <<"-", "-", "a">>, <<"-", "h">>}
=============================================================================
