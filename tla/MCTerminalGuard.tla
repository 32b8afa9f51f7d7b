--------------------------- MODULE MCTerminalGuard ---------------------------
(* The scenarios TLC checks TerminalGuard on: each combines a few of the   *)
(* things that may happen, and together they pair most of them.            *)
EXTENDS TerminalGuard

Quiet == [flags |-> {"alt", "paste"}, commands |-> 0, stops |-> 0, hiccups |-> 0, outsiders |-> {}]
All == [Quiet EXCEPT !.flags = Flags]

MCScenarios ==
    {[Quiet EXCEPT !.commands = 2],
     [Quiet EXCEPT !.commands = 1, !.hiccups = 1],
     [Quiet EXCEPT !.stops = 1, !.commands = 1],
     [All EXCEPT !.hiccups = 2],
     [All EXCEPT !.commands = 1, !.outsiders = {"vanish"}],
     [Quiet EXCEPT !.stops = 1, !.outsiders = {"terminate"}],
     [Quiet EXCEPT !.commands = 1, !.outsiders = {"close"}],
     [Quiet EXCEPT !.flags = {}, !.commands = 1, !.hiccups = 1, !.outsiders = {"terminate"}],
     [Quiet EXCEPT !.flags = {}, !.stops = 2],
     [Quiet EXCEPT !.flags = {}, !.stops = 1, !.hiccups = 1, !.outsiders = {"close"}],
     [Quiet EXCEPT !.commands = 1, !.outsiders = {"die"}],
     [Quiet EXCEPT !.hiccups = 1, !.outsiders = {"die", "close"}]}

\* The helper is stopped and continued once, and nothing else happens.
ContinueScenarios == {[Quiet EXCEPT !.stops = 1]}
=============================================================================
