--------------------------- MODULE MCTerminalPort ---------------------------
(***************************************************************************)
(* Small instances of TerminalPort for TLC.                                *)
(***************************************************************************)
EXTENDS TerminalPort

\* An editor, a stop by the shell and a mouse preference in sessions of their
\* own, since some of their crossings end a session (README, findings).
OneOf(kind) == [may |-> {kind, "redraw", "dies"}, stimuli |-> 2, draws |-> 1, inputs |-> 0, busy |-> 0, late |-> TRUE]
Kinds3 == {"composer_edit", "stop", "mouse"}

\* Each with two draws; or alone, with input while a port is busy, or with a
\* port that is busy twice; an edit of a setting that no frame crosses; and an
\* edit that crosses a stop.
OneAtATime ==
  {[OneOf(kind) EXCEPT !.draws = 2] : kind \in Kinds3}
  \cup {[OneOf(kind) EXCEPT !.stimuli = 1, !.inputs = 1, !.busy = 1] : kind \in Kinds3}
  \cup {[OneOf(kind) EXCEPT !.stimuli = 1, !.busy = 2] : kind \in Kinds3}
  \cup {[OneOf("settings_edit") EXCEPT !.draws = 0, !.busy = 1]}
  \cup {[OneOf("stop") EXCEPT !.may = {"composer_edit", "stop"}]}

SettingsEdits == {[may |-> {"settings_edit"}, stimuli |-> 1, draws |-> 2, inputs |-> 0, busy |-> 0, late |-> FALSE]}
EditAndPreference == {[may |-> {"composer_edit", "mouse"}, stimuli |-> 2, draws |-> 1, inputs |-> 0, busy |-> 0, late |-> FALSE]}
=============================================================================
