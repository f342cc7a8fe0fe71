----------------------------- MODULE MCConsole -----------------------------
(* Console for TLC: two processes and four uses of the terminal.           *)
EXTENDS Console

CONSTANTS p1, p2

MCProc == {p1, p2}
MCSig == {2, 9, 17}
MCFatal == {2, 9}

Caught(m) == [handler |-> "fn", restorer |-> TRUE, mask |-> m]

Cooked == [isig |-> TRUE, icanon |-> TRUE, echo |-> TRUE]
Raw == [Cooked EXCEPT !.icanon = FALSE, !.echo = FALSE, !.isig = FALSE]

AllDefault == [p \in MCProc |-> [s \in MCSig |-> Default]]

\* Two programs read lines that are edited at the keyboard.
Editing ==
  [term |-> Cooked, fg |-> {}, actions |-> AllDefault, handlers |-> {},
   keys |-> {"ctrl", "u", "backspace", "enter", "e0", "arrow", "shift", "caps"}, bytes |-> {"x", "cr", "del"},
   calls |-> {"read", "nonblock"}, catch |-> {}, masks |-> {}, tunes |-> {}, switch |-> "never", terms |-> {}, groups |-> {}, keymax |-> 6]

\* A shell that catches Ctrl-C and polls, and a program that does not.
Interrupting ==
  [term |-> Cooked, fg |-> MCProc,
   actions |-> [AllDefault EXCEPT ![p1][2] = Caught({})], handlers |-> {},
   keys |-> {"ctrl", "c", "enter"}, bytes |-> {"nl", "intr"},
   calls |-> {"read", "poll"}, catch |-> {}, masks |-> {}, tunes |-> {}, switch |-> "never", terms |-> {}, groups |-> {}, keymax |-> 4]

\* An editor: raw mode, a character at a time, back to lines when done.
Editor ==
  [term |-> Raw, fg |-> {}, actions |-> AllDefault, handlers |-> {},
   keys |-> {"c", "ctrl", "e0", "arrow"}, bytes |-> {"cr"},
   calls |-> {"read", "setpgrp"}, catch |-> {}, masks |-> {}, tunes |-> {}, switch |-> "drained", terms |-> {Raw, Cooked}, groups |-> {{}, MCProc}, keymax |-> 3]

\* Signals between processes.
Signals ==
  [term |-> Cooked, fg |-> {}, actions |-> [AllDefault EXCEPT ![p1][17] = Caught({})],
   handlers |-> {Caught({}), Caught({9, 17})},
   keys |-> {}, bytes |-> {}, calls |-> {"pause", "kill"},
   catch |-> {2}, masks |-> {{2, 9}}, tunes |-> {p1}, switch |-> "never", terms |-> {}, groups |-> {}, keymax |-> 4]

MCSetups == {Editing, Interrupting, Editor, Signals}

\* A line is edited after Ctrl-C.
EraseAfterIntr ==
  {[Interrupting EXCEPT !.keys = {"ctrl", "c", "backspace"}]}

\* A program pauses in the foreground.
PauseForeground ==
  {[Interrupting EXCEPT !.calls = {"pause"}]}

Gaps == EraseAfterIntr \cup PauseForeground

=============================================================================
