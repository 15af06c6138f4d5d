----------------------------- MODULE MCLogging -----------------------------
(* Logging with the sizes of LogStream.h for a line, and a kLargerBuffer   *)
(* that a few lines fill.                                                  *)
EXTENDS Logging

Says(level, body) ==
  [level |-> level, body |-> body, file |-> 8, digits |-> 2]

(* Statements whose line has the given length. *)
Warns(length) == Says("WARN", <<Text(length - 46)>>)

(* Lines of which a buffer of 5000 holds one or two, ... *)
Rotating == <<Warns(2000), Warns(3500), Warns(1000), Warns(3500), Warns(2000),
              Warns(2500), Warns(3500), Warns(1000)>>

(* ... and two that fill it exactly. *)
Filling == <<Warns(3000), Warns(2000), Warns(1000)>>

(* Lines near the end of their own buffer: without a line number, without  *)
(* their text, without room for a newline, with a double at the end.       *)
Overlong == <<Says("DEBUG", <<Text(3940)>>),
              Says("DEFAULT", <<Text(3999), NullText, Flag>>),
              Says("ERROR", <<Text(3969)>>),
              Says("ERROR", <<Text(3940), Double(17), Double(17)>>),
              Says("WARN", <<Integer(10), Text(3890), Double(20)>>)>>

All == {Rotating, Filling, Overlong}
OnlyRotating == {Rotating}

LineLengths ==
  {Line(s).cur : s \in UNION {ToSet(each) : each \in All}}
=============================================================================
