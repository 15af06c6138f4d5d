----------------------------- MODULE LogStream -----------------------------
(***************************************************************************)
(* LogStream and Logger: how one log statement becomes one line.  A piece  *)
(* is what one operator<< is given: how it is formatted is left out, its   *)
(* kind and length, which decide whether it gets into the line's buffer,   *)
(* are kept.                                                               *)
(***************************************************************************)
EXTENDS Naturals, Sequences, SequencesExt

CONSTANTS
  SmallBuffer,        \* kSmallBuffer
  NumericSize         \* kMaxNumericSize

ASSUME StreamAssumption ==
  SmallBuffer \in Nat \ {0} /\ NumericSize \in 1 .. SmallBuffer

LB == INSTANCE FixedBuffer WITH Size <- SmallBuffer

Text(len) == [kind |-> "text", len |-> len]       \* const char*, std::string
NullText == Text(6)                               \* a null const char*
Char(c) == [kind |-> c, len |-> 1]
Flag == Char("bool")
Integer(digits) == [kind |-> "integer", len |-> digits]
Double(digits) == [kind |-> "double", len |-> digits]

(* What a statement may add: snprintf keeps a double within NumericSize.   *)
Addable ==
  [kind : {"text", "bool", "integer", "colon", "newline"}, len : Nat]
    \cup [kind : {"double"}, len : 0 .. NumericSize - 1]

NumberFits_NoReserve(b) == TRUE

(* A number is only formatted if the widest one would fit. *)
NumberFits(b) == LB!Avail(b) >= NumericSize

(* operator<<: a double is formatted in the buffer itself. *)
Insert(b, piece) ==
  CASE piece.kind = "double" ->
         IF NumberFits(b) THEN LB!Add(b, piece, piece.len) ELSE b
    [] piece.kind = "integer" ->
         IF NumberFits(b) THEN LB!Put(b, piece, piece.len) ELSE b
    [] OTHER -> LB!Put(b, piece, piece.len)
-----------------------------------------------------------------------------
(* Logger: the time, the level, what the statement adds, where it stands.  *)
FormatTime == Text(20)

Tag(level) == Text(IF level \in {"DEBUG", "WARN", "ERROR"} THEN 10 ELSE 11)

Statements == [level : STRING, body : Seq(Addable), file : Nat, digits : Nat]

Header(level) == <<FormatTime, Tag(level)>>

Newline == Char("newline")

Trailer(statement) ==
  <<Text(4), Text(statement.file), Char("colon"), Integer(statement.digits),
    Newline>>

Pieces(statement) ==
  Header(statement.level) \o statement.body \o Trailer(statement)

(* The buffer that ~Logger hands to output(). *)
Line(statement) == FoldLeft(Insert, LB!Empty, Pieces(statement))

TotalLength(pieces) == FoldLeft(LAMBDA n, p : n + p.len, 0, pieces)
=============================================================================
