---------------------------- MODULE FixedBuffer ----------------------------
(***************************************************************************)
(* FixedBuffer<SIZE> of LogStream.h: what was put in it, in order, and how *)
(* many of its bytes that takes.                                           *)
(***************************************************************************)
EXTENDS Integers, Sequences

CONSTANT Size

Empty == [data |-> <<>>, cur |-> 0]

Avail(b) == Size - b.cur

(* add: the caller has written to current() and knows that it fits. *)
Add(b, d, len) == [data |-> Append(b.data, d), cur |-> b.cur + len]

(* append: what would fill the buffer exactly, or more, is not put in. *)
Put(b, d, len) == IF Avail(b) > len THEN Add(b, d, len) ELSE b
=============================================================================
