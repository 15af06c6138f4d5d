--------------------------- MODULE MCHttpSession ---------------------------
(* HttpSession with given peers.                                           *)
EXTENDS HttpSession

(* Requests as pairs of a line and a header. *)
Of(pairs) ==
  [i \in DOMAIN pairs |-> [line |-> pairs[i][1], header |-> pairs[i][2]]]

Peer_(pairs, cut, trouble) ==
  [requests |-> Of(pairs), cut |-> cut, trouble |-> trouble]

(* Five pipelined requests; a body that never comes; a header without its  *)
(* value; methods nobody knows; everything that may go wrong, with whole   *)
(* requests and in every segmentation; and lines that pass for others.     *)
Varied ==
  {Peer_(<<<<"GET", "k">>, <<"HEAD", "h">>, <<"GET :", "h file">>,
           <<"GET no file", "h">>, <<"GET", "h">>>>, FALSE, {}),
   Peer_(<<<<"HEAD", "k">>, <<"GET", "h no file">>, <<"POST", "h">>>>,
         FALSE, {}),
   Peer_(<<<<"GET", "h">>, <<"GET", "h empty">>>>, FALSE, {}),
   Peer_(<<<<"PUT", "h">>, <<"PUT", "k">>>>, FALSE, {}),
   Peer_(<<<<"GET", "k">>, <<"HEAD", "h">>, <<"GET empty file", "h">>>>,
         FALSE, Troubles),
   Peer_(<<<<"HEAD", "h file">>, <<"GET empty file", "h no file">>,
           <<"POST", "h">>>>, TRUE, Troubles),
   Peer_(<<<<"GET :", "h empty">>, <<"HEAD", "k">>>>, TRUE, {}),
   Peer_(<<<<"GET :", "h file">>, <<"PUT", "h">>>>, TRUE, {"short"})}

Segmented == {Peer_(<<<<"GET", "h">>, <<"GET", "h">>>>, TRUE, {})}

Slow == {Peer_(<<<<"GET", "h">>, <<"GET", "h">>>>, FALSE, {"short"})}
=============================================================================
