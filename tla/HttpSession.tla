---------------------------- MODULE HttpSession ----------------------------
(***************************************************************************)
(* One HTTP connection: HttpData::handleRead with parseURL, parseHeaders,  *)
(* analysisRequest, handleWrite and handleConn, against a peer that sends  *)
(* the bytes of some requests in segments of its choice.                   *)
(*                                                                         *)
(* The bytes are tokens: what is in a line, of which the parser sees no    *)
(* more than its blanks, its colons and the words between them, "cr" and   *)
(* "lf".  A line is never looked at before its end is there, so a segment  *)
(* that ends inside one is as good as one that ends behind its token.  A   *)
(* response is its "head" (or "kept", a head that grants keep-alive) and   *)
(* its "body", numbered by how many there were before; what the handler    *)
(* passes to write() may be taken whole, in part or not at all.            *)
(* isKeepAlive_ only chooses the length of a timeout.                      *)
(* handleRead is one action per stage; its recursion on pipelined input is *)
(* the way back from "end" to "read".                                      *)
(*                                                                         *)
(* An operator named X_Y is X with the defect Y: the properties below have *)
(* to tell it from X.                                                      *)
(***************************************************************************)
EXTENDS Naturals, Sequences, FiniteSets, SequencesExt

CONSTANT Scenarios          \* what the peer and the network may be like

(* A short write, a failed write, the peer's close, the idle timer. *)
Troubles == {"short", "reset", "eof", "expire"}

(* GET of a file, of one with a colon in its URL, of no file, of an empty  *)
(* file, which mmap refuses; HEAD and POST; a method unknown to parseURL.  *)
RequestLines ==
  {"GET", "GET :", "GET no file", "GET empty file", "HEAD", "POST", "PUT"}

(* A header with one word for its value; the one that asks for keep-alive; *)
(* two words, the first of which leads, as a URL, to a file or to none; no *)
(* value, not even a blank.                                                *)
HeaderLines == {"h", "k", "h file", "h no file", "h empty"}

(* Lines that have two blanks, as parseURL wants it, and lines that have a *)
(* colon, as parseHeaders does.                                            *)
TwoBlanks == RequestLines \cup {"h file", "h no file"}
Colons == HeaderLines \cup {"GET :"}

RequestKinds == [line : RequestLines, header : HeaderLines]

(* requests: what the peer requests, in order; cut: may a segment end      *)
(* inside a request?  trouble: what else may happen.                       *)
ASSUME SessionAssumption ==
  Scenarios \subseteq
    [requests : Seq(RequestKinds), cut : BOOLEAN, trouble : SUBSET Troubles]

VARIABLE scenario           \* chosen once

Requests == scenario.requests
Trouble == scenario.trouble

(* What the peer sends: a request line, one header, an empty line, each. *)
Message(request) ==
  <<request.line, "cr", "lf", request.header, "cr", "lf", "cr", "lf">>
Stream == FlattenSeq([i \in DOMAIN Requests |-> Message(Requests[i])])

SegmentEnds ==
  IF scenario.cut THEN DOMAIN Stream
  ELSE {8 * i : i \in DOMAIN Requests}

VARIABLES
  arrived, consumed,        \* tokens of Stream in the socket, and read
  eof,                      \* the peer has closed its side
  sent,                     \* what write() took, in order
  inBuffer_, outBuffer_, method_, url_, error_, state_,
  headtToValue_,            \* the headers of the request, as a set
  events_,                  \* Channel; also what the socket is armed for
  pc,                       \* the stage of handleRead, or "idle"
  closed,                   \* the descriptor is closed
  answers,                  \* history: requests answered with 200
  writeFailed               \* history: a write has failed

net == <<arrived, consumed, eof>>
buffers == <<inBuffer_, outBuffer_, sent>>
parser == <<method_, url_, state_, headtToValue_>>
vars == <<scenario, net, buffers, parser, error_, events_, pc, closed, answers,
          writeFailed>>

Init ==
  /\ scenario \in Scenarios
  /\ arrived = 0 /\ consumed = 0 /\ eof = FALSE
  /\ inBuffer_ = <<>> /\ outBuffer_ = <<>> /\ sent = <<>>
  /\ method_ = "garbage"
  /\ url_ = ""
  /\ headtToValue_ = {}
  /\ state_ = "STATE_PARSE_URL"
  /\ error_ = FALSE
  /\ events_ = {"IN"}
  /\ pc = "idle"
  /\ closed = FALSE
  /\ answers = 0
  /\ writeFailed = FALSE
-----------------------------------------------------------------------------
(***************************************************************************)
(* The peer, the kernel and the timer.                                     *)
(***************************************************************************)
Arrive(n) ==
  /\ ~closed /\ ~eof
  /\ n > arrived
  /\ arrived' = n
  /\ UNCHANGED <<consumed, eof, buffers, parser, error_, events_, pc, closed,
                 answers, writeFailed>>

PeerCloses ==
  /\ "eof" \in Trouble
  /\ ~closed /\ ~eof
  /\ eof' = TRUE
  /\ UNCHANGED <<arrived, consumed, buffers, parser, error_, events_, pc,
                 closed, answers, writeFailed>>

Expires ==
  /\ "expire" \in Trouble
  /\ pc = "idle" /\ ~closed
  /\ closed' = TRUE
  /\ UNCHANGED <<net, buffers, parser, error_, events_, pc, answers,
                 writeFailed>>

Readable == "IN" \in events_ /\ (consumed < arrived \/ eof)
Writable == "OUT" \in events_

(* readCallback_ and writeCallback_ of the channel are both handleRead.  A *)
(* failed socket, armed for EPOLLOUT, reports EPOLLHUP only: no callback.  *)
Event ==
  /\ pc = "idle" /\ ~closed /\ ~writeFailed
  /\ Readable \/ Writable
  /\ pc' = "read"
  /\ UNCHANGED <<net, buffers, parser, error_, events_, closed, answers,
                 writeFailed>>
-----------------------------------------------------------------------------
(***************************************************************************)
(* HttpData::handleRead.                                                   *)
(***************************************************************************)
(* writen(int, void *, int): what it does not get rid of at once is lost,  *)
(* whatever it returns.                                                    *)
Taken(part) ==
  (IF writeFailed THEN {} ELSE {<<part>>})
  \cup (IF writeFailed \/ Trouble \cap {"short", "reset"} # {} THEN {<<>>}
        ELSE {})

(* handleError writes a head and a page past outBuffer_; its callers set   *)
(* error_.                                                                 *)
WritenPage(code) ==
  \E head \in Taken(<<0, code>>), page \in Taken(<<0, "page">>) :
    sent' = sent \o head \o page

ErrorPage_Continues(code) ==
  /\ WritenPage(code)
  /\ pc' = "end"
  /\ UNCHANGED error_

ErrorPage(code) ==
  /\ WritenPage(code)
  /\ error_' = TRUE
  /\ pc' = "end"

(* readn(int, string &, bool &) reads until EAGAIN; the end of file makes  *)
(* it -1, whatever it has read before.                                     *)
Readn ==
  /\ consumed' = arrived
  /\ inBuffer_' = inBuffer_ \o SubSeq(Stream, consumed + 1, arrived)

ReadnFails == eof \/ writeFailed

Read ==
  /\ pc = "read"
  /\ Readn
  /\ IF ReadnFails THEN ErrorPage("400")
     ELSE /\ pc' = CASE state_ = "STATE_PARSE_URL" -> "url"
                     [] state_ = "STATE_PARSE_HEADERS" -> "headers"
                     [] state_ = "STATE_ANALYSIS" -> "analysis"
                     [] OTHER -> "end"
          /\ UNCHANGED <<sent, error_>>
  /\ UNCHANGED <<arrived, eof, outBuffer_, parser, events_, closed, answers,
                 writeFailed>>

First(token) == SelectInSeq(inBuffer_, LAMBDA t : t = token)
Before(i) == SubSeq(inBuffer_, 1, i - 1)
After(i) == SubSeq(inBuffer_, i + 1, Len(inBuffer_))

(* What parseURL makes of a line's first word: method_ stays as it was     *)
(* when no method matches.                                                 *)
Method_GetOnly(line) ==
  CASE line \in {"GET", "GET :", "GET no file", "GET empty file"} -> "GET"
    [] line = "POST" -> line
    [] OTHER -> method_

Method(line) ==
  CASE line \in {"GET", "GET :", "GET no file", "GET empty file"} -> "GET"
    [] line \in {"HEAD", "POST"} -> line
    [] OTHER -> method_

(* And of its second word, what the URL leads to. *)
Url(line) ==
  CASE line \in {"GET no file", "h no file"} -> "no file"
    [] line = "GET empty file" -> "empty file"
    [] OTHER -> "file"

(* parseURL: without a "\r" it returns PARSE_URL_AGAIN, which the caller   *)
(* takes for success.  Any line with two blanks passes; a "\n" left over   *)
(* in front of it spoils its first word.                                   *)
ParseUrl ==
  LET cr == First("cr")
      line == Before(cr)
      found == cr # 0
      fits == line # <<>> /\ Last(line) \in TwoBlanks
  IN  /\ pc = "url"
      /\ \/ /\ ~found
            /\ state_' = "STATE_PARSE_HEADERS"
            /\ pc' = "headers"
            /\ UNCHANGED <<inBuffer_, sent, method_, url_, error_>>
         \/ /\ found /\ fits
            /\ inBuffer_' = After(cr + 1)
            /\ method_' = IF Len(line) = 1 THEN Method(line[1]) ELSE method_
            /\ url_' = Url(Last(line))
            /\ state_' = "STATE_PARSE_HEADERS"
            /\ pc' = "headers"
            /\ UNCHANGED <<sent, error_>>
         \/ /\ found /\ ~fits
            /\ inBuffer_' = <<>>
            /\ ErrorPage("400")
            /\ UNCHANGED <<method_, url_, state_>>
      /\ UNCHANGED <<net, outBuffer_, headtToValue_, events_, closed, answers,
                     writeFailed>>

(* What reading method_ may yield.  Uninitialized, it is any number.       *)
MethodRead ==
  IF method_ = "garbage" THEN {"GET", "HEAD", "POST", "other"} ELSE {method_}

(* parseHeaders, one turn of its loop: an incomplete line, the end of the  *)
(* headers (an empty line, or nothing at all left to look at), a line      *)
(* without a colon, one with nothing behind it, whose value is a string    *)
(* from a range that runs backwards (std::length_error, which nobody       *)
(* catches), a header.                                                     *)
ParseHeaders ==
  LET lf == First("lf")
      incomplete == lf = 0 /\ inBuffer_ # <<>>
      last == /\ ~incomplete
              /\ inBuffer_ = <<>> \/ IsPrefix(<<"cr">>, inBuffer_)
      header == ~incomplete /\ ~last
      headers == ToSet(Before(lf)) \cap Colons
  IN  /\ pc = "headers"
      /\ \/ /\ incomplete
            /\ pc' = "end"
            /\ UNCHANGED <<inBuffer_, sent, state_, error_, headtToValue_>>
         \/ /\ last
            /\ inBuffer_' = After(2)
            /\ \E method \in MethodRead :
                 /\ state_' = IF method = "POST" THEN "STATE_RECV_BODY"
                                                ELSE "STATE_ANALYSIS"
                 /\ pc' = IF method = "POST" THEN "end" ELSE "analysis"
            /\ UNCHANGED <<sent, error_, headtToValue_>>
         \/ /\ header /\ headers = {}
            /\ inBuffer_' = After(lf)
            /\ ErrorPage("400")
            /\ UNCHANGED <<state_, headtToValue_>>
         \/ /\ header /\ "h empty" \in headers
            /\ inBuffer_' = After(lf)
            /\ pc' = "crashed"
            /\ UNCHANGED <<sent, state_, error_, headtToValue_>>
         \/ /\ header /\ headers # {} /\ "h empty" \notin headers
            /\ inBuffer_' = After(lf)
            /\ headtToValue_' = headtToValue_ \cup headers
            /\ UNCHANGED <<sent, state_, error_, pc>>
      /\ UNCHANGED <<net, outBuffer_, method_, url_, events_, closed, answers,
                     writeFailed>>

StatusHead(n) == <<n, IF "k" \in headtToValue_ THEN "kept" ELSE "head">>

Response(n, method) ==
  IF method = "HEAD" THEN <<StatusHead(n)>>
  ELSE <<StatusHead(n), <<n, "body">>>>

(* analysisRequest: what reset() left of url_, the empty string, is no     *)
(* file either; a file that cannot be mapped takes outBuffer_ with it.     *)
Analyse ==
  \E method \in MethodRead :
    LET known == method \in {"GET", "HEAD"}
        noFile == url_ \in {"", "no file"}
        unmapped == url_ = "empty file" /\ method = "GET"
    IN  /\ pc = "analysis"
        /\ \/ /\ known /\ ~noFile /\ ~unmapped
              /\ answers' = answers + 1
              /\ outBuffer_' = outBuffer_ \o Response(answers + 1, method)
              /\ state_' = "STATE_FINISH"
              /\ pc' = "end"
              /\ UNCHANGED <<sent, error_>>
           \/ /\ known /\ (noFile \/ unmapped)
              /\ outBuffer_' = IF unmapped THEN <<>> ELSE outBuffer_
              /\ ErrorPage("404")
              /\ UNCHANGED <<answers, state_>>
           \/ /\ ~known
              /\ error_' = TRUE
              /\ pc' = "end"
              /\ UNCHANGED <<sent, outBuffer_, answers, state_>>
        /\ UNCHANGED <<net, inBuffer_, method_, url_, headtToValue_, events_,
                       closed, writeFailed>>

(* HttpData::reset. *)
Reset_KeepsHeaders ==
  /\ method_' = "GET"
  /\ url_' = ""
  /\ state_' = "STATE_PARSE_URL"
  /\ UNCHANGED headtToValue_

Reset_KeepsUrl ==
  /\ method_' = "GET"
  /\ headtToValue_' = {}
  /\ state_' = "STATE_PARSE_URL"
  /\ UNCHANGED url_

Reset ==
  /\ method_' = "GET"
  /\ url_' = ""
  /\ headtToValue_' = {}
  /\ state_' = "STATE_PARSE_URL"

(***************************************************************************)
(* handleWrite, when write() takes n units.  When it fails, writen returns *)
(* (size_t)-1, which is not < 0, and leaves outBuffer_ as it was.          *)
(***************************************************************************)
WriteOut_KeepsRest(n) ==
  /\ sent' = sent \o SubSeq(outBuffer_, 1, n)
  /\ outBuffer_' = IF n = Len(outBuffer_) THEN <<>> ELSE outBuffer_
  /\ n < Len(outBuffer_) => "short" \in Trouble
  /\ UNCHANGED writeFailed

WriteOut(n) ==
  /\ sent' = sent \o SubSeq(outBuffer_, 1, n)
  /\ \/ /\ n = Len(outBuffer_) /\ ~writeFailed
        /\ outBuffer_' = <<>>
        /\ UNCHANGED writeFailed
     \/ /\ n < Len(outBuffer_) /\ "short" \in Trouble /\ ~writeFailed
        /\ outBuffer_' = SubSeq(outBuffer_, n + 1, Len(outBuffer_))
        /\ UNCHANGED writeFailed
     \/ /\ n < Len(outBuffer_) /\ "reset" \in Trouble
        /\ writeFailed => n = 0
        /\ writeFailed' = TRUE
        /\ UNCHANGED outBuffer_

(* What handleWrite, which is not called with nothing to write, does to    *)
(* the channel's events_.                                                  *)
AfterWrite ==
  IF outBuffer_ = <<>> THEN events_
  ELSE IF outBuffer_' = <<>> THEN {} ELSE events_ \cup {"OUT"}

NextRequest_OnePerEvent == "conn"

(* A request done, handleRead goes on with what is left in inBuffer_. *)
NextRequest == IF inBuffer_ = <<>> THEN "conn" ELSE "read"

(* The end of handleRead. *)
End ==
  /\ pc = "end"
  /\ IF error_
     THEN /\ pc' = "conn"
          /\ UNCHANGED <<buffers, parser, events_, writeFailed>>
     ELSE /\ \E n \in 0 .. Len(outBuffer_) : WriteOut(n)
          /\ IF state_ = "STATE_FINISH"
             THEN /\ Reset
                  /\ pc' = NextRequest
                  /\ events_' = AfterWrite
             ELSE /\ pc' = "conn"
                  /\ events_' = AfterWrite \cup {"IN"}
                  /\ UNCHANGED parser
          /\ UNCHANGED inBuffer_
  /\ UNCHANGED <<net, error_, closed, answers>>

(* handleConn: close, or arm for what is to be waited for. *)
Conn ==
  /\ pc = "conn"
  /\ pc' = "idle"
  /\ IF error_
     THEN closed' = TRUE /\ UNCHANGED events_
     ELSE /\ events_' = CASE events_ = {} -> {"IN"}
                          [] {"IN", "OUT"} \subseteq events_ -> {"OUT"}
                          [] OTHER -> events_
          /\ UNCHANGED closed
  /\ UNCHANGED <<net, buffers, parser, error_, answers, writeFailed>>
-----------------------------------------------------------------------------
Handler ==
  /\ Event \/ Read \/ ParseUrl \/ ParseHeaders \/ Analyse \/ End \/ Conn
  /\ UNCHANGED scenario

Peer ==
  /\ \E n \in SegmentEnds : Arrive(n)
  /\ UNCHANGED scenario

Next == Handler \/ Peer \/ ((PeerCloses \/ Expires) /\ UNCHANGED scenario)

Spec == Init /\ [][Next]_vars

(* The loop dispatches what is ready, the peer sends all of its requests. *)
FairSpec == Spec /\ WF_vars(Handler) /\ WF_vars(Peer)
-----------------------------------------------------------------------------
Units ==
  ({0} \X {"400", "404", "page"})
  \cup ((Nat \ {0}) \X {"head", "kept", "body"})
Tokens == RequestLines \cup HeaderLines \cup {"cr", "lf"}

TypeOK ==
  /\ scenario \in Scenarios
  /\ arrived \in 0 .. Len(Stream)
  /\ consumed \in 0 .. arrived
  /\ eof \in BOOLEAN
  /\ sent \in Seq(Units)
  /\ inBuffer_ \in Seq(Tokens)
  /\ outBuffer_ \in Seq(Units)
  /\ method_ \in {"garbage", "GET", "HEAD", "POST"}
  /\ url_ \in {"", "file", "no file", "empty file"}
  /\ headtToValue_ \subseteq Colons
  /\ error_ \in BOOLEAN
  /\ state_ \in {"STATE_PARSE_URL", "STATE_PARSE_HEADERS", "STATE_RECV_BODY",
                 "STATE_ANALYSIS", "STATE_FINISH"}
  /\ events_ \subseteq {"IN", "OUT"}
  /\ pc \in {"idle", "read", "url", "headers", "analysis", "end", "conn",
             "crashed"}
  /\ closed \in BOOLEAN
  /\ answers \in Nat
  /\ writeFailed \in BOOLEAN

(***************************************************************************)
(* What the peer is owed, computed from its requests: an answer to each in *)
(* order, up to the first that cannot be answered; a POST gets none.       *)
(***************************************************************************)
Served == {"GET", "GET :", "HEAD"}

ReplyHead(i) == <<i, IF Requests[i].header = "k" THEN "kept" ELSE "head">>

Reply(i) ==
  CASE Requests[i].line \in {"GET", "GET :"} -> <<ReplyHead(i), <<i, "body">>>>
    [] Requests[i].line = "HEAD" -> <<ReplyHead(i)>>
    [] Requests[i].line = "POST" -> <<>>
    [] OTHER -> <<<<0, "404">>, <<0, "page">>>>

Answerable ==
  {i \in DOMAIN Requests :
     \A j \in 1 .. i - 1 : Requests[j].line \in Served}

Owed == FlattenSeq([i \in 1 .. Cardinality(Answerable) |-> Reply(i)])

KnownMethods == \A i \in DOMAIN Requests : Requests[i].line # "PUT"

(* The peer sends whole requests, of methods the parser knows; and nothing *)
(* goes wrong.                                                             *)
Whole == ~scenario.cut /\ KnownMethods
Undisturbed == Whole /\ Trouble = {}

(* Every byte sent is owed and sent in its turn, each request is answered  *)
(* once and by its own headers, also when write() takes a response in      *)
(* parts (handleWrite, reset).                                             *)
AnswersInTurn == IsPrefix(sent, Owed)

(* The same, however the requests are pipelined, for a peer that sends     *)
(* whole requests and takes whole responses (handleRead, handleWrite).     *)
RightAnswers == Undisturbed => AnswersInTurn

(* Everything owed to such a peer is sent in the end, if each header has a *)
(* value (handleRead).                                                     *)
AllAnswered ==
  <>[](Undisturbed /\ (\A i \in DOMAIN Requests :
                        Requests[i].header # "h empty")
         => sent = Owed)

(* What is sent is the beginning of some replies, then of an error page.   *)
PagesAfter(replies) ==
  \E n \in 0 .. Len(sent) :
    /\ IsPrefix(SubSeq(sent, 1, n), replies)
    /\ \A i \in n + 1 .. Len(sent) : sent[i][1] = 0

(***************************************************************************)
(* A peer that sends whole requests gets nothing that is not its own,      *)
(* whatever else goes wrong: a response taken in parts, a failed write, an *)
(* end of file or an event on an empty buffer may cost it answers and may  *)
(* end in an error page, but never repeats a byte, skips one or answers    *)
(* out of turn (handleWrite, writen, reset, handleError).                  *)
(***************************************************************************)
OwnAnswers == Whole => PagesAfter(Owed)

(***************************************************************************)
(* After an error page, of which the peer may get only a part, nothing     *)
(* more is sent, whatever else was parsed, pending or arriving: the        *)
(* connection closes (handleError, handleConn).                            *)
(***************************************************************************)
ErrorIsLast ==
  \A i \in DOMAIN sent :
    sent[i][1] = 0 =>
      \A j \in i + 1 .. Len(sent) : j = i + 1 /\ sent[j] = <<0, "page">>

(***************************************************************************)
(* Each answer has a line of its own: wherever segments end, neither an    *)
(* empty buffer nor what an earlier request left behind is ever answered   *)
(* with a file.  Only a line with two blanks can be, which a header may    *)
(* have as well (reset, parseURL, analysisRequest).                        *)
(***************************************************************************)
LinePerAnswer ==
  answers <= Cardinality({i \in 1 .. consumed : Stream[i] \in TwoBlanks})

(***************************************************************************)
(* The constructor leaves method_ uninitialized.  With methods the parser  *)
(* knows, what happens to be there never serves a file, wherever segments  *)
(* end, and is not looked at if they hold whole requests (parseURL,        *)
(* parseHeaders' caller, analysisRequest).                                 *)
(***************************************************************************)
MethodAssigned ==
  KnownMethods /\ method_ = "garbage" =>
    /\ answers = 0
    /\ ~scenario.cut =>
         state_ \in {"STATE_PARSE_URL", "STATE_PARSE_HEADERS"}

(***************************************************************************)
(* "An incomplete line leaves inBuffer_ as it is and waits for the next    *)
(* EPOLLIN": well-formed requests are never answered 400, wherever their   *)
(* segments end (parseURL, parseHeaders).                                  *)
(***************************************************************************)
NeverBadRequest == <<0, "400">> \notin ToSet(sent)
-----------------------------------------------------------------------------
(***************************************************************************)
(* What makes these properties inductive.                                  *)
(***************************************************************************)
StagesAgree ==
  /\ pc = "url" => state_ = "STATE_PARSE_URL"
  /\ pc = "headers" => state_ = "STATE_PARSE_HEADERS"
  /\ pc = "analysis" => state_ = "STATE_ANALYSIS"
  /\ state_ = "STATE_FINISH" => pc = "end" /\ ~error_

(* An error ends the connection, and only then is an error page sent.      *)
ErrorsAgree ==
  /\ error_ => pc \in {"end", "conn"} \/ (pc = "idle" /\ closed)
  /\ closed => pc = "idle"
  /\ \A i \in DOMAIN outBuffer_ : outBuffer_[i][1] # 0
  /\ ~error_ => \A i \in DOMAIN sent : sent[i][1] # 0

(* Before the first request line was understood nothing is known of it.    *)
MethodAgrees ==
  KnownMethods /\ method_ = "garbage" =>
    /\ url_ = "" /\ answers = 0
    /\ ~error_ /\ state_ = "STATE_PARSE_URL" =>
         inBuffer_ = SubSeq(Stream, 1, consumed)

(* A line with two blanks was read for each answer, for the request in     *)
(* hand, and for each that waits in inBuffer_.                             *)
Lines(s) == Cardinality({i \in DOMAIN s : s[i] \in TwoBlanks})

InHand == IF url_ # "" /\ state_ # "STATE_FINISH" THEN 1 ELSE 0

LinesAgree ==
  answers + InHand + Lines(inBuffer_) <= Lines(SubSeq(Stream, 1, consumed))

(* Whole requests are parsed and answered in turn.                         *)
Replies == FlattenSeq([i \in 1 .. answers |-> Reply(i)])

Current == Requests[answers + 1]

(* What follows the first k tokens of the current request is unparsed.     *)
Unparsed(k) ==
  /\ 8 * answers + k <= consumed
  /\ inBuffer_ = SubSeq(Stream, 8 * answers + k + 1, consumed)

Understood ==
  /\ 8 * answers + 8 <= consumed
  /\ method_ = Method(Current.line) /\ url_ = Url(Current.line)

(* What reset() leaves. *)
Fresh ==
  /\ Unparsed(0) /\ url_ = "" /\ headtToValue_ = {}
  /\ answers > 0 => method_ = "GET"

Progress ==
  \/ /\ state_ = "STATE_PARSE_URL" /\ pc \in {"idle", "read", "url", "conn"}
     /\ Fresh
     /\ pc = "read" => consumed < arrived \/ inBuffer_ # <<>> \/ answers > 0
                        \/ eof
     /\ pc = "url" => inBuffer_ # <<>> \/ answers > 0
  \/ /\ pc \in {"headers", "analysis"}
     /\ Fresh /\ inBuffer_ = <<>> /\ answers > 0
  \/ /\ pc = "headers" /\ Understood
     /\ \/ Unparsed(3) /\ headtToValue_ = {}
        \/ Unparsed(6) /\ headtToValue_ = {Current.header}
  \/ /\ pc = "analysis" /\ Understood /\ Unparsed(8)
     /\ headtToValue_ = {Current.header} /\ method_ # "POST"
  \/ pc = "end" /\ state_ = "STATE_FINISH" /\ Unparsed(0) /\ answers > 0
  \/ /\ state_ = "STATE_RECV_BODY" /\ pc \in {"idle", "read", "end", "conn"}
     /\ answers < Len(Requests) /\ Current.line = "POST"
  \/ pc = "crashed"

WholeRequests(n) == \E m \in 0 .. Len(Requests) : n = 8 * m

(* What was sent and what is in outBuffer_ together are the replies so     *)
(* far, as long as no error and no failed write has ended that.            *)
Turns ==
  /\ WholeRequests(arrived) /\ WholeRequests(consumed)
  /\ answers <= Len(Requests)
  /\ \A j \in 1 .. answers : Requests[j].line \in Served
  /\ outBuffer_ # <<>> \/ "OUT" \in events_ => answers > 0
  /\ method_ = "garbage" =>
       state_ \in {"STATE_PARSE_URL", "STATE_PARSE_HEADERS"}
  /\ IF error_ THEN PagesAfter(Replies)
     ELSE /\ IF writeFailed THEN IsPrefix(sent, Replies)
                            ELSE sent \o outBuffer_ = Replies
          /\ writeFailed => pc \in {"read", "conn", "idle"}
          /\ Progress

(* With nothing to disturb the session, handleRead always has something to *)
(* look at, and only a file that is not there is an error.                 *)
Calm ==
  /\ ~eof /\ ~writeFailed /\ "OUT" \notin events_
  /\ outBuffer_ # <<>> => pc = "end" /\ state_ = "STATE_FINISH"
  /\ pc = "read" => consumed < arrived \/ inBuffer_ # <<>>
  /\ pc = "url" => inBuffer_ # <<>>
  /\ pc \in {"headers", "analysis"} => url_ # ""
  /\ error_ => /\ answers < Len(Requests)
               /\ Current.line \in {"GET no file", "GET empty file"}
               /\ sent = Replies \o <<<<0, "404">>, <<0, "page">>>>

Agreement ==
  /\ TypeOK /\ StagesAgree /\ ErrorsAgree /\ ErrorIsLast
  /\ MethodAgrees /\ LinesAgree

InTurn == (Whole => Turns) /\ (Undisturbed => Calm)

IInv == Agreement /\ InTurn
=============================================================================
