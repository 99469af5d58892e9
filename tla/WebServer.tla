----------------------------- MODULE WebServer -----------------------------
(* The web dashboard (ui/web/ai_web.c): one connection and the thread that      *)
(* serves it.  Threads share nothing but web_cfg, so one connection stands for  *)
(* all; the table of connections is never used.  A request arrives as one unit  *)
(* for its head and one for each part of its body, which holds nothing that     *)
(* looks like a head; the page and the figures from /proc are left out.         *)
EXTENDS Naturals, Sequences

CONSTANTS
  MaxRequests,  \* bound: requests a client sends on the connection
  Bodies,       \* the lengths of a body, in units; without a body the length is 0
  BufferSize,   \* the units buf holds
  Words         \* what route_request() looks for in a question

WebAssumption ==
  /\ MaxRequests \in Nat /\ Bodies \subseteq Nat \ {0}
  /\ BufferSize \in Nat \ {0}
  /\ Words \subseteq {"code", "compile", "shell", "security", "analysis"}

VARIABLES
  running,    \* web_cfg.running
  thread,     \* the connection's thread: "none", "serving" or "ended"
  sent,       \* the requests sent
  wire,       \* the units on their way to the server
  unsent,     \* the units of the last request that the client has yet to send
  buffer,     \* buf
  answers,    \* per answer: the request it answers, 0 for none, and its status
  asked,      \* the backend and model of the last question
  pipelined   \* history: a request was sent before the last one was answered

clientVars == <<sent, unsent, pipelined>>
webVars == <<running, thread, clientVars, wire, buffer, answers, asked>>

Paths == {"status", "page", "ask", "static", "other"}
(* The length of a body is stated where the server looks for it, behind         *)
(* "Content-Length:"; "content-length:" or chunks are as legal, and not found.  *)
Request == {r \in [path : Paths, body : Bodies \cup {0}, stated : BOOLEAN, closes : BOOLEAN] :
              r.body = 0 => ~r.stated}
Unit == [number : 1..MaxRequests, head : BOOLEAN]
HttpStatuses == {200, 404, 500}
WebModels == {"none", "deepseek-chat", "deepseek-coder", "moonshot-v1-8k"}

TypeOK ==
  /\ running \in BOOLEAN /\ thread \in {"none", "serving", "ended"}
  /\ sent \in Seq(Request) /\ Len(sent) <= MaxRequests
  /\ wire \in Seq(Unit) /\ unsent \in Seq(Unit)
  /\ buffer \in Seq(Unit) /\ Len(buffer) <= BufferSize
  /\ answers \in Seq([number : 0..MaxRequests, status : HttpStatuses])
  /\ asked \in WebModels
  /\ pipelined \in BOOLEAN

(* main() has found a key and listens.                                          *)
Init ==
  /\ running = TRUE /\ thread = "none"
  /\ sent = <<>> /\ wire = <<>> /\ unsent = <<>> /\ buffer = <<>> /\ answers = <<>>
  /\ asked = "none" /\ pipelined = FALSE

---------------------------------------------------------------------------
(* The client *)

Units(number, request) ==
  <<[number |-> number, head |-> TRUE]>>
    \o [i \in 1..request.body |-> [number |-> number, head |-> FALSE]]

ClientRequest(request) ==
  /\ unsent = <<>> /\ Len(sent) < MaxRequests
  /\ sent' = Append(sent, request)
  /\ unsent' = Units(Len(sent) + 1, request)
  /\ pipelined' = (pipelined \/ Len(answers) < Len(sent))
  /\ UNCHANGED <<running, thread, wire, buffer, answers, asked>>

ClientSend ==
  /\ unsent # <<>>
  /\ wire' = Append(wire, Head(unsent))
  /\ unsent' = Tail(unsent)
  /\ UNCHANGED <<running, thread, sent, pipelined, buffer, answers, asked>>

---------------------------------------------------------------------------
(* Answers *)

(* route_request(): what is asked for decides, not the configured backend; only *)
(* some of the words that speak for DeepSeek ask for its coder.                 *)
Routed(words) ==
  LET deepseek == 50 + (IF words \cap {"code", "compile", "shell"} # {} THEN 30 ELSE 0)
      kimi == 50 + (IF "security" \in words THEN 20 ELSE 0)
                 + (IF "analysis" \in words THEN 15 ELSE 0)
  IN  CASE deepseek < kimi -> "moonshot-v1-8k"
        [] deepseek >= kimi /\ words \cap {"code", "compile"} # {} -> "deepseek-coder"
        [] OTHER -> "deepseek-chat"

(* A question that fails, for want of a network or of an answer, is answered    *)
(* with its error, and 200.                                                     *)
StatusOf(path) ==
  CASE path = "static" -> {200, 404, 500} [] path = "other" -> {404} [] OTHER -> {200}

---------------------------------------------------------------------------
(* conn_handler() *)

Heads(units) == {i \in DOMAIN units : units[i].head}
Lengths(units) == {i \in Heads(units) : sent[units[i].number].stated}

First(places) == CHOOSE i \in places : \A j \in places : i <= j

(* The first "Content-Length:" in the buffer, of whichever request.             *)
ContentLength(units) ==
  IF Lengths(units) = {} THEN 0 ELSE sent[units[First(Lengths(units))].number].body

(* Mutant for AnsweredInTurn: the body is not counted.                          *)
TotalOfHead(units) == First(Heads(units))

Total(units) == First(Heads(units)) + ContentLength(units)

Complete(units) == Heads(units) # {} /\ Len(units) >= Total(units)

Closing(units) == \E i \in Heads(units) : sent[units[i].number].closes

Accept ==
  /\ running /\ thread = "none"
  /\ thread' = "serving"
  /\ UNCHANGED <<running, clientVars, wire, buffer, answers, asked>>

(* One recv(), which takes what has arrived as far as the buffer has room.      *)
Received(n) ==
  /\ thread = "serving"
  /\ n \in 1..Len(wire) /\ n <= BufferSize - Len(buffer)
  /\ ~Complete(buffer \o SubSeq(wire, 1, n))
  /\ buffer' = buffer \o SubSeq(wire, 1, n)
  /\ wire' = SubSeq(wire, n + 1, Len(wire))
  /\ UNCHANGED <<running, thread, clientVars, answers, asked>>

(* parse_http_request() takes what the buffer starts with for the request line. *)
(* When the rest of a body is glued in front of it, the path may be any word of *)
(* the body, the one that was asked for, or none.                               *)
PathsFound(units) == IF units[1].head THEN {sent[units[1].number].path} ELSE Paths
NumbersFound(units) ==
  IF units[1].head THEN {units[1].number} ELSE {0, units[First(Heads(units))].number}

Handled(units) ==
  \E path \in PathsFound(units), number \in NumbersFound(units) :
    /\ \E status \in StatusOf(path) :
         answers' = Append(answers, [number |-> number, status |-> status])
    /\ IF path = "ask" THEN \E words \in SUBSET Words : asked' = Routed(words)
                       ELSE UNCHANGED asked

(* The recv() that completes a request: the request is answered and taken out   *)
(* of the buffer.  What is left is looked at when more arrives, even if it      *)
(* holds the next request.                                                      *)
Answer(n) ==
  /\ thread = "serving"
  /\ n \in 1..Len(wire) /\ n <= BufferSize - Len(buffer)
  /\ LET units == buffer \o SubSeq(wire, 1, n) IN
     /\ Complete(units)
     /\ Handled(units)
     /\ thread' = IF Closing(units) THEN "ended" ELSE "serving"
     /\ buffer' = SubSeq(units, Total(units) + 1, Len(units))
  /\ wire' = SubSeq(wire, n + 1, Len(wire))
  /\ UNCHANGED <<running, clientVars>>

(* Nothing for 30 ms, the other end is gone, or the buffer is full.             *)
Drop ==
  /\ thread = "serving"
  /\ thread' = "ended"
  /\ UNCHANGED <<running, clientVars, wire, buffer, answers, asked>>

(* A signal; the process ends with the threads it has.                          *)
Stop ==
  /\ running /\ running' = FALSE
  /\ thread' = "ended"
  /\ UNCHANGED <<clientVars, wire, buffer, answers, asked>>

Next ==
  \/ \E request \in Request : ClientRequest(request)
  \/ ClientSend \/ Accept \/ Drop \/ Stop
  \/ \E n \in 1..BufferSize : Received(n) \/ Answer(n)

Spec == Init /\ [][Next]_webVars

---------------------------------------------------------------------------
(* Properties *)

(* The i-th answer is the one to the i-th request.                              *)
InTurn ==
  /\ Len(answers) <= Len(sent)
  /\ \A i \in DOMAIN answers : answers[i].number = i

AllStated == \A i \in DOMAIN sent : sent[i].body > 0 => sent[i].stated

(* However requests are cut into pieces, a client that waits for each answer,   *)
(* and states the length of each body where the server looks for it, has its    *)
(* requests answered at most once each and in turn, none as two and none glued  *)
(* to another.  (A connection may be dropped with a request unanswered; with    *)
(* pipelining the length of a later request may be taken for the first one's.)  *)
AnsweredInTurn == ~pipelined /\ AllStated => InTurn

(* What the comment in conn_handler() says, that the complete request is        *)
(* detected, however the client states the length of its body.                  *)
FramesRequests == ~pipelined => InTurn
=============================================================================
