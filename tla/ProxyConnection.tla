--------------------------- MODULE ProxyConnection ---------------------------
(***************************************************************************)
(* One connection of the sidecar's proxy, from its acceptance to its end   *)
(* (internal/cli/proxy).  handleConnection looks at the first bytes.  HTTP *)
(* goes to an http.Server whose listener has this single connection, and   *)
(* whose goroutine reads the request and has httpTransport try the         *)
(* endpoints of the service in turn.  Everything else is forwarded to its  *)
(* original destination by two goroutines, one for each direction.         *)
(*                                                                         *)
(* The client's bytes are numbered chunks, and a request takes all of      *)
(* them; of the target's bytes only their count matters.  What the breaker *)
(* allows is arbitrary here (module Breaker), and so is how an endpoint    *)
(* answers.  A connection carries one request.                             *)
(***************************************************************************)
EXTENDS Naturals, Sequences

CONSTANTS
    Endpoints,
    Rules,         (* what RoundTrip may find out about a request's host    *)
    PeekChunks,    (* the chunks isHTTP waits for, 64 bytes in the code     *)
    HeadChunks,    (* the chunks of the request's line and header           *)
    Length,        (* bound: chunks the client sends                        *)
    MaxReplies     (* bound: chunks the target sends                        *)

ASSUME ConnectionAssumption ==
    /\ Rules \subseteq [service : BOOLEAN, enabled : BOOLEAN, configured : BOOLEAN,
                        loadBalance : BOOLEAN, useBreaker : BOOLEAN]
    /\ PeekChunks \in Nat \ {0} /\ HeadChunks \in Nat /\ Length \in Nat
    /\ PeekChunks <= HeadChunks /\ HeadChunks <= Length
    /\ MaxReplies \in Nat

VARIABLES
    speaks,     (* what the client's first bytes look like                  *)
    rule,       (* configuration, and the host of the request               *)
    client,     (* the application: how its side of the connection ended,   *)
                (* chunks sent, chunks received                             *)
    target,     (* the original destination, alike                          *)
    wire,       (* the client's chunks that nothing has read yet            *)
    buffer,     (* chunks in the bufio.Reader                               *)
    conn,       (* the proxy's connection to the client ...                 *)
    targetConn, (* ... and to the target                                    *)
    handler,    (* where handleConnection is                                *)
    copying,    (* goroutines of handleTCP that still copy                  *)
    ctxDone,    (* the context of Listen                                    *)
    server,     (* the http.Server's goroutine for the connection           *)
    verdict,    (* endpoint -> what came of it; "untried": still to be      *)
                (* tried by loadBalance                                     *)
    admitted,   (* endpoints Allowed let through, with no result recorded   *)
    answer      (* what the client received to its request                  *)

ends    == <<client, target, ctxDone>>
conns   == <<wire, buffer, conn, targetConn>>
serving == <<server, verdict, admitted, answer>>
fixed   == <<speaks, rule>>
vars    == <<fixed, ends, conns, handler, copying, serving>>

Closed(c) == IF c = "none" THEN "none" ELSE "closed"

CloseWrite(c) == IF c = "open" THEN "noWrite" ELSE c

-----------------------------------------------------------------------------
(* The application, the original destination, and the end of the sidecar.  *)

ClientSends ==
    /\ client.end = "open" /\ client.sent < Length
    /\ client' = [client EXCEPT !.sent = @ + 1]
    /\ wire' = Append(wire, client.sent + 1)
    /\ UNCHANGED <<fixed, target, ctxDone, buffer, conn, targetConn, handler, copying, serving>>

(* It closes its half after all it sent, or is gone: writes to it fail.    *)
ClientEnds(how) ==
    /\ client.end = "open" \/ (client.end = "fin" /\ how = "gone")
    /\ client' = [client EXCEPT !.end = how]
    /\ UNCHANGED <<fixed, target, ctxDone, conns, handler, copying, serving>>

TargetSends ==
    /\ targetConn # "none" /\ target.end = "open" /\ target.sent < MaxReplies
    /\ target' = [target EXCEPT !.sent = @ + 1]
    /\ UNCHANGED <<fixed, client, ctxDone, conns, handler, copying, serving>>

TargetEnds(how) ==
    /\ targetConn # "none"
    /\ target.end = "open" \/ (target.end = "fin" /\ how = "gone")
    /\ target' = [target EXCEPT !.end = how]
    /\ UNCHANGED <<fixed, client, ctxDone, conns, handler, copying, serving>>

Cancel ==
    /\ ~ctxDone
    /\ ctxDone' = TRUE
    /\ UNCHANGED <<fixed, client, target, conns, handler, copying, serving>>

-----------------------------------------------------------------------------
(* listener.go: handleConnection *)

(* A read of the bufio.Reader from the connection. *)
Fill ==
    /\ wire # <<>> /\ conn # "closed"
    /\ buffer' = buffer \o wire
    /\ wire' = <<>>

(* A read would give no more chunks: the client is done, or gone. *)
AtEnd == client.end = "gone" \/ (client.end = "fin" /\ wire = <<>>)

Peek ==
    /\ handler = "peek" /\ Len(buffer) < PeekChunks
    /\ Fill
    /\ UNCHANGED <<fixed, ends, conn, targetConn, handler, copying, serving>>

isHTTP == Len(buffer) >= PeekChunks /\ speaks = "http"

Route ==
    /\ handler = "peek"
    /\ Len(buffer) >= PeekChunks \/ AtEnd
    /\ handler' = IF isHTTP THEN "serve" ELSE "dial"
    /\ UNCHANGED <<fixed, ends, conns, copying, serving>>

(* singleConnListener gives the connection once, for which Serve starts a  *)
(* goroutine; the second Accept fails, and Serve returns.                  *)
Accept ==
    /\ handler = "serve"
    /\ \/ server.at = "none" /\ server' = [server EXCEPT !.at = "head"] /\ UNCHANGED handler
       \/ server.at # "none" /\ handler' = "close" /\ UNCHANGED server
    /\ UNCHANGED <<fixed, ends, conns, copying, verdict, admitted, answer>>

(* Mutated form of Dial: conn is copied from instead of wrappedConn, and   *)
(* what was peeked at is dropped with the bufio.Reader.                    *)
DialUnwrapped ==
    /\ handler = "dial"
    /\ handler' = "copy" /\ copying' = {"up", "down"} /\ targetConn' = "open"
    /\ buffer' = <<>>
    /\ UNCHANGED <<fixed, ends, wire, conn, serving>>

(* The original destination is found and answers, or not. *)
Dial ==
    /\ handler = "dial"
    /\ \/ handler' = "copy" /\ copying' = {"up", "down"} /\ targetConn' = "open"
       \/ handler' = "close" /\ UNCHANGED <<copying, targetConn>>
    /\ UNCHANGED <<fixed, ends, wire, buffer, conn, serving>>

(* Mutated form of Watch: only the target's connection is closed. *)
WatchTarget ==
    /\ handler \in {"copy", "close"} /\ targetConn # "none" /\ ctxDone
    /\ targetConn' = "closed"
    /\ UNCHANGED <<fixed, ends, wire, buffer, conn, handler, copying, serving>>

(* The goroutine that waits for done or the context.  The handler closes   *)
(* both connections after done anyway (Close).                             *)
Watch ==
    /\ handler \in {"copy", "close"} /\ targetConn # "none" /\ ctxDone
    /\ conn' = "closed" /\ targetConn' = "closed"
    /\ UNCHANGED <<fixed, ends, wire, buffer, handler, copying, serving>>

TargetWritable == targetConn = "open" /\ target.end # "gone"

(* io.Copy(targetConn, wrappedConn), a read and its write: the buffer is   *)
(* read first, and the connection only when it is empty.                   *)
CopyUp ==
    /\ "up" \in copying /\ TargetWritable
    /\ \/ /\ buffer # <<>>
          /\ target' = [target EXCEPT !.got = @ \o buffer]
          /\ buffer' = <<>> /\ UNCHANGED wire
       \/ /\ buffer = <<>> /\ wire # <<>> /\ conn # "closed"
          /\ target' = [target EXCEPT !.got = @ \o wire]
          /\ wire' = <<>> /\ UNCHANGED buffer
    /\ UNCHANGED <<fixed, client, ctxDone, conn, targetConn, handler, copying, serving>>

(* The copy ends with the end of the input, or a read or write that fails. *)
CopyUpOver ==
    \/ buffer = <<>> /\ (conn = "closed" \/ AtEnd)
    \/ (buffer # <<>> \/ wire # <<>>) /\ ~TargetWritable

(* Mutated form of CopyUpEnds: the target is not told. *)
CopyUpEndsSilently ==
    /\ "up" \in copying /\ CopyUpOver
    /\ copying' = copying \ {"up"}
    /\ UNCHANGED <<fixed, ends, conns, handler, serving>>

CopyUpEnds ==
    /\ "up" \in copying /\ CopyUpOver
    /\ copying' = copying \ {"up"}
    /\ targetConn' = CloseWrite(targetConn)
    /\ UNCHANGED <<fixed, ends, wire, buffer, conn, handler, serving>>

ClientWritable == conn = "open" /\ client.end # "gone"

(* Mutated form of CopyDown: a chunk is written without having been read.  *)
CopyDownUnread ==
    /\ "down" \in copying /\ ClientWritable /\ targetConn # "closed"
    /\ client' = [client EXCEPT !.got = @ + 1]
    /\ UNCHANGED <<fixed, target, ctxDone, conns, handler, copying, serving>>

(* io.Copy(conn, targetConn) *)
CopyDown ==
    /\ "down" \in copying /\ ClientWritable /\ targetConn # "closed"
    /\ client.got < target.sent
    /\ client' = [client EXCEPT !.got = @ + 1]
    /\ UNCHANGED <<fixed, target, ctxDone, conns, handler, copying, serving>>

CopyDownOver ==
    \/ targetConn = "closed" \/ target.end = "gone"
    \/ target.end = "fin" /\ client.got = target.sent
    \/ client.got < target.sent /\ ~ClientWritable

CopyDownEnds ==
    /\ "down" \in copying /\ CopyDownOver
    /\ copying' = copying \ {"down"}
    /\ conn' = CloseWrite(conn)
    /\ UNCHANGED <<fixed, ends, wire, buffer, targetConn, handler, serving>>

(* wg.Wait *)
Wait ==
    /\ handler = "copy" /\ copying = {}
    /\ handler' = "close"
    /\ UNCHANGED <<fixed, ends, conns, copying, serving>>

(* The deferred calls, of HTTP and TCP alike. *)
Close ==
    /\ handler = "close"
    /\ handler' = "done"
    /\ conn' = "closed" /\ targetConn' = Closed(targetConn)
    /\ UNCHANGED <<fixed, ends, wire, buffer, copying, serving>>

-----------------------------------------------------------------------------
(* The goroutine of http.Server, with ReverseProxy and httpTransport.      *)

Goto(at) == server' = [server EXCEPT !.at = at]

Needed == IF server.at = "head" THEN HeadChunks ELSE Length

Reading == server.at \in {"head", "body"} /\ server.read < Needed

(* connWrapper.Read *)
ReadRequest ==
    /\ Reading
    /\ \/ /\ buffer # <<>>
          /\ server' = [server EXCEPT !.read = @ + 1]
          /\ buffer' = Tail(buffer) /\ UNCHANGED wire
       \/ buffer = <<>> /\ Fill /\ UNCHANGED server
    /\ UNCHANGED <<fixed, ends, conn, targetConn, handler, copying, verdict, admitted, answer>>

(* The connection was closed, ended or reset, or ReadTimeout has passed: a *)
(* header that cannot be read ends the connection, a body fails loadBalance.*)
ReadFails ==
    /\ Reading /\ buffer = <<>>
    /\ conn = "closed" \/ wire = <<>> \/ AtEnd
    /\ IF server.at = "head" THEN Goto("leave") ELSE Goto("failing")
    /\ UNCHANGED <<fixed, ends, conns, handler, copying, verdict, admitted, answer>>

(* RoundTrip *)
Balanced == rule.service /\ rule.enabled /\ rule.configured /\ rule.loadBalance

RoundTrip ==
    /\ server.at = "head" /\ server.read = HeadChunks
    /\ Goto(IF Balanced THEN "body" ELSE "pass")
    /\ UNCHANGED <<fixed, ends, conns, handler, copying, verdict, admitted, answer>>

(* The transport of net/http answers or fails, as it does at the latest    *)
(* when the client's end cancels the request's context.                    *)
passThrough ==
    /\ server.at = "pass"
    /\ Goto("answering") \/ Goto("failing")
    /\ UNCHANGED <<fixed, ends, conns, handler, copying, verdict, admitted, answer>>

(* The addresses of the service are read once, at the beginning. *)
getEndpoints(eps) ==
    /\ server.at = "body" /\ server.read = Length
    /\ Goto("balance")
    /\ verdict' = [e \in Endpoints |-> IF e \in eps THEN "untried" ELSE "none"]
    /\ UNCHANGED <<fixed, ends, conns, handler, copying, admitted, answer>>

(* The next endpoint, in the order of a map: the breaker is asked.         *)
Skip(e) ==
    /\ server.at = "balance" /\ verdict[e] = "untried" /\ rule.useBreaker
    /\ verdict' = [verdict EXCEPT ![e] = "refused"]
    /\ UNCHANGED <<fixed, ends, conns, handler, copying, server, admitted, answer>>

Try(e) ==
    /\ server.at = "balance" /\ verdict[e] = "untried"
    /\ Goto("sending")
    /\ verdict' = [verdict EXCEPT ![e] = "asked"]
    /\ admitted' = IF rule.useBreaker THEN admitted \cup {e} ELSE admitted
    /\ UNCHANGED <<fixed, ends, conns, handler, copying, answer>>

(* sendRequest has a context of its own and 5 s: it goes on when the       *)
(* client has left.  A status of 500 and above is a failure.               *)
sendRequest(e, outcome) ==
    /\ server.at = "sending" /\ verdict[e] = "asked"
    /\ Goto("recording")
    /\ verdict' = [verdict EXCEPT ![e] = outcome]
    /\ UNCHANGED <<fixed, ends, conns, handler, copying, admitted, answer>>

Answered == \E e \in Endpoints : verdict[e] = "ok"

(* Mutated form of Record: only failures are recorded. *)
RecordFailures ==
    /\ server.at = "recording"
    /\ Goto(IF Answered THEN "answering" ELSE "balance")
    /\ admitted' = IF Answered THEN admitted ELSE {}
    /\ UNCHANGED <<fixed, ends, conns, handler, copying, verdict, answer>>

(* Mutated form of Record: the first failure is returned. *)
RecordAndReturn ==
    /\ server.at = "recording"
    /\ Goto(IF Answered THEN "answering" ELSE "failing")
    /\ admitted' = {}
    /\ UNCHANGED <<fixed, ends, conns, handler, copying, verdict, answer>>

(* RecordSuccess or recordFailure of the endpoint just asked; a failure    *)
(* goes on with the next.                                                  *)
Record ==
    /\ server.at = "recording"
    /\ Goto(IF Answered THEN "answering" ELSE "balance")
    /\ admitted' = {}
    /\ UNCHANGED <<fixed, ends, conns, handler, copying, verdict, answer>>

AllFailed ==
    /\ server.at = "balance"
    /\ \A e \in Endpoints : verdict[e] # "untried"
    /\ Goto("failing")
    /\ UNCHANGED <<fixed, ends, conns, handler, copying, verdict, admitted, answer>>

(* ReverseProxy writes the response: the client has it if its connection   *)
(* is open still and WriteTimeout has not passed.  sendRequest cancelled   *)
(* the context of a balanced one, whose body may break off; the connection *)
(* is then aborted.  Otherwise the server waits for another request.       *)
Answer ==
    /\ server.at = "answering"
    /\ \/ ClientWritable /\ answer' = "whole" /\ Goto("idle")
       \/ ClientWritable /\ Balanced /\ answer' = "cut" /\ Goto("leave")
       \/ Goto("leave") /\ UNCHANGED answer
    /\ UNCHANGED <<fixed, ends, conns, handler, copying, verdict, admitted>>

(* ErrorHandler *)
BadGateway ==
    /\ server.at = "failing"
    /\ \/ ClientWritable /\ answer' = "badGateway" /\ Goto("idle")
       \/ Goto("leave") /\ UNCHANGED answer
    /\ UNCHANGED <<fixed, ends, conns, handler, copying, verdict, admitted>>

(* The server closes the connection: after ReadTimeout when it is idle.    *)
Leave ==
    /\ server.at \in {"idle", "leave"}
    /\ Goto("ended")
    /\ conn' = "closed"
    /\ UNCHANGED <<fixed, ends, wire, buffer, targetConn, handler, copying, verdict, admitted, answer>>

-----------------------------------------------------------------------------
Failures == {"timeout", "network", "business"}

Init ==
    /\ speaks \in {"http", "tcp"}
    /\ rule \in Rules
    /\ client = [end |-> "open", sent |-> 0, got |-> 0]
    /\ target = [end |-> "open", sent |-> 0, got |-> <<>>]
    /\ wire = <<>> /\ buffer = <<>>
    /\ conn = "open" /\ targetConn = "none"
    /\ handler = "peek" /\ copying = {} /\ ctxDone = FALSE
    /\ server = [at |-> "none", read |-> 0]
    /\ verdict = [e \in Endpoints |-> "none"]
    /\ admitted = {} /\ answer = "none"

HandlerStep == Peek \/ Route \/ Accept \/ Dial \/ Wait \/ Close

UpStep == CopyUp \/ CopyUpEnds

DownStep == CopyDown \/ CopyDownEnds

ServerStep ==
    \/ ReadRequest \/ ReadFails \/ RoundTrip \/ passThrough
    \/ \E eps \in SUBSET Endpoints : getEndpoints(eps)
    \/ \E e \in Endpoints : Skip(e) \/ Try(e)
    \/ \E e \in Endpoints, outcome \in Failures \cup {"ok"} : sendRequest(e, outcome)
    \/ Record \/ AllFailed \/ Answer \/ BadGateway \/ Leave

Next ==
    \/ ClientSends \/ TargetSends \/ Cancel
    \/ \E how \in {"fin", "gone"} : ClientEnds(how) \/ TargetEnds(how)
    \/ HandlerStep \/ UpStep \/ DownStep \/ Watch \/ ServerStep

(* A target that was told that the client is done finishes too. *)
TargetFinishes == targetConn # "open" /\ TargetEnds("fin")

Fairness ==
    /\ WF_vars(HandlerStep) /\ WF_vars(UpStep) /\ WF_vars(DownStep)
    /\ WF_vars(Watch) /\ WF_vars(ServerStep)
    /\ WF_vars(TargetFinishes)

Spec     == Init /\ [][Next]_vars
FairSpec == Spec /\ Fairness

-----------------------------------------------------------------------------
(* Properties *)

Ends == {"open", "fin", "gone"}

TypeOK ==
    /\ speaks \in {"http", "tcp"} /\ rule \in Rules
    /\ client \in [end : Ends, sent : 0 .. Length, got : 0 .. MaxReplies]
    /\ target \in [end : Ends, sent : 0 .. MaxReplies, got : Seq(1 .. Length)]
    /\ wire \in Seq(1 .. Length) /\ buffer \in Seq(1 .. Length)
    /\ conn \in {"open", "noWrite", "closed"}
    /\ targetConn \in {"none", "open", "noWrite", "closed"}
    /\ handler \in {"peek", "serve", "dial", "copy", "close", "done"}
    /\ copying \subseteq {"up", "down"}
    /\ ctxDone \in BOOLEAN
    /\ server \in [at : {"none", "head", "body", "pass", "balance", "sending", "recording",
                         "answering", "failing", "idle", "leave", "ended"},
                   read : 0 .. Length]
    /\ verdict \in [Endpoints -> Failures \cup {"none", "untried", "refused", "asked", "ok"}]
    /\ admitted \subseteq Endpoints
    /\ answer \in {"none", "whole", "cut", "badGateway"}

(* TCP is passed through unchanged, what was peeked at included: while no  *)
(* end breaks off and the sidecar is not stopped, whoever reads an end of  *)
(* the stream has read, in order, all that the other sent.                 *)
OrderlyEnds ==
    targetConn # "none" /\ client.end # "gone" /\ target.end # "gone" /\ ~ctxDone =>
        /\ targetConn # "open" => target.got = [i \in 1 .. client.sent |-> i]
        /\ conn # "open" => client.got = target.sent

(* loadBalance returns the first success and tries nothing after it; it    *)
(* fails only when every address it read was tried or refused.             *)
FirstSuccessReturned ==
    /\ \A e, f \in Endpoints : verdict[e] = "ok" /\ verdict[f] = "ok" => e = f
    /\ Answered => server.at \notin {"balance", "sending", "failing"} /\ answer # "badGateway"
    /\ server.at = "failing" /\ server.read = Length =>
          \A e \in Endpoints : verdict[e] \in Failures \cup {"refused", "none"}
    /\ answer \in {"whole", "cut"} /\ Balanced => Answered

(* Every request the breaker let through has its result recorded before    *)
(* the next endpoint is asked and before anything is answered, whatever    *)
(* became of the client: no probe of a half-open breaker is left open.     *)
AdmissionsSettled ==
    /\ \A e \in admitted : server.at \in {"sending", "recording"} /\ verdict[e] # "untried"
    /\ \A e, f \in admitted : e = f

(* When the client is done or gone the connection ends, and with it both   *)
(* copies and the server's goroutine.                                      *)
HandlerEnds ==
    client.end # "open" ~> handler = "done" /\ server.at \in {"none", "ended"}

(* A connection being copied ends when the sidecar stops, though neither   *)
(* end does anything.                                                      *)
ShutdownEndsCopies == ctxDone /\ handler = "copy" ~> handler = "done"

(* The response of an endpoint is returned (README.md:163, "Return first   *)
(* successful response"): it finds the connection of a client that is      *)
(* there still open.                                                       *)
ResponseReturned ==
    Answered /\ server.at = "answering" /\ client.end = "open" => conn = "open"
=============================================================================
