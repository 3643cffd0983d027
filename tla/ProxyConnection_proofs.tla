----------------------- MODULE ProxyConnection_proofs -----------------------
(***************************************************************************)
(* For every set of endpoints and rules, and messages of any length: the   *)
(* loop over the endpoints returns the first success and settles what the  *)
(* breaker let through (LoopInv), TCP is passed through whole (Whole and   *)
(* Flow), and a connection over finitely many endpoints runs out of steps  *)
(* (StepsLeft).                                                            *)
(***************************************************************************)
EXTENDS ProxyConnection, SequenceTheorems, FiniteSetTheorems, TLAPS

Chunks == Seq(1 .. Length)

Places == {"none", "head", "body", "pass", "balance", "sending", "recording",
           "answering", "failing", "idle", "leave", "ended"}

LEMMA TailType ==
    ASSUME NEW S, NEW s \in Seq(S), s # <<>>
    PROVE  Tail(s) \in Seq(S)
BY HeadTailProperties

-----------------------------------------------------------------------------
(* Types *)

LEMMA TypeInitial == Init => TypeOK
<1> SUFFICES ASSUME Init
             PROVE  TypeOK
  OBVIOUS
<1>1. <<>> \in Chunks
  BY EmptySeq DEF Chunks
<1>2. 0 \in 0 .. Length /\ 0 \in 0 .. MaxReplies
  BY ConnectionAssumption
<1>3. /\ client \in [end : Ends, sent : 0 .. Length, got : 0 .. MaxReplies]
      /\ target \in [end : Ends, sent : 0 .. MaxReplies, got : Chunks]
      /\ server \in [at : {"none"}, read : 0 .. Length]
  BY <1>1, <1>2 DEF Init, Ends
<1>4. QED
  BY <1>1, <1>3 DEF Init, TypeOK, Chunks

(* handleConnection and its goroutines leave the server alone, and the     *)
(* server's goroutine leaves all but its own variables and conn alone.     *)
LEMMA HandlerTypeKept ==
    ASSUME TypeOK, UNCHANGED <<fixed, serving>>,
           client' \in [end : Ends, sent : 0 .. Length, got : 0 .. MaxReplies],
           target' \in [end : Ends, sent : 0 .. MaxReplies, got : Seq(1 .. Length)],
           ctxDone' = ctxDone,
           wire' \in Seq(1 .. Length), buffer' \in Seq(1 .. Length),
           conn' \in {"open", "noWrite", "closed"},
           targetConn' \in {"none", "open", "noWrite", "closed"},
           handler' \in {"peek", "serve", "dial", "copy", "close", "done"},
           copying' \subseteq {"up", "down"}
    PROVE  TypeOK'
<1>1. /\ server' = server /\ verdict' = verdict /\ admitted' = admitted /\ answer' = answer
      /\ speaks' = speaks /\ rule' = rule
  BY DEF fixed, serving
<1>2. /\ speaks' \in {"http", "tcp"} /\ rule' \in Rules /\ ctxDone' \in BOOLEAN
      /\ admitted' \subseteq Endpoints /\ answer' \in {"none", "whole", "cut", "badGateway"}
  BY <1>1 DEF TypeOK
<1>3. server' \in [at : {"none", "head", "body", "pass", "balance", "sending", "recording",
                         "answering", "failing", "idle", "leave", "ended"},
                   read : 0 .. Length]
  BY <1>1 DEF TypeOK
<1>4. verdict' \in [Endpoints -> Failures \cup {"none", "untried", "refused", "asked", "ok"}]
  BY <1>1 DEF TypeOK
<1>5. QED
  BY <1>2, <1>3, <1>4, Zenon DEF TypeOK

LEMMA ServingTypeKept ==
    ASSUME TypeOK, UNCHANGED <<fixed, ends, targetConn, handler, copying>>,
           wire' \in Seq(1 .. Length), buffer' \in Seq(1 .. Length),
           conn' \in {"open", "noWrite", "closed"},
           server' \in [at : Places, read : 0 .. Length],
           verdict' \in [Endpoints -> Failures \cup {"none", "untried", "refused", "asked", "ok"}],
           admitted' \subseteq Endpoints,
           answer' \in {"none", "whole", "cut", "badGateway"}
    PROVE  TypeOK'
<1>1. /\ client' = client /\ target' = target /\ ctxDone' = ctxDone
      /\ targetConn' = targetConn /\ handler' = handler /\ copying' = copying
      /\ speaks' = speaks /\ rule' = rule
  BY DEF fixed, ends
<1>2. /\ speaks' \in {"http", "tcp"} /\ rule' \in Rules /\ ctxDone' \in BOOLEAN
      /\ targetConn' \in {"none", "open", "noWrite", "closed"}
      /\ handler' \in {"peek", "serve", "dial", "copy", "close", "done"}
      /\ copying' \subseteq {"up", "down"}
  BY <1>1 DEF TypeOK
<1>3. client' \in [end : Ends, sent : 0 .. Length, got : 0 .. MaxReplies]
  BY <1>1 DEF TypeOK
<1>4. target' \in [end : Ends, sent : 0 .. MaxReplies, got : Seq(1 .. Length)]
  BY <1>1 DEF TypeOK
<1>5. QED
  BY <1>2, <1>3, <1>4, Zenon DEF TypeOK, Places

(* The parts of TypeOK the steps are about. *)
LEMMA TypeParts ==
    ASSUME TypeOK
    PROVE  /\ client \in [end : Ends, sent : 0 .. Length, got : 0 .. MaxReplies]
           /\ target \in [end : Ends, sent : 0 .. MaxReplies, got : Seq(1 .. Length)]
           /\ wire \in Seq(1 .. Length) /\ buffer \in Seq(1 .. Length)
           /\ conn \in {"open", "noWrite", "closed"}
           /\ targetConn \in {"none", "open", "noWrite", "closed"}
           /\ handler \in {"peek", "serve", "dial", "copy", "close", "done"}
           /\ copying \subseteq {"up", "down"}
           /\ server \in [at : Places, read : 0 .. Length]
           /\ verdict \in [Endpoints -> Failures \cup {"none", "untried", "refused", "asked", "ok"}]
           /\ admitted \subseteq Endpoints
           /\ answer \in {"none", "whole", "cut", "badGateway"}
BY Zenon DEF TypeOK, Places

LEMMA EnvironmentType ==
    ASSUME TypeOK,
           \/ ClientSends \/ TargetSends \/ Cancel
           \/ \E how \in {"fin", "gone"} : ClientEnds(how) \/ TargetEnds(how)
    PROVE  TypeOK'
<1>1. CASE ClientSends
  <2>0. client \in [end : Ends, sent : 0 .. Length, got : 0 .. MaxReplies]
    BY DEF TypeOK
  <2>1. client.sent + 1 \in 1 .. Length /\ client.sent + 1 \in 0 .. Length
    BY <1>1, <2>0, ConnectionAssumption DEF ClientSends
  <2>2. wire' \in Seq(1 .. Length)
    BY <1>1, <2>1 DEF ClientSends, TypeOK
  <2>3. client' \in [end : Ends, sent : 0 .. Length, got : 0 .. MaxReplies]
    BY <1>1, <2>0, <2>1 DEF ClientSends
  <2>4. QED
    BY <1>1, <2>2, <2>3 DEF ClientSends, TypeOK, fixed, serving
<1>2. CASE TargetSends
  <2>0. target \in [end : Ends, sent : 0 .. MaxReplies, got : Seq(1 .. Length)]
    BY DEF TypeOK
  <2>1. target.sent + 1 \in 0 .. MaxReplies
    BY <1>2, <2>0, ConnectionAssumption DEF TargetSends
  <2>2. target' \in [end : Ends, sent : 0 .. MaxReplies, got : Seq(1 .. Length)]
    BY <1>2, <2>0, <2>1 DEF TargetSends
  <2>3. QED
    BY <1>2, <2>2 DEF TargetSends, TypeOK, fixed, conns, serving
<1>3. CASE Cancel
  BY <1>3 DEF Cancel, TypeOK, fixed, conns, serving
<1>4. ASSUME NEW how \in {"fin", "gone"}, ClientEnds(how) \/ TargetEnds(how)
      PROVE  TypeOK'
  <2>1. /\ client' \in [end : Ends, sent : 0 .. Length, got : 0 .. MaxReplies]
        /\ target' \in [end : Ends, sent : 0 .. MaxReplies, got : Seq(1 .. Length)]
    <3>1. /\ client \in [end : Ends, sent : 0 .. Length, got : 0 .. MaxReplies]
          /\ target \in [end : Ends, sent : 0 .. MaxReplies, got : Seq(1 .. Length)]
          /\ how \in Ends
      BY TypeParts DEF Ends
    <3>2. \/ client' = [client EXCEPT !.end = how] /\ target' = target
          \/ target' = [target EXCEPT !.end = how] /\ client' = client
      BY <1>4 DEF ClientEnds, TargetEnds
    <3>3. QED
      BY <3>1, <3>2
  <2>2. /\ UNCHANGED <<fixed, serving>> /\ ctxDone' = ctxDone
        /\ wire' = wire /\ buffer' = buffer /\ conn' = conn /\ targetConn' = targetConn
        /\ handler' = handler /\ copying' = copying
    BY <1>4 DEF ClientEnds, TargetEnds, conns
  <2>3. QED
    BY <2>1, <2>2, TypeParts, HandlerTypeKept
<1>6. QED
  BY <1>1, <1>2, <1>3, <1>4

LEMMA GotoType ==
    ASSUME TypeOK, NEW at \in Places, Goto(at)
    PROVE  server' \in [at : Places, read : 0 .. Length]
BY TypeParts DEF Goto

LEMMA HandlerType ==
    ASSUME TypeOK, HandlerStep \/ UpStep \/ DownStep \/ Watch
    PROVE  TypeOK'
<1>0. /\ client \in [end : Ends, sent : 0 .. Length, got : 0 .. MaxReplies]
      /\ target \in [end : Ends, sent : 0 .. MaxReplies, got : Seq(1 .. Length)]
      /\ wire \in Seq(1 .. Length) /\ buffer \in Seq(1 .. Length)
      /\ conn \in {"open", "noWrite", "closed"}
      /\ targetConn \in {"none", "open", "noWrite", "closed"}
      /\ handler \in {"peek", "serve", "dial", "copy", "close", "done"}
      /\ copying \subseteq {"up", "down"}
  BY TypeParts
<1>1. CASE Peek
  <2>1. buffer' \in Seq(1 .. Length) /\ wire' \in Seq(1 .. Length)
    BY <1>0, <1>1 DEF Peek, Fill
  <2>2. /\ UNCHANGED <<fixed, serving>> /\ client' = client /\ target' = target /\ ctxDone' = ctxDone
        /\ conn' = conn /\ targetConn' = targetConn /\ handler' = handler /\ copying' = copying
    BY <1>1 DEF Peek, ends
  <2>3. QED
    BY <1>0, <2>1, <2>2, HandlerTypeKept
<1>2. CASE Route \/ Wait
  <2>1. handler' \in {"serve", "dial", "close"}
    BY <1>2 DEF Route, Wait
  <2>2. /\ UNCHANGED <<fixed, serving>> /\ client' = client /\ target' = target /\ ctxDone' = ctxDone
        /\ wire' = wire /\ buffer' = buffer
        /\ conn' = conn /\ targetConn' = targetConn /\ copying' = copying
    BY <1>2 DEF Route, Wait, ends, conns
  <2>3. QED
    BY <1>0, <2>1, <2>2, HandlerTypeKept
<1>3. CASE Accept /\ server.at = "none"
  <2>1. server' \in [at : Places, read : 0 .. Length]
    BY <1>3, GotoType DEF Accept, Goto, Places
  <2>2. /\ UNCHANGED <<fixed, ends, targetConn, handler, copying>>
        /\ wire' = wire /\ buffer' = buffer /\ conn' = conn
        /\ verdict' = verdict /\ admitted' = admitted /\ answer' = answer
    BY <1>3 DEF Accept, conns
  <2>3. QED
    BY <2>1, <2>2, TypeParts, ServingTypeKept
<1>4. CASE Accept /\ server.at # "none"
  <2>1. /\ UNCHANGED <<fixed, serving>> /\ client' = client /\ target' = target /\ ctxDone' = ctxDone
        /\ wire' = wire /\ buffer' = buffer
        /\ conn' = conn /\ targetConn' = targetConn /\ copying' = copying /\ handler' = "close"
    BY <1>4 DEF Accept, ends, conns, serving
  <2>2. QED
    BY <1>0, <2>1, HandlerTypeKept
<1>5. CASE Dial
  <2>1. /\ handler' \in {"copy", "close"} /\ copying' \subseteq {"up", "down"}
        /\ targetConn' \in {"none", "open", "noWrite", "closed"}
    BY <1>0, <1>5 DEF Dial
  <2>2. /\ UNCHANGED <<fixed, serving>> /\ client' = client /\ target' = target /\ ctxDone' = ctxDone
        /\ wire' = wire /\ buffer' = buffer /\ conn' = conn
    BY <1>5 DEF Dial, ends
  <2>3. QED
    BY <1>0, <2>1, <2>2, HandlerTypeKept
<1>6. CASE Close \/ Watch
  <2>1. /\ handler' \in {"done", handler} /\ conn' = "closed"
        /\ targetConn' \in {"none", "closed"}
    BY <1>6 DEF Close, Watch, Closed
  <2>2. /\ UNCHANGED <<fixed, serving>> /\ client' = client /\ target' = target /\ ctxDone' = ctxDone
        /\ wire' = wire /\ buffer' = buffer /\ copying' = copying
    BY <1>6 DEF Close, Watch, ends
  <2>3. QED
    BY <1>0, <2>1, <2>2, HandlerTypeKept
<1>7. CASE CopyUp
  <2>1. /\ buffer' \in Seq(1 .. Length) /\ wire' \in Seq(1 .. Length)
        /\ target.got \o buffer \in Chunks /\ target.got \o wire \in Chunks
    <3>1. wire \in Chunks /\ buffer \in Chunks /\ target.got \in Chunks
      BY <1>0 DEF Chunks
    <3>2. target.got \o buffer \in Chunks /\ target.got \o wire \in Chunks
      BY <3>1, ConcatProperties DEF Chunks
    <3>3. <<>> \in Chunks
      BY EmptySeq DEF Chunks
    <3>4. buffer' \in Chunks /\ wire' \in Chunks
      BY <1>7, <3>1, <3>3 DEF CopyUp
    <3>5. QED
      BY <3>2, <3>4 DEF Chunks
  <2>2. target' \in [end : Ends, sent : 0 .. MaxReplies, got : Seq(1 .. Length)]
    <3>0. target \in [end : Ends, sent : 0 .. MaxReplies, got : Chunks]
      BY <1>0 DEF Chunks
    <3>1. target' \in [end : Ends, sent : 0 .. MaxReplies, got : Chunks]
      BY <1>7, <2>1, <3>0 DEF CopyUp
    <3>2. QED
      BY <3>1 DEF Chunks
  <2>3. /\ UNCHANGED <<fixed, serving>> /\ client' = client /\ ctxDone' = ctxDone
        /\ conn' = conn /\ targetConn' = targetConn /\ handler' = handler /\ copying' = copying
    BY <1>7 DEF CopyUp
  <2>4. QED
    BY <1>0, <2>1, <2>2, <2>3, HandlerTypeKept
<1>8. CASE CopyUpEnds \/ CopyDownEnds
  <2>1. /\ copying' \subseteq copying
        /\ conn' \in {conn, "noWrite"} /\ targetConn' \in {targetConn, "noWrite"}
    BY <1>8 DEF CopyUpEnds, CopyDownEnds, CloseWrite
  <2>2. /\ UNCHANGED <<fixed, serving>> /\ client' = client /\ target' = target /\ ctxDone' = ctxDone
        /\ wire' = wire /\ buffer' = buffer /\ handler' = handler
    BY <1>8 DEF CopyUpEnds, CopyDownEnds, ends
  <2>3. QED
    BY <1>0, <2>1, <2>2, HandlerTypeKept
<1>9. CASE CopyDown
  <2>1. client.got + 1 \in 0 .. MaxReplies
    BY <1>0, <1>9, ConnectionAssumption DEF CopyDown
  <2>2. client' \in [end : Ends, sent : 0 .. Length, got : 0 .. MaxReplies]
    BY <1>0, <1>9, <2>1 DEF CopyDown
  <2>3. /\ UNCHANGED <<fixed, serving>> /\ target' = target /\ ctxDone' = ctxDone
        /\ wire' = wire /\ buffer' = buffer /\ conn' = conn /\ targetConn' = targetConn
        /\ handler' = handler /\ copying' = copying
    BY <1>9 DEF CopyDown, conns
  <2>4. QED
    BY <1>0, <2>2, <2>3, HandlerTypeKept
<1>10. QED
  BY <1>1, <1>2, <1>3, <1>4, <1>5, <1>6, <1>7, <1>8, <1>9 DEF HandlerStep, UpStep, DownStep

LEMMA ServerType ==
    ASSUME TypeOK, ServerStep
    PROVE  TypeOK'
<1>0. /\ server \in [at : Places, read : 0 .. Length]
      /\ wire \in Seq(1 .. Length) /\ buffer \in Seq(1 .. Length)
      /\ conn \in {"open", "noWrite", "closed"}
      /\ verdict \in [Endpoints -> Failures \cup {"none", "untried", "refused", "asked", "ok"}]
      /\ admitted \subseteq Endpoints
      /\ answer \in {"none", "whole", "cut", "badGateway"}
  BY TypeParts
<1>1. CASE ReadRequest
  <2>1. buffer' \in Seq(1 .. Length) /\ wire' \in Seq(1 .. Length)
    <3>1. CASE /\ buffer # <<>>
               /\ buffer' = Tail(buffer) /\ wire' = wire
      BY <1>0, <3>1, TailType
    <3>2. CASE Fill
      BY <1>0, <3>2 DEF Fill
    <3>3. QED
      BY <1>1, <3>1, <3>2 DEF ReadRequest
  <2>2. server.read + 1 \in 0 .. Length
    BY <1>0, <1>1, ConnectionAssumption DEF ReadRequest, Reading, Needed
  <2>3. server' \in [at : Places, read : 0 .. Length]
    BY <1>0, <1>1, <2>2 DEF ReadRequest
  <2>4. /\ UNCHANGED <<fixed, ends, targetConn, handler, copying>>
        /\ conn' = conn /\ verdict' = verdict /\ admitted' = admitted /\ answer' = answer
    BY <1>1 DEF ReadRequest
  <2>5. QED
    BY <1>0, <2>1, <2>3, <2>4, ServingTypeKept
<1>2. CASE ReadFails \/ RoundTrip \/ passThrough \/ Record \/ AllFailed \/ Answer \/ BadGateway
  <2>1. \E at \in Places : Goto(at)
    BY <1>2 DEF ReadFails, RoundTrip, passThrough, Record, AllFailed, Answer, BadGateway, Places
  <2>2. /\ UNCHANGED <<fixed, ends, targetConn, handler, copying>>
        /\ wire' = wire /\ buffer' = buffer /\ conn' = conn /\ verdict' = verdict
    BY <1>2 DEF ReadFails, RoundTrip, passThrough, Record, AllFailed, Answer, BadGateway, conns
  <2>3. /\ admitted' \in {admitted, {}}
        /\ answer' \in {answer, "whole", "cut", "badGateway"}
    BY <1>2 DEF ReadFails, RoundTrip, passThrough, Record, AllFailed, Answer, BadGateway
  <2>4. QED
    BY <1>0, <2>1, <2>2, <2>3, GotoType, ServingTypeKept
<1>3. ASSUME NEW eps \in SUBSET Endpoints, getEndpoints(eps)
      PROVE  TypeOK'
  <2>1. Goto("balance") /\ "balance" \in Places
    BY <1>3 DEF getEndpoints, Places
  <2>2. verdict' \in [Endpoints -> Failures \cup {"none", "untried", "refused", "asked", "ok"}]
    BY <1>3 DEF getEndpoints
  <2>3. /\ UNCHANGED <<fixed, ends, targetConn, handler, copying>>
        /\ wire' = wire /\ buffer' = buffer /\ conn' = conn
        /\ admitted' = admitted /\ answer' = answer
    BY <1>3 DEF getEndpoints, conns
  <2>4. QED
    BY <1>0, <2>1, <2>2, <2>3, GotoType, ServingTypeKept
<1>4. ASSUME NEW e \in Endpoints, NEW outcome \in Failures \cup {"ok"},
             Skip(e) \/ Try(e) \/ sendRequest(e, outcome)
      PROVE  TypeOK'
  <2>1. server' = server \/ \E at \in Places : Goto(at)
    BY <1>4 DEF Skip, Try, sendRequest, Places
  <2>2. PICK v \in Failures \cup {"none", "untried", "refused", "asked", "ok"} :
           verdict' = [verdict EXCEPT ![e] = v]
    BY <1>4 DEF Skip, Try, sendRequest
  <2>3. verdict' \in [Endpoints -> Failures \cup {"none", "untried", "refused", "asked", "ok"}]
    BY <1>0, <2>2
  <2>4. /\ UNCHANGED <<fixed, ends, targetConn, handler, copying>>
        /\ wire' = wire /\ buffer' = buffer /\ conn' = conn
        /\ admitted' \subseteq Endpoints /\ answer' = answer
    BY <1>0, <1>4 DEF Skip, Try, sendRequest, conns
  <2>5. QED
    BY <1>0, <2>1, <2>3, <2>4, GotoType, ServingTypeKept
<1>5. CASE Leave
  <2>1. /\ Goto("ended") /\ "ended" \in Places /\ conn' = "closed"
        /\ UNCHANGED <<fixed, ends, targetConn, handler, copying>>
        /\ wire' = wire /\ buffer' = buffer
        /\ verdict' = verdict /\ admitted' = admitted /\ answer' = answer
    BY <1>5 DEF Leave, Places
  <2>2. QED
    BY <1>0, <2>1, GotoType, ServingTypeKept
<1>6. QED
  BY <1>1, <1>2, <1>3, <1>4, <1>5 DEF ServerStep

LEMMA TypeStep == TypeOK /\ [Next]_vars => TypeOK'
<1> SUFFICES ASSUME TypeOK, [Next]_vars
             PROVE  TypeOK'
  OBVIOUS
<1>1. CASE UNCHANGED vars
  BY <1>1 DEF vars, TypeOK, fixed, ends, conns, serving
<1>2. QED
  BY <1>1, EnvironmentType, HandlerType, ServerType DEF Next

(* The chunks on their way stay chunks of the client's, and no counter     *)
(* passes the length of its message.                                       *)
THEOREM TypeCorrect == Spec => []TypeOK
BY TypeInitial, TypeStep, PTL DEF Spec

-----------------------------------------------------------------------------
(* The loop over the endpoints *)

(* Where the loop is decides what can have come of the endpoints: nothing  *)
(* before it, one is asked in a request, none has answered while it goes   *)
(* on, and none is left when it has failed.                                *)
LoopInv ==
    /\ server.at \in {"body", "balance", "sending", "recording"} => Balanced
    /\ server.at = "pass" => ~Balanced
    /\ server.at \in {"none", "head", "body", "pass"} =>
          \A e \in Endpoints : verdict[e] = "none"
    /\ server.at \in {"balance", "sending", "failing"} => ~Answered
    /\ server.at = "answering" /\ Balanced => Answered
    /\ server.at = "failing" /\ server.read = Length =>
          \A e \in Endpoints : verdict[e] # "untried"
    /\ \A e \in Endpoints : verdict[e] = "asked" => server.at = "sending"
    /\ \A e, f \in Endpoints : verdict[e] = "asked" /\ verdict[f] = "asked" => e = f
    /\ \A e, f \in Endpoints : verdict[e] = "ok" /\ verdict[f] = "ok" => e = f
    /\ admitted # {} => server.at \in {"sending", "recording"}
    /\ \A e \in admitted : verdict[e] # "untried"
    /\ \A e, f \in admitted : e = f
    /\ answer # "none" => server.at \in {"idle", "leave", "ended"}
    /\ answer \in {"whole", "cut"} /\ Balanced => Answered
    /\ answer = "badGateway" => ~Answered

LEMMA LoopInitial == Init => LoopInv
BY DEF Init, LoopInv, Answered

(* All that LoopInv speaks of. *)
LoopVars == <<rule, server, verdict, admitted, answer>>

LEMMA LoopUntouched == LoopInv /\ UNCHANGED LoopVars => LoopInv'
BY DEF LoopInv, LoopVars, Balanced, Answered

LEMMA ElsewhereStep ==
    ASSUME LoopInv,
           \/ ClientSends \/ TargetSends \/ Cancel
           \/ \E how \in {"fin", "gone"} : ClientEnds(how) \/ TargetEnds(how)
           \/ Peek \/ Route \/ Dial \/ Wait \/ Close
           \/ UpStep \/ DownStep \/ Watch
    PROVE  LoopInv'
<1>1. UNCHANGED LoopVars
  BY DEF ClientSends, TargetSends, Cancel, ClientEnds, TargetEnds, Peek, Route, Dial, Wait,
         Close, UpStep, CopyUp, CopyUpEnds, DownStep, CopyDown, CopyDownEnds, Watch,
         fixed, serving, LoopVars
<1>2. QED
  BY <1>1, LoopUntouched

(* What is left to show when the server only moves on. *)
LEMMA AcceptStep ==
    ASSUME TypeOK, LoopInv, Accept
    PROVE  LoopInv'
<1>1. CASE UNCHANGED LoopVars
  BY <1>1, LoopUntouched
<1>2. CASE server.at = "none" /\ server' = [server EXCEPT !.at = "head"]
  <2>1. server'.at = "head"
    BY <1>2 DEF TypeOK
  <2>2. UNCHANGED <<rule, verdict, admitted, answer>>
    BY DEF Accept, fixed
  <2>3. QED
    BY <1>2, <2>1, <2>2 DEF LoopInv, Balanced, Answered
<1>3. QED
  BY <1>1, <1>2 DEF Accept, fixed, LoopVars

LEMMA ServerStepLoop ==
    ASSUME TypeOK, LoopInv, ServerStep
    PROVE  LoopInv'
<1>0. /\ server \in [at : Places, read : 0 .. Length]
      /\ verdict \in [Endpoints -> Failures \cup {"none", "untried", "refused", "asked", "ok"}]
      /\ admitted \subseteq Endpoints
  BY DEF TypeOK, Places
<1>1. CASE ReadRequest
  <2>1. server'.at = server.at /\ server'.at \in {"head", "body"}
    BY <1>0, <1>1 DEF ReadRequest, Reading
  <2>2. UNCHANGED <<rule, verdict, admitted, answer>>
    BY <1>1 DEF ReadRequest, fixed
  <2>3. QED
    BY <2>1, <2>2 DEF LoopInv, Balanced, Answered
<1>2. CASE ReadFails
  <2>1. /\ server.at \in {"head", "body"} /\ server.read < Needed
        /\ server'.at = IF server.at = "head" THEN "leave" ELSE "failing"
        /\ server'.read = server.read
    BY <1>0, <1>2 DEF ReadFails, Reading, Goto
  <2>2. UNCHANGED <<rule, verdict, admitted, answer>>
    BY <1>2 DEF ReadFails, fixed
  <2>3. \A e \in Endpoints : verdict[e] = "none"
    BY <2>1 DEF LoopInv
  <2>4. QED
    BY <2>1, <2>2, <2>3 DEF LoopInv, Balanced, Answered
<1>3. CASE RoundTrip
  <2>1. server.at = "head" /\ server'.at = IF Balanced THEN "body" ELSE "pass"
    BY <1>0, <1>3 DEF RoundTrip, Goto
  <2>2. UNCHANGED <<rule, verdict, admitted, answer>>
    BY <1>3 DEF RoundTrip, fixed
  <2>3. QED
    BY <2>1, <2>2 DEF LoopInv, Balanced, Answered
<1>4. CASE passThrough
  <2>1. server.at = "pass" /\ server'.at \in {"answering", "failing"}
    BY <1>0, <1>4 DEF passThrough, Goto
  <2>2. UNCHANGED <<rule, verdict, admitted, answer>>
    BY <1>4 DEF passThrough, fixed
  <2>3. QED
    BY <2>1, <2>2 DEF LoopInv, Balanced, Answered
<1>5. ASSUME NEW eps \in SUBSET Endpoints, getEndpoints(eps)
      PROVE  LoopInv'
  <2>1. server.at = "body" /\ server'.at = "balance"
    BY <1>0, <1>5 DEF getEndpoints, Goto
  <2>2. UNCHANGED <<rule, admitted, answer>>
    BY <1>5 DEF getEndpoints, fixed
  <2>3. \A e \in Endpoints : verdict'[e] \in {"untried", "none"}
    BY <1>5 DEF getEndpoints
  <2>4. admitted = {} /\ answer = "none"
    BY <2>1 DEF LoopInv
  <2>5. QED
    BY <2>1, <2>2, <2>3, <2>4 DEF LoopInv, Balanced, Answered
<1>6. ASSUME NEW e \in Endpoints, Skip(e)
      PROVE  LoopInv'
  <2>1. UNCHANGED <<rule, server, admitted, answer>> /\ server.at = "balance"
    BY <1>6 DEF Skip, fixed
  <2>2. \A f \in Endpoints : verdict'[f] = IF f = e THEN "refused" ELSE verdict[f]
    BY <1>0, <1>6 DEF Skip
  <2>3. admitted = {} /\ answer = "none"
    BY <2>1 DEF LoopInv
  <2>4. QED
    BY <2>1, <2>2, <2>3 DEF LoopInv, Balanced, Answered
<1>7. ASSUME NEW e \in Endpoints, Try(e)
      PROVE  LoopInv'
  <2>1. server.at = "balance" /\ server'.at = "sending" /\ UNCHANGED <<rule, answer>>
    BY <1>0, <1>7 DEF Try, Goto, fixed
  <2>2. \A f \in Endpoints : verdict'[f] = IF f = e THEN "asked" ELSE verdict[f]
    BY <1>0, <1>7 DEF Try
  <2>3. admitted' \subseteq {e} /\ answer = "none"
    BY <1>7, <2>1 DEF Try, LoopInv
  <2>4. QED
    BY <2>1, <2>2, <2>3 DEF LoopInv, Balanced, Answered
<1>8. ASSUME NEW e \in Endpoints, NEW outcome \in Failures \cup {"ok"}, sendRequest(e, outcome)
      PROVE  LoopInv'
  <2>1. /\ server.at = "sending" /\ server'.at = "recording" /\ verdict[e] = "asked"
        /\ UNCHANGED <<rule, admitted, answer>>
    BY <1>0, <1>8 DEF sendRequest, Goto, fixed
  <2>2. \A f \in Endpoints : verdict'[f] = IF f = e THEN outcome ELSE verdict[f]
    BY <1>0, <1>8 DEF sendRequest
  <2>3. outcome \notin {"asked", "untried"}
    BY DEF Failures
  <2>4. \A f \in Endpoints : verdict[f] # "ok" /\ (f # e => verdict[f] # "asked")
    BY <2>1 DEF LoopInv, Answered
  <2>5. \A f \in admitted : verdict'[f] # "untried"
    BY <1>0, <2>2, <2>3 DEF LoopInv
  <2>6. answer = "none"
    BY <2>1 DEF LoopInv
  <2>7. QED
    BY <2>1, <2>2, <2>3, <2>4, <2>5, <2>6 DEF LoopInv, Balanced, Answered
<1>9. CASE Record
  <2>1. /\ server.at = "recording" /\ admitted' = {}
        /\ server'.at = IF Answered THEN "answering" ELSE "balance"
        /\ UNCHANGED <<rule, verdict, answer>>
    BY <1>0, <1>9 DEF Record, Goto, fixed
  <2>2. answer = "none"
    BY <2>1 DEF LoopInv
  <2>3. QED
    BY <2>1, <2>2 DEF LoopInv, Balanced, Answered
<1>10. CASE AllFailed
  <2>1. /\ server.at = "balance" /\ server'.at = "failing"
        /\ \A e \in Endpoints : verdict[e] # "untried"
        /\ UNCHANGED <<rule, verdict, admitted, answer>>
    BY <1>0, <1>10 DEF AllFailed, Goto, fixed
  <2>2. QED
    BY <2>1 DEF LoopInv, Balanced, Answered
<1>11. CASE Answer
  <2>1. /\ server.at = "answering" /\ server'.at \in {"idle", "leave"}
        /\ answer' \in {"whole", "cut", answer}
        /\ UNCHANGED <<rule, verdict, admitted>>
    BY <1>0, <1>11 DEF Answer, Goto, fixed
  <2>2. QED
    BY <2>1 DEF LoopInv, Balanced, Answered
<1>12. CASE BadGateway
  <2>1. /\ server.at = "failing" /\ server'.at \in {"idle", "leave"}
        /\ answer' \in {"badGateway", answer}
        /\ UNCHANGED <<rule, verdict, admitted>>
    BY <1>0, <1>12 DEF BadGateway, Goto, fixed
  <2>2. QED
    BY <2>1 DEF LoopInv, Balanced, Answered
<1>13. CASE Leave
  <2>1. /\ server.at \in {"idle", "leave"} /\ server'.at = "ended"
        /\ UNCHANGED <<rule, verdict, admitted, answer>>
    BY <1>0, <1>13 DEF Leave, Goto, fixed
  <2>2. QED
    BY <2>1 DEF LoopInv, Balanced, Answered
<1>14. QED
  BY <1>1, <1>2, <1>3, <1>4, <1>5, <1>6, <1>7, <1>8, <1>9, <1>10, <1>11, <1>12, <1>13
     DEF ServerStep

LEMMA LoopStep == TypeOK /\ LoopInv /\ [Next]_vars => LoopInv'
<1> SUFFICES ASSUME TypeOK, LoopInv, [Next]_vars
             PROVE  LoopInv'
  OBVIOUS
<1>1. CASE UNCHANGED vars
  BY <1>1, LoopUntouched DEF vars, fixed, serving, LoopVars
<1>2. QED
  BY <1>1, ElsewhereStep, AcceptStep, ServerStepLoop DEF Next, HandlerStep

LEMMA LoopInvariant == Spec => []LoopInv
BY LoopInitial, LoopStep, TypeCorrect, PTL DEF Spec

(* Whatever the endpoints and the breaker answer, the first success is     *)
(* returned and the last one asked, and only a loop that has exhausted the *)
(* addresses it read fails.                                                *)
THEOREM LoopCorrect == Spec => []FirstSuccessReturned
<1>1. TypeOK /\ LoopInv => FirstSuccessReturned
  <2> SUFFICES ASSUME TypeOK, LoopInv
               PROVE  FirstSuccessReturned
    OBVIOUS
  <2>1. server.at = "failing" /\ server.read = Length =>
          \A e \in Endpoints : verdict[e] \in Failures \cup {"refused", "none"}
    BY DEF TypeOK, LoopInv, Answered
  <2>2. QED
    BY <2>1, Zenon DEF LoopInv, FirstSuccessReturned
<1>2. QED
  BY <1>1, TypeCorrect, LoopInvariant, PTL

(* Every request the breaker let through has its result recorded before    *)
(* another is let through and before the client is answered.               *)
THEOREM Settled == Spec => []AdmissionsSettled
<1>1. LoopInv => AdmissionsSettled
  BY DEF LoopInv, AdmissionsSettled
<1>2. QED
  BY <1>1, LoopInvariant, PTL

-----------------------------------------------------------------------------
(* The stream towards the target *)

Upto(n) == [i \in 1 .. n |-> i]

Calm == client.end # "gone" /\ target.end # "gone" /\ ~ctxDone

(* Unless the server's goroutine reads the connection, what the target has,*)
(* what was peeked at and what is on the wire are all the client sent.     *)
Whole == server.at = "none" => (target.got \o buffer) \o wire = Upto(client.sent)

(* Which connections are open where the handler is; and a copy that has    *)
(* ended had, if nothing broke off, all there was and will be.             *)
Flow ==
    /\ handler \in {"peek", "dial"} => server.at = "none" /\ conn = "open"
    /\ handler \in {"peek", "dial", "serve"} \/ server.at # "none" => targetConn = "none"
    /\ handler = "copy" => targetConn # "none"
    /\ handler # "copy" => copying = {}
    /\ "up" \in copying /\ ~ctxDone => targetConn = "open" /\ conn # "closed"
    /\ "down" \in copying /\ ~ctxDone => targetConn # "closed" /\ conn = "open"
    /\ client.got <= target.sent
    /\ targetConn # "none" /\ Calm /\ "up" \notin copying =>
          buffer = <<>> /\ wire = <<>> /\ client.end = "fin"
    /\ targetConn # "none" /\ Calm /\ "down" \notin copying =>
          client.got = target.sent /\ target.end = "fin"

LEMMA ConcatFacts ==
    ASSUME NEW S, NEW s \in Seq(S), NEW t \in Seq(S), NEW u \in Seq(S)
    PROVE  /\ (s \o t) \o u = s \o (t \o u)
           /\ s \o <<>> = s /\ <<>> \o s = s
           /\ s \o t \in Seq(S) /\ <<>> \in Seq(S)
BY ConcatAssociative, ConcatEmptySeq, ConcatProperties, EmptySeq

LEMMA AllAssociative ==
    \A s, t, u \in Seq(Nat) : (s \o t) \o u = s \o (t \o u)
BY ConcatAssociative, SMTT(60)

LEMMA UptoAppend ==
    ASSUME NEW n \in Nat, NEW s \in Seq(Nat), NEW t \in Seq(Nat), s \o t = Upto(n)
    PROVE  s \o Append(t, n + 1) = Upto(n + 1)
<1>1. /\ Len(s) + Len(t) = n
      /\ \A i \in 1 .. n : (s \o t)[i] = i
  <2>1. s \o t \in Seq(Nat) /\ Len(s \o t) = Len(s) + Len(t)
    BY ConcatProperties
  <2>2. DOMAIN (s \o t) = 1 .. n
    BY DEF Upto
  <2>3. DOMAIN (s \o t) = 1 .. Len(s \o t) /\ Len(s \o t) \in Nat
    BY <2>1, LenProperties
  <2>4. QED
    BY <2>1, <2>2, <2>3 DEF Upto
<1> DEFINE a == Append(t, n + 1)
           r == s \o a
<1>2. /\ a \in Seq(Nat)
      /\ Len(a) = Len(t) + 1
      /\ \A i \in 1 .. Len(t) + 1 : a[i] = IF i <= Len(t) THEN t[i] ELSE n + 1
  BY LenProperties
<1>3. Len(s) \in Nat /\ Len(t) \in Nat
  BY LenProperties
<1> HIDE DEF a
<1>4. /\ r \in Seq(Nat) /\ Len(r) = n + 1
      /\ \A i \in 1 .. n + 1 : r[i] = IF i <= Len(s) THEN s[i] ELSE a[i - Len(s)]
  <2>1. /\ r \in Seq(Nat)
        /\ Len(r) = Len(s) + Len(a)
        /\ \A i \in 1 .. Len(s) + Len(a) :
              r[i] = IF i <= Len(s) THEN s[i] ELSE a[i - Len(s)]
    BY <1>2, ConcatProperties
  <2>2. Len(s) + Len(a) = n + 1
    BY <1>1, <1>2, <1>3
  <2>3. QED
    BY <2>1, <2>2
<1> HIDE DEF r
<1>5. ASSUME NEW i \in 1 .. n + 1
      PROVE  r[i] = i
  <2>1. CASE i <= n
    <3>0. i \in 1 .. n /\ i \in 1 .. Len(s) + Len(t)
      BY <1>1, <2>1
    <3>1. (s \o t)[i] = IF i <= Len(s) THEN s[i] ELSE t[i - Len(s)]
      BY <3>0, ConcatProperties
    <3>2. (s \o t)[i] = i
      BY <1>1, <3>0
    <3>3. ~(i <= Len(s)) => i - Len(s) \in 1 .. Len(t) + 1 /\ i - Len(s) <= Len(t)
      BY <1>3, <3>0
    <3>4. ~(i <= Len(s)) => a[i - Len(s)] = t[i - Len(s)]
      BY <1>2, <3>3
    <3>5. QED
      BY <1>4, <3>1, <3>2, <3>4
  <2>2. CASE i = n + 1
    <3>1. i - Len(s) = Len(t) + 1 /\ ~(i <= Len(s))
      BY <1>1, <1>3, <2>2
    <3>2. Len(t) + 1 \in 1 .. Len(t) + 1 /\ ~(Len(t) + 1 <= Len(t))
      BY <1>3
    <3>3. a[Len(t) + 1] = n + 1
      BY <1>2, <3>2
    <3>4. QED
      BY <1>4, <2>2, <3>1, <3>3
  <2>3. i <= n \/ i = n + 1
    OBVIOUS
  <2>4. QED
    BY <2>1, <2>2, <2>3
<1>6. r = [i \in 1 .. n + 1 |-> r[i]]
  BY <1>4, LenProperties
<1>7. r = Upto(n + 1)
  BY <1>5, <1>6 DEF Upto
<1>8. QED
  BY <1>7 DEF r, a

LEMMA StreamTypes ==
    ASSUME TypeOK
    PROVE  /\ wire \in Seq(Nat) /\ buffer \in Seq(Nat) /\ target.got \in Seq(Nat)
           /\ client.sent \in Nat /\ client.got \in Nat /\ target.sent \in Nat
<1>1. 1 .. Length \subseteq Nat /\ 0 .. Length \subseteq Nat /\ 0 .. MaxReplies \subseteq Nat
  BY ConnectionAssumption
<1>2. /\ wire \in Seq(1 .. Length) /\ buffer \in Seq(1 .. Length)
      /\ target.got \in Seq(1 .. Length)
  BY DEF TypeOK
<1>3. QED
  BY <1>1, <1>2, SeqMonotonic DEF TypeOK

LEMMA StreamInitial == Init => Whole /\ Flow
<1> SUFFICES ASSUME Init
             PROVE  Whole /\ Flow
  OBVIOUS
<1>1. (<<>> \o <<>>) \o <<>> = Upto(0)
  <2>1. <<>> \in Seq(Nat)
    BY EmptySeq
  <2>2. (<<>> \o <<>>) \o <<>> = <<>>
    BY <2>1, ConcatFacts
  <2>3. Upto(0) = <<>>
    <3>1. Upto(0) \in Seq(Nat) /\ Len(Upto(0)) = 0
      BY DEF Upto
    <3>2. QED
      BY <3>1, EmptySeq
  <2>4. QED
    BY <2>2, <2>3
<1>2. Whole
  BY <1>1 DEF Init, Whole
<1>3. Flow
  BY DEF Init, Flow
<1>4. QED
  BY <1>2, <1>3

(* Chunks move on, from the wire to the buffer or to the target: nothing   *)
(* is lost, doubled or overtaken.                                          *)
LEMMA WholeStep ==
    ASSUME TypeOK, Whole, Flow, [Next]_vars
    PROVE  Whole'
<1> SUFFICES ASSUME server'.at = "none"
             PROVE  (target'.got \o buffer') \o wire' = Upto(client'.sent)
  BY DEF Whole
<1>0. /\ wire \in Seq(Nat) /\ buffer \in Seq(Nat) /\ target.got \in Seq(Nat)
      /\ client.sent \in Nat
  BY StreamTypes
<1>1. server.at = "none"
  BY DEF Next, HandlerStep, UpStep, DownStep, ServerStep, ClientSends, ClientEnds, TargetSends,
         TargetEnds, Cancel, Peek, Route, Accept, Dial, Wait, Close, CopyUp, CopyUpEnds,
         CopyDown, CopyDownEnds, Watch, ReadRequest, Reading, ReadFails, RoundTrip, passThrough,
         getEndpoints, Skip, Try, sendRequest, Record, AllFailed, Answer, BadGateway, Leave,
         Goto, serving, vars, TypeOK
<1>2. CASE ClientSends
  <2>1. /\ client'.sent = client.sent + 1
        /\ wire' = Append(wire, client.sent + 1)
        /\ buffer' = buffer /\ target' = target
    BY <1>2 DEF ClientSends, TypeOK
  <2>2. target.got \o buffer \in Seq(Nat)
    BY <1>0, ConcatFacts
  <2>3. (target.got \o buffer) \o wire = Upto(client.sent)
    BY <1>1 DEF Whole
  <2>4. (target.got \o buffer) \o Append(wire, client.sent + 1) = Upto(client.sent + 1)
    BY <1>0, <2>2, <2>3, UptoAppend
  <2>5. QED
    BY <2>1, <2>4
<1>3. CASE Peek
  <2>1. /\ buffer' = buffer \o wire /\ wire' = <<>>
        /\ target' = target /\ client' = client
    BY <1>3 DEF Peek, Fill, ends
  <2>2. (target.got \o (buffer \o wire)) \o <<>> = (target.got \o buffer) \o wire
    <3>1. buffer \o wire \in Seq(Nat)
      BY <1>0, ConcatFacts
    <3>2. target.got \o (buffer \o wire) \in Seq(Nat)
      BY <1>0, <3>1, ConcatFacts
    <3>3. (target.got \o (buffer \o wire)) \o <<>> = target.got \o (buffer \o wire)
      BY <3>2, ConcatFacts
    <3>4. (target.got \o buffer) \o wire = target.got \o (buffer \o wire)
      BY <1>0, AllAssociative
    <3>5. QED
      BY <3>3, <3>4
  <2>3. QED
    BY <1>1, <2>1, <2>2 DEF Whole
<1>4. CASE CopyUp
  <2>1. client' = client
    BY <1>4 DEF CopyUp
  <2>2. CASE /\ target'.got = target.got \o buffer
             /\ buffer' = <<>> /\ wire' = wire
    <3>1. ((target.got \o buffer) \o <<>>) \o wire = (target.got \o buffer) \o wire
      BY <1>0, ConcatFacts
    <3>2. QED
      BY <1>1, <2>1, <2>2, <3>1 DEF Whole
  <2>3. CASE /\ buffer = <<>>
             /\ target'.got = target.got \o wire
             /\ wire' = <<>> /\ buffer' = buffer
    <3>1. /\ ((target.got \o wire) \o <<>>) \o <<>> = target.got \o wire
          /\ (target.got \o <<>>) \o wire = target.got \o wire
      BY <1>0, ConcatFacts
    <3>2. QED
      BY <1>1, <2>1, <2>3, <3>1 DEF Whole
  <2>4. QED
    BY <1>4, <2>2, <2>3 DEF CopyUp, TypeOK
<1>5. CASE ~ClientSends /\ ~Peek /\ ~CopyUp
  <2>1. ~ReadRequest
    BY <1>1 DEF ReadRequest, Reading
  <2>2. UNCHANGED <<wire, buffer>>
    BY <1>5, <2>1
       DEF Next, HandlerStep, UpStep, DownStep, ServerStep, ClientEnds, TargetSends,
           TargetEnds, Cancel, Route, Accept, Dial, Wait, Close, CopyUpEnds,
           CopyDown, CopyDownEnds, Watch, ReadFails, RoundTrip, passThrough,
           getEndpoints, Skip, Try, sendRequest, Record, AllFailed, Answer, BadGateway, Leave,
           conns, vars
  <2>3. target'.got = target.got /\ client'.sent = client.sent
    BY <1>5, <2>1
       DEF Next, HandlerStep, UpStep, DownStep, ServerStep, ClientEnds, TargetSends,
           TargetEnds, Cancel, Route, Accept, Dial, Wait, Close, CopyUpEnds,
           CopyDown, CopyDownEnds, Watch, ReadFails, RoundTrip, passThrough,
           getEndpoints, Skip, Try, sendRequest, Record, AllFailed, Answer, BadGateway, Leave,
           ends, vars, TypeOK
  <2>4. QED
    BY <1>1, <2>2, <2>3 DEF Whole
<1>6. QED
  BY <1>2, <1>3, <1>4, <1>5

(* Who reads and writes must find its connections open, and what ended     *)
(* well does not begin again.                                              *)
LEMMA FlowStep ==
    ASSUME TypeOK, Flow, [Next]_vars
    PROVE  Flow'
<1>0. /\ client \in [end : Ends, sent : 0 .. Length, got : 0 .. MaxReplies]
      /\ target \in [end : Ends, sent : 0 .. MaxReplies, got : Seq(1 .. Length)]
      /\ server \in [at : Places, read : 0 .. Length]
      /\ client.got \in Nat /\ target.sent \in Nat
  BY StreamTypes DEF TypeOK, Places
<1>1. CASE ClientSends
  <2>1. client.end = "open" /\ client'.end = client.end /\ client'.got = client.got
    BY <1>0, <1>1 DEF ClientSends
  <2>2. UNCHANGED <<target, ctxDone, conn, targetConn, handler, copying, server>>
    BY <1>1 DEF ClientSends, serving
  <2>3. QED
    BY <2>1, <2>2 DEF Flow, Calm
<1>2. CASE TargetSends
  <2>1. /\ target.end = "open" /\ target'.end = target.end
        /\ target'.sent = target.sent + 1
    BY <1>0, <1>2 DEF TargetSends
  <2>2. UNCHANGED <<client, ctxDone, wire, buffer, conn, targetConn, handler, copying, server>>
    BY <1>2 DEF TargetSends, conns, serving
  <2>3. client.got <= target.sent + 1
    BY <1>0 DEF Flow
  <2>4. QED
    BY <2>1, <2>2, <2>3 DEF Flow, Calm
<1>3. CASE Cancel
  BY <1>3 DEF Cancel, conns, serving, Flow, Calm
<1>4. ASSUME NEW how \in {"fin", "gone"}, ClientEnds(how)
      PROVE  Flow'
  <2>1. /\ client.end # "gone" /\ client'.end = how /\ client'.got = client.got
        /\ client.end = "fin" => how = "gone"
    BY <1>0, <1>4 DEF ClientEnds
  <2>2. UNCHANGED <<target, ctxDone, wire, buffer, conn, targetConn, handler, copying, server>>
    BY <1>4 DEF ClientEnds, conns, serving
  <2>3. QED
    BY <2>1, <2>2 DEF Flow, Calm
<1>5. ASSUME NEW how \in {"fin", "gone"}, TargetEnds(how)
      PROVE  Flow'
  <2>1. /\ target.end # "gone" /\ target'.end = how /\ target'.sent = target.sent
        /\ target.end = "fin" => how = "gone"
    BY <1>0, <1>5 DEF TargetEnds
  <2>2. UNCHANGED <<client, ctxDone, wire, buffer, conn, targetConn, handler, copying, server>>
    BY <1>5 DEF TargetEnds, conns, serving
  <2>3. QED
    BY <2>1, <2>2 DEF Flow, Calm
<1>6. CASE Peek
  BY <1>6 DEF Peek, Fill, ends, serving, Flow, Calm
<1>7. CASE Route
  BY <1>7 DEF Route, ends, conns, serving, Flow, Calm
<1>8. CASE Accept
  <2>1. UNCHANGED <<client, target, ctxDone, wire, buffer, conn, targetConn, copying>>
    BY <1>8 DEF Accept, ends, conns
  <2>2. handler = "serve" /\ handler' \in {"serve", "close"}
    BY <1>8 DEF Accept
  <2>3. QED
    BY <2>1, <2>2 DEF Flow, Calm
<1>9. CASE Dial
  BY <1>9 DEF Dial, ends, serving, Flow, Calm
<1>10. CASE Wait
  BY <1>10 DEF Wait, ends, conns, serving, Flow, Calm
<1>11. CASE Close
  BY <1>11 DEF Close, Closed, ends, serving, Flow, Calm
<1>12. CASE CopyUp
  <2>1. /\ target'.end = target.end /\ target'.sent = target.sent
        /\ "up" \in copying
        /\ UNCHANGED <<client, ctxDone, conn, targetConn, handler, copying, server>>
    BY <1>0, <1>12 DEF CopyUp, serving
  <2>2. QED
    BY <2>1 DEF Flow, Calm
<1>13. CASE CopyUpEnds
  <2>1. /\ "up" \in copying /\ CopyUpOver
        /\ copying' = copying \ {"up"}
        /\ targetConn' = IF targetConn = "open" THEN "noWrite" ELSE targetConn
        /\ UNCHANGED <<client, target, ctxDone, wire, buffer, conn, handler, server>>
    BY <1>13 DEF CopyUpEnds, CloseWrite, ends, serving
  <2>2. Calm => buffer = <<>> /\ wire = <<>> /\ client.end = "fin"
    BY <2>1 DEF Flow, Calm, CopyUpOver, AtEnd, TargetWritable
  <2>3. handler = "copy"
    BY <2>1 DEF Flow
  <2>4. QED
    BY <2>1, <2>2, <2>3 DEF Flow, Calm
<1>14. CASE CopyDown
  <2>1. /\ client'.end = client.end /\ client'.got = client.got + 1
        /\ "down" \in copying /\ client.got < target.sent
        /\ UNCHANGED <<target, ctxDone, wire, buffer, conn, targetConn, handler, copying, server>>
    BY <1>0, <1>14 DEF CopyDown, conns, serving
  <2>2. client.got + 1 <= target.sent
    BY <1>0, <2>1
  <2>3. QED
    BY <2>1, <2>2 DEF Flow, Calm
<1>15. CASE CopyDownEnds
  <2>1. /\ "down" \in copying /\ CopyDownOver
        /\ copying' = copying \ {"down"}
        /\ conn' = IF conn = "open" THEN "noWrite" ELSE conn
        /\ UNCHANGED <<client, target, ctxDone, wire, buffer, targetConn, handler, server>>
    BY <1>15 DEF CopyDownEnds, CloseWrite, ends, serving
  <2>2. Calm => client.got = target.sent /\ target.end = "fin"
    BY <2>1 DEF Flow, Calm, CopyDownOver, ClientWritable
  <2>3. handler = "copy"
    BY <2>1 DEF Flow
  <2>4. QED
    BY <2>1, <2>2, <2>3 DEF Flow, Calm
<1>16. CASE Watch
  BY <1>16 DEF Watch, ends, serving, Flow, Calm
<1>17. CASE ServerStep
  <2>1. /\ server.at # "none" /\ server'.at # "none"
        /\ UNCHANGED <<client, target, ctxDone, targetConn, handler, copying>>
        /\ conn' \in {conn, "closed"}
    BY <1>0, <1>17
       DEF ServerStep, ReadRequest, Reading, ReadFails, RoundTrip, passThrough, getEndpoints,
           Skip, Try, sendRequest, Record, AllFailed, Answer, BadGateway, Leave, Goto, ends, conns
  <2>2. targetConn = "none" /\ handler \notin {"peek", "dial", "copy"} /\ copying = {}
    BY <2>1 DEF Flow
  <2>3. QED
    BY <2>1, <2>2 DEF Flow
<1>18. CASE UNCHANGED vars
  BY <1>18 DEF vars, ends, conns, serving, Flow, Calm
<1>19. QED
  BY <1>1, <1>2, <1>3, <1>4, <1>5, <1>6, <1>7, <1>8, <1>9, <1>10, <1>11, <1>12, <1>13,
     <1>14, <1>15, <1>16, <1>17, <1>18 DEF Next, HandlerStep, UpStep, DownStep

LEMMA StreamInvariant == Spec => [](Whole /\ Flow)
<1>1. TypeOK /\ Whole /\ Flow /\ [Next]_vars => Whole' /\ Flow'
  BY WholeStep, FlowStep
<1>2. QED
  BY <1>1, StreamInitial, TypeCorrect, PTL DEF Spec

(* TCP is passed through whole in both directions, whatever is peeked at   *)
(* and whichever end finishes first: whoever reads the end of the stream   *)
(* has read all that was sent, in order.                                   *)
THEOREM PassedThrough == Spec => []OrderlyEnds
<1>1. TypeOK /\ Whole /\ Flow => OrderlyEnds
  <2> SUFFICES ASSUME TypeOK, Whole, Flow, targetConn # "none", Calm
               PROVE  /\ targetConn # "open" => target.got = Upto(client.sent)
                      /\ conn # "open" => client.got = target.sent
    BY DEF OrderlyEnds, Calm, Upto
  <2>1. ASSUME targetConn # "open"
        PROVE  target.got = Upto(client.sent)
    <3>1. buffer = <<>> /\ wire = <<>> /\ server.at = "none"
      BY <2>1 DEF Flow, Calm
    <3>2. (target.got \o <<>>) \o <<>> = target.got
      BY StreamTypes, ConcatFacts
    <3>3. QED
      BY <3>1, <3>2 DEF Whole
  <2>2. ASSUME conn # "open"
        PROVE  client.got = target.sent
    BY <2>2 DEF Flow, Calm
  <2>3. QED
    BY <2>1, <2>2
<1>2. QED
  BY <1>1, TypeCorrect, StreamInvariant, PTL

-----------------------------------------------------------------------------
(* Nobody waits for good *)

(* The guards of the goroutines' steps, each equal to the ENABLED of its   *)
(* step: what the fairness of FairSpec makes happen.                       *)
HandlerMayStep ==
    \/ handler = "peek" /\ (Len(buffer) >= PeekChunks \/ AtEnd \/ wire # <<>>)
    \/ handler \in {"serve", "dial", "close"}
    \/ handler = "copy" /\ copying = {}

UpMayStep ==
    /\ "up" \in copying
    /\ \/ TargetWritable /\ (buffer # <<>> \/ (wire # <<>> /\ conn # "closed"))
       \/ CopyUpOver

DownMayStep ==
    /\ "down" \in copying
    /\ \/ ClientWritable /\ targetConn # "closed" /\ client.got < target.sent
       \/ CopyDownOver

WatchMayStep ==
    /\ handler \in {"copy", "close"} /\ targetConn # "none" /\ ctxDone
    /\ conn # "closed" \/ targetConn # "closed"

TargetMayFinish == targetConn \in {"noWrite", "closed"} /\ target.end = "open"

ServerMayStep ==
    \/ Reading
    \/ server.at = "head" /\ server.read = HeadChunks
    \/ server.at = "body" /\ server.read = Length
    \/ server.at \in {"pass", "balance", "recording", "answering", "failing", "idle", "leave"}
    \/ server.at = "sending" /\ \E e \in Endpoints : verdict[e] = "asked"

SomeoneMayGoOn ==
    HandlerMayStep \/ UpMayStep \/ DownMayStep \/ WatchMayStep \/ TargetMayFinish \/ ServerMayStep

Over == handler = "done" /\ server.at \in {"none", "ended"}

(* Only two things wait for the client: the peek, and a copy in a sidecar  *)
(* that goes on.                                                           *)
NobodyWaitsForGood ==
    ~Over /\ (\/ client.end # "open"
              \/ handler \notin {"peek", "copy"}
              \/ handler = "copy" /\ ctxDone) => SomeoneMayGoOn

(* The target is told of the end of the copy towards it, the header is not *)
(* read past its end, and who waits for an answer has asked.               *)
MoveInv ==
    /\ handler = "copy" /\ "up" \notin copying => targetConn # "open"
    /\ server.at \in {"none", "head"} => server.read <= HeadChunks
    /\ server.at = "sending" => \E e \in Endpoints : verdict[e] = "asked"

LEMMA MoveHandler ==
    ASSUME TypeOK, MoveInv, HandlerStep \/ UpStep \/ DownStep \/ Watch
    PROVE  MoveInv'
<1>0. server \in [at : Places, read : 0 .. Length] /\ HeadChunks \in Nat
  BY ConnectionAssumption DEF TypeOK, Places
<1>1. CASE Accept
  <2>1. handler = "serve" /\ handler' \in {"serve", "close"} /\ UNCHANGED verdict
    BY <1>1 DEF Accept
  <2>2. server' = server \/ (server' = [server EXCEPT !.at = "head"] /\ server.at = "none")
    BY <1>1 DEF Accept
  <2>3. CASE server' = server
    BY <2>1, <2>3 DEF MoveInv
  <2>4. CASE server' = [server EXCEPT !.at = "head"] /\ server.at = "none"
    BY <1>0, <2>1, <2>4 DEF MoveInv
  <2>5. QED
    BY <2>1, <2>2, <2>3, <2>4
<1>2. CASE Peek \/ Route \/ Dial \/ Wait \/ Close
  <2>1. UNCHANGED <<server, verdict>>
    BY <1>2 DEF Peek, Route, Dial, Wait, Close, serving
  <2>2. handler' = "copy" /\ "up" \notin copying' => targetConn' # "open"
    BY <1>2 DEF Peek, Route, Dial, Wait, Close, conns, Closed, MoveInv
  <2>3. QED
    BY <2>1, <2>2 DEF MoveInv
<1>3. CASE CopyUp \/ CopyUpEnds \/ CopyDown \/ CopyDownEnds \/ Watch
  <2>1. UNCHANGED <<server, verdict, handler>>
    BY <1>3 DEF CopyUp, CopyUpEnds, CopyDown, CopyDownEnds, Watch, serving
  <2>2. "up" \notin copying' =>
            \/ "up" \notin copying /\ targetConn' \in {targetConn, "closed"}
            \/ targetConn' = CloseWrite(targetConn)
    BY <1>3 DEF CopyUp, CopyUpEnds, CopyDown, CopyDownEnds, Watch, conns
  <2>3. CloseWrite(targetConn) # "open"
    BY DEF CloseWrite
  <2>4. QED
    BY <2>1, <2>2, <2>3 DEF MoveInv
<1>4. QED
  BY <1>1, <1>2, <1>3 DEF HandlerStep, UpStep, DownStep

LEMMA MoveServer ==
    ASSUME TypeOK, MoveInv, ServerStep
    PROVE  MoveInv'
<1>0. /\ server \in [at : Places, read : 0 .. Length]
      /\ HeadChunks \in Nat /\ Length \in Nat /\ server.read \in Nat
      /\ verdict \in [Endpoints -> Failures \cup {"none", "untried", "refused", "asked", "ok"}]
  BY ConnectionAssumption DEF TypeOK, Places
<1>1. UNCHANGED <<handler, copying, targetConn>>
  BY DEF ServerStep, ReadRequest, ReadFails, RoundTrip, passThrough, getEndpoints, Skip, Try,
         sendRequest, Record, AllFailed, Answer, BadGateway, Leave, conns
<1>2. CASE ReadRequest
  <2>1. Reading /\ UNCHANGED verdict /\ server' \in {server, [server EXCEPT !.read = @ + 1]}
    BY <1>2 DEF ReadRequest
  <2>2. server'.at = server.at /\ server'.at \notin {"none", "sending"}
    BY <1>0, <2>1 DEF Reading
  <2>3. server.at = "head" => server.read < HeadChunks
    BY <2>1 DEF Reading, Needed
  <2>4. server'.read \in {server.read, server.read + 1}
    BY <1>0, <2>1
  <2>5. server'.at = "head" => server'.read <= HeadChunks
    BY <1>0, <2>2, <2>3, <2>4
  <2>6. QED
    BY <1>1, <2>2, <2>5 DEF MoveInv
<1>3. ASSUME NEW e \in Endpoints, Skip(e) \/ Try(e)
      PROVE  MoveInv'
  <2>1. CASE Skip(e)
    <3>1. server.at = "balance" /\ server' = server
      BY <2>1 DEF Skip
    <3>2. QED
      BY <1>1, <3>1 DEF MoveInv
  <2>2. CASE Try(e)
    <3>1. verdict'[e] = "asked" /\ server'.at = "sending"
      BY <1>0, <2>2 DEF Try, Goto
    <3>2. QED
      BY <1>1, <3>1 DEF MoveInv
  <2>3. QED
    BY <1>3, <2>1, <2>2
<1>4. CASE \/ ReadFails \/ RoundTrip \/ passThrough
           \/ \E eps \in SUBSET Endpoints : getEndpoints(eps)
           \/ \E e \in Endpoints, outcome \in Failures \cup {"ok"} : sendRequest(e, outcome)
           \/ Record \/ AllFailed \/ Answer \/ BadGateway \/ Leave
  <2>1. server'.at \notin {"none", "head", "sending"}
    BY <1>0, <1>4 DEF ReadFails, RoundTrip, passThrough, getEndpoints, sendRequest, Record,
                      AllFailed, Answer, BadGateway, Leave, Goto
  <2>2. QED
    BY <1>1, <2>1 DEF MoveInv
<1>5. QED
  BY <1>2, <1>3, <1>4 DEF ServerStep

LEMMA MoveInvariant == Spec => []MoveInv
<1>1. Init => MoveInv
  BY ConnectionAssumption DEF Init, MoveInv
<1>2. TypeOK /\ MoveInv /\ [Next]_vars => MoveInv'
  <2>1. ASSUME MoveInv, \/ ClientSends \/ TargetSends \/ Cancel
                       \/ \E how \in {"fin", "gone"} : ClientEnds(how) \/ TargetEnds(how)
                       \/ UNCHANGED vars
        PROVE  MoveInv'
    <3>1. UNCHANGED <<handler, copying, targetConn, server, verdict>>
      BY <2>1 DEF ClientSends, TargetSends, Cancel, ClientEnds, TargetEnds, vars, conns, serving
    <3>2. QED
      BY <2>1, <3>1 DEF MoveInv
  <2>2. QED
    BY <2>1, MoveHandler, MoveServer DEF Next
<1>3. QED
  BY <1>1, <1>2, TypeCorrect, PTL DEF Spec

(* The server's goroutine has a step wherever it is: it never waits for    *)
(* another one, and no read without its timeout.                           *)
LEMMA ServerGoesOn ==
    ASSUME TypeOK, MoveInv, server.at \notin {"none", "ended"}
    PROVE  ServerMayStep
<1>1. /\ server.at \in Places /\ server.read \in 0 .. Length
      /\ HeadChunks \in Nat /\ Length \in Nat
  BY ConnectionAssumption DEF TypeOK, Places
<1>2. CASE server.at = "head"
  BY <1>1, <1>2 DEF MoveInv, ServerMayStep, Reading, Needed
<1>3. CASE server.at = "body"
  BY <1>1, <1>3 DEF ServerMayStep, Reading, Needed
<1>4. CASE server.at = "sending"
  BY <1>4 DEF MoveInv, ServerMayStep
<1>5. QED
  BY <1>1, <1>2, <1>3, <1>4 DEF Places, ServerMayStep

(* A copy is over, or has something to read or a write that fails, as soon *)
(* as the client's end came or both connections are closed.                *)
LEMMA CopiesGoOn ==
    ASSUME TypeOK, Flow, MoveInv, handler = "copy", client.end # "open" \/ ctxDone
    PROVE  SomeoneMayGoOn
<1>1. CASE ctxDone /\ (conn # "closed" \/ targetConn # "closed")
  BY <1>1 DEF Flow, WatchMayStep, SomeoneMayGoOn
<1>2. CASE copying = {}
  BY <1>2 DEF HandlerMayStep, SomeoneMayGoOn
<1>3. CASE "up" \in copying /\ (client.end # "open" \/ (conn = "closed" /\ targetConn = "closed"))
  <2>1. client.end \in Ends
    BY DEF TypeOK
  <2>2. TargetWritable => targetConn = "open"
    BY DEF TargetWritable
  <2>3. UpMayStep
    BY <1>3, <2>1, <2>2 DEF UpMayStep, CopyUpOver, AtEnd, Ends
  <2>4. QED
    BY <2>3 DEF SomeoneMayGoOn
<1>4. CASE "up" \notin copying /\ "down" \in copying
  <2>1. targetConn \in {"noWrite", "closed"}
    BY <1>4 DEF TypeOK, Flow, MoveInv
  <2>5. target.end \in Ends /\ client.got \in Nat /\ target.sent \in Nat
    BY StreamTypes DEF TypeOK
  <2>6. client.got <= target.sent
    BY DEF Flow
  <2>2. CASE target.end = "open"
    BY <2>1, <2>2 DEF TargetMayFinish, SomeoneMayGoOn
  <2>3. CASE target.end # "open"
    <3>1. client.got < target.sent \/ client.got = target.sent
      BY <2>5, <2>6
    <3>2. target.end \in {"fin", "gone"}
      BY <2>3, <2>5 DEF Ends
    <3>4. DownMayStep
      BY <1>4, <2>1, <3>1, <3>2 DEF DownMayStep, CopyDownOver
    <3>5. QED
      BY <3>4 DEF SomeoneMayGoOn
  <2>4. QED
    BY <2>2, <2>3
<1>5. copying = {} \/ "up" \in copying \/ ("up" \notin copying /\ "down" \in copying)
  BY DEF TypeOK
<1>6. QED
  BY <1>1, <1>2, <1>3, <1>4, <1>5

(* No connection hangs: once the client is done or gone, or the sidecar    *)
(* stops while it is copied, one of its goroutines can go on until all     *)
(* have ended (handleConnection, handleTCP).  What HandlerEnds and         *)
(* ShutdownEndsCopies need besides fairness.                               *)
THEOREM NoConnectionHangs == Spec => []NobodyWaitsForGood
<1>1. TypeOK /\ Flow /\ MoveInv => NobodyWaitsForGood
  <2> SUFFICES ASSUME TypeOK, Flow, MoveInv, ~Over,
                      \/ client.end # "open" \/ handler \notin {"peek", "copy"}
                      \/ handler = "copy" /\ ctxDone
               PROVE  SomeoneMayGoOn
    BY DEF NobodyWaitsForGood
  <2>1. /\ handler \in {"peek", "serve", "dial", "copy", "close", "done"}
        /\ client.end \in Ends
    BY DEF TypeOK
  <2>2. CASE handler = "peek"
    BY <2>1, <2>2 DEF AtEnd, Ends, HandlerMayStep, SomeoneMayGoOn
  <2>3. CASE handler = "copy"
    BY <2>3, CopiesGoOn
  <2>4. CASE handler \in {"serve", "dial", "close"}
    BY <2>4 DEF HandlerMayStep, SomeoneMayGoOn
  <2>5. CASE handler = "done"
    <3>1. server.at \notin {"none", "ended"}
      BY <2>5 DEF Over
    <3>2. QED
      BY <3>1, ServerGoesOn DEF SomeoneMayGoOn
  <2>6. QED
    BY <2>1, <2>2, <2>3, <2>4, <2>5
<1>2. QED
  BY <1>1, TypeCorrect, StreamInvariant, MoveInvariant, PTL

-----------------------------------------------------------------------------
(* How far a connection is from its end *)

(* What each part of a connection has still to do: chunks sent are taken   *)
(* from the wire into the buffer and from there, replies are received, the *)
(* two ends and the sidecar stop, connections are closed, the handler and  *)
(* its copies end, and the server's goroutine tries every endpoint once.   *)
EndRank == [open |-> 2, fin |-> 1, gone |-> 0]

HandlerRank == [peek |-> 6, serve |-> 5, dial |-> 5, copy |-> 2, close |-> 1, done |-> 0]

ServerRank == [none |-> 8, head |-> 7, body |-> 6, sending |-> 5, recording |-> 4, pass |-> 3,
               balance |-> 3, answering |-> 2, failing |-> 2, idle |-> 1, leave |-> 1, ended |-> 0]

If(condition) == IF condition THEN 1 ELSE 0

ToTry == {e \in Endpoints : server.at \in {"none", "head", "body"} \/ verdict[e] = "untried"}

ToTake   == 3 * (Length - client.sent) + 2 * Len(wire) + Len(buffer)
ToReply  == (MaxReplies - target.sent) + (MaxReplies - client.got)
ToEnd    == EndRank[client.end] + EndRank[target.end] + If(~ctxDone)
ToClose  == If(conn # "closed") + If(targetConn # "closed")
ToHandle == HandlerRank[handler] + If("up" \in copying) + If("down" \in copying)
ToServe  == ServerRank[server.at] + 4 * Cardinality(ToTry)

StepsLeft == ToTake + ToReply + ToEnd + ToClose + ToHandle + ToServe

(* A count in the natural numbers. *)
Counted ==
    /\ ToTake \in Nat /\ ToReply \in Nat /\ ToEnd \in Nat
    /\ ToClose \in Nat /\ ToHandle \in Nat /\ ToServe \in Nat
    /\ IsFiniteSet(ToTry) /\ Cardinality(ToTry) \in Nat

LEMMA PartsCount ==
    ASSUME IsFiniteSet(Endpoints), TypeOK
    PROVE  Counted
<1>1. ToTake \in Nat
  <2>1. client.sent \in 0 .. Length /\ Length \in Nat
    BY TypeParts, ConnectionAssumption
  <2>2. Len(wire) \in Nat /\ Len(buffer) \in Nat
    BY TypeParts, LenProperties
  <2>3. QED
    BY <2>1, <2>2 DEF ToTake
<1>2. ToReply \in Nat
  <2>1. target.sent \in 0 .. MaxReplies /\ client.got \in 0 .. MaxReplies /\ MaxReplies \in Nat
    BY TypeParts, ConnectionAssumption
  <2>2. QED
    BY <2>1 DEF ToReply
<1>3. ToEnd \in Nat
  <2>1. client.end \in Ends /\ target.end \in Ends
    BY TypeParts
  <2>2. QED
    BY <2>1 DEF ToEnd, EndRank, Ends, If
<1>4. ToClose \in Nat
  BY DEF ToClose, If
<1>5. ToHandle \in Nat
  <2>1. handler \in {"peek", "serve", "dial", "copy", "close", "done"}
    BY TypeParts
  <2>2. QED
    BY <2>1 DEF ToHandle, HandlerRank, If
<1>6. IsFiniteSet(ToTry) /\ Cardinality(ToTry) \in Nat
  <2>1. ToTry \subseteq Endpoints
    BY DEF ToTry
  <2>2. IsFiniteSet(ToTry)
    BY <2>1, FS_Subset
  <2>3. QED
    BY <2>2, FS_CardinalityType
<1>7. ToServe \in Nat
  <2>1. server.at \in Places
    BY TypeParts
  <2>2. ServerRank[server.at] \in Nat
    BY <2>1 DEF ServerRank, Places
  <2>3. QED
    BY <1>6, <2>2 DEF ToServe
<1>8. QED
  BY <1>1, <1>2, <1>3, <1>4, <1>5, <1>6, <1>7 DEF Counted

LEMMA SumLess ==
    ASSUME NEW a \in Nat, NEW b \in Nat, NEW c \in Nat, NEW d \in Nat, NEW e \in Nat, NEW f \in Nat,
           NEW p \in Nat, NEW q \in Nat, NEW r \in Nat, NEW s \in Nat, NEW t \in Nat, NEW u \in Nat,
           p <= a, q <= b, r <= c, s <= d, t <= e, u <= f,
           p < a \/ q < b \/ r < c \/ s < d \/ t < e \/ u < f
    PROVE  p + q + r + s + t + u < a + b + c + d + e + f
OBVIOUS

(* No part has more to do, and one has less. *)
Falls ==
    /\ ToTake' <= ToTake /\ ToReply' <= ToReply /\ ToEnd' <= ToEnd
    /\ ToClose' <= ToClose /\ ToHandle' <= ToHandle /\ ToServe' <= ToServe
    /\ \/ ToTake' < ToTake \/ ToReply' < ToReply \/ ToEnd' < ToEnd
       \/ ToClose' < ToClose \/ ToHandle' < ToHandle \/ ToServe' < ToServe

LEMMA FallsLess ==
    ASSUME IsFiniteSet(Endpoints)
    PROVE  TypeOK /\ TypeOK' /\ Falls => StepsLeft \in Nat /\ StepsLeft' < StepsLeft
<1>1. TypeOK => Counted
  BY PartsCount
<1>2. TypeOK' => Counted'
  BY <1>1, PTL
<1>3. QED
  BY <1>1, <1>2, SumLess DEF StepsLeft, Counted, Falls

(* A part keeps its count while what it counts does not change. *)
LEMMA PartsKept ==
    ASSUME Counted
    PROVE  /\ UNCHANGED <<client, wire, buffer>> => ToTake' <= ToTake
           /\ UNCHANGED <<client, target>> => ToReply' <= ToReply
           /\ UNCHANGED <<client, target, ctxDone>> => ToEnd' <= ToEnd
           /\ UNCHANGED <<conn, targetConn>> => ToClose' <= ToClose
           /\ UNCHANGED <<handler, copying>> => ToHandle' <= ToHandle
           /\ UNCHANGED <<server, verdict>> => ToServe' <= ToServe
<1>1. UNCHANGED <<client, wire, buffer>> => ToTake' = ToTake
  BY DEF ToTake
<1>2. UNCHANGED <<client, target>> => ToReply' = ToReply
  BY DEF ToReply
<1>3. UNCHANGED <<client, target, ctxDone>> => ToEnd' = ToEnd
  BY DEF ToEnd
<1>4. UNCHANGED <<conn, targetConn>> => ToClose' = ToClose
  BY DEF ToClose
<1>5. UNCHANGED <<handler, copying>> => ToHandle' = ToHandle
  BY DEF ToHandle
<1>6. UNCHANGED <<server, verdict>> => ToServe' = ToServe
  <2>1. UNCHANGED <<server, verdict>> => ToTry' = ToTry
    BY DEF ToTry
  <2>2. QED
    BY <2>1 DEF ToServe
<1>7. QED
  BY <1>1, <1>2, <1>3, <1>4, <1>5, <1>6 DEF Counted

(* A chunk is sent, or one is moved on. *)
LEMMA TakeLess ==
    ASSUME client.sent \in Int, client'.sent \in Int, Length \in Int,
           Len(wire) \in Int, Len(buffer) \in Int, Len(wire') \in Int, Len(buffer') \in Int,
           \/ /\ client'.sent = client.sent + 1
              /\ Len(wire') = Len(wire) + 1 /\ Len(buffer') = Len(buffer)
           \/ /\ client'.sent = client.sent
              /\ Len(wire') <= Len(wire)
              /\ Len(wire') + Len(buffer') <= Len(wire) + Len(buffer)
              /\ \/ Len(wire') < Len(wire)
                 \/ Len(wire') + Len(buffer') < Len(wire) + Len(buffer)
    PROVE  ToTake' <= ToTake /\ ToTake' < ToTake
<1>1. ASSUME NEW l \in Int, NEW s \in Int, NEW t \in Int, NEW w \in Int, NEW v \in Int,
             NEW b \in Int, NEW c \in Int,
             \/ t = s + 1 /\ v = w + 1 /\ c = b
             \/ t = s /\ v <= w /\ v + c <= w + b /\ (v < w \/ v + c < w + b)
      PROVE  /\ 3 * (l - t) + 2 * v + c <= 3 * (l - s) + 2 * w + b
             /\ 3 * (l - t) + 2 * v + c < 3 * (l - s) + 2 * w + b
  BY <1>1
<1>2. QED
  BY <1>1 DEF ToTake

LEMMA EnvironmentFalls ==
    ASSUME TypeOK, Counted,
           \/ ClientSends \/ TargetSends \/ Cancel
           \/ \E how \in {"fin", "gone"} : ClientEnds(how) \/ TargetEnds(how)
    PROVE  Falls
<1>0. /\ client \in [end : Ends, sent : 0 .. Length, got : 0 .. MaxReplies]
      /\ target \in [end : Ends, sent : 0 .. MaxReplies, got : Seq(1 .. Length)]
      /\ wire \in Seq(1 .. Length) /\ Len(wire) \in Nat /\ Len(buffer) \in Nat
      /\ Length \in Nat /\ MaxReplies \in Nat
  BY TypeParts, LenProperties, ConnectionAssumption
<1>1. CASE ClientSends
  <2>1. /\ client' = [client EXCEPT !.sent = client.sent + 1]
        /\ wire' = Append(wire, client.sent + 1)
        /\ UNCHANGED <<target, ctxDone, buffer, conn, targetConn, handler, copying, server, verdict>>
    BY <1>1 DEF ClientSends, serving
  <2>2. /\ client'.sent = client.sent + 1 /\ client'.end = client.end /\ client'.got = client.got
        /\ Len(wire') = Len(wire) + 1
    BY <1>0, <2>1
  <2>3. ToTake' <= ToTake /\ ToTake' < ToTake
    <3>1. /\ client.sent \in Int /\ client'.sent \in Int /\ Len(wire') \in Int
          /\ Len(buffer') = Len(buffer)
      BY <1>0, <2>1, <2>2
    <3>2. QED
      BY <1>0, <2>2, <3>1, TakeLess
  <2>4. ToReply' = ToReply /\ ToEnd' = ToEnd
    BY <2>1, <2>2 DEF ToReply, ToEnd
  <2>5. QED
    BY <2>1, <2>3, <2>4, PartsKept DEF Falls, Counted
<1>2. CASE TargetSends
  <2>1. /\ target' = [target EXCEPT !.sent = target.sent + 1] /\ target.sent < MaxReplies
        /\ UNCHANGED <<client, ctxDone, wire, buffer, conn, targetConn, handler, copying, server,
                       verdict>>
    BY <1>2 DEF TargetSends, conns, serving
  <2>2. target'.sent = target.sent + 1 /\ target'.end = target.end
    BY <1>0, <2>1
  <2>3. ToReply' <= ToReply /\ ToReply' < ToReply
    BY <1>0, <2>1, <2>2 DEF ToReply
  <2>4. ToEnd' = ToEnd
    BY <2>1, <2>2 DEF ToEnd
  <2>5. QED
    BY <2>1, <2>3, <2>4, PartsKept DEF Falls, Counted
<1>3. CASE Cancel
  <2>1. ~ctxDone /\ ctxDone'
        /\ UNCHANGED <<client, target, wire, buffer, conn, targetConn, handler, copying, server, verdict>>
    BY <1>3 DEF Cancel, conns, serving
  <2>2. ToEnd' <= ToEnd /\ ToEnd' < ToEnd
    BY <1>0, <2>1 DEF ToEnd, EndRank, Ends, If
  <2>3. QED
    BY <2>1, <2>2, PartsKept DEF Falls
<1>4. ASSUME NEW how \in {"fin", "gone"}, ClientEnds(how)
      PROVE  Falls
  <2>1. /\ client.end = "open" \/ (client.end = "fin" /\ how = "gone")
        /\ client' = [client EXCEPT !.end = how]
        /\ UNCHANGED <<target, ctxDone, wire, buffer, conn, targetConn, handler, copying, server, verdict>>
    BY <1>4 DEF ClientEnds, conns, serving
  <2>2. client'.end = how /\ client'.sent = client.sent /\ client'.got = client.got
    BY <1>0, <2>1
  <2>4. ToEnd' <= ToEnd /\ ToEnd' < ToEnd
    BY <1>0, <2>1, <2>2 DEF ToEnd, EndRank, Ends, If
  <2>5. ToTake' = ToTake /\ ToReply' = ToReply
    BY <2>1, <2>2 DEF ToTake, ToReply
  <2>6. QED
    BY <2>1, <2>4, <2>5, PartsKept DEF Falls, Counted
<1>5. ASSUME NEW how \in {"fin", "gone"}, TargetEnds(how)
      PROVE  Falls
  <2>1. /\ target.end = "open" \/ (target.end = "fin" /\ how = "gone")
        /\ target' = [target EXCEPT !.end = how]
        /\ UNCHANGED <<client, ctxDone, wire, buffer, conn, targetConn, handler, copying, server, verdict>>
    BY <1>5 DEF TargetEnds, conns, serving
  <2>2. target'.end = how /\ target'.sent = target.sent
    BY <1>0, <2>1
  <2>4. ToEnd' <= ToEnd /\ ToEnd' < ToEnd
    BY <1>0, <2>1, <2>2 DEF ToEnd, EndRank, Ends, If
  <2>5. ToReply' = ToReply
    BY <2>1, <2>2 DEF ToReply
  <2>6. QED
    BY <2>1, <2>4, <2>5, PartsKept DEF Falls, Counted
<1>6. QED
  BY <1>1, <1>2, <1>3, <1>4, <1>5

LEMMA FillTakes ==
    ASSUME TypeOK, Counted, Fill, UNCHANGED client
    PROVE  ToTake' <= ToTake /\ ToTake' < ToTake
<1>1. /\ buffer' = buffer \o wire /\ wire' = <<>> /\ wire # <<>>
      /\ client.sent \in Nat /\ Length \in Nat
      /\ wire \in Seq(1 .. Length) /\ buffer \in Seq(1 .. Length)
  BY TypeParts, ConnectionAssumption DEF Fill
<1>2. /\ Len(wire) \in Nat \ {0} /\ Len(buffer) \in Nat
      /\ Len(buffer') = Len(buffer) + Len(wire) /\ Len(wire') = 0
  BY <1>1, LenProperties, EmptySeq, ConcatProperties
<1>3. QED
  BY <1>1, <1>2, TakeLess

LEMMA HandlerFalls ==
    ASSUME TypeOK, Flow, Counted, HandlerStep
    PROVE  Falls
<1>0. server \in [at : Places, read : 0 .. Length]
  BY TypeParts
<1>1. CASE Peek
  <2>1. UNCHANGED <<client, target, ctxDone, conn, targetConn, handler, copying, server, verdict>>
    BY <1>1 DEF Peek, ends, serving
  <2>2. ToTake' <= ToTake /\ ToTake' < ToTake
    BY <1>1, <2>1, FillTakes DEF Peek
  <2>3. QED
    BY <2>1, <2>2, PartsKept DEF Falls
<1>2. CASE Route \/ Wait
  <2>1. /\ HandlerRank[handler'] < HandlerRank[handler] /\ HandlerRank[handler'] \in Nat
        /\ HandlerRank[handler] \in Nat
        /\ UNCHANGED <<client, target, ctxDone, wire, buffer, conn, targetConn, copying, server, verdict>>
    BY <1>2 DEF Route, Wait, ends, conns, serving, HandlerRank
  <2>2. ToHandle' <= ToHandle /\ ToHandle' < ToHandle
    BY <2>1 DEF ToHandle, If
  <2>3. QED
    BY <2>1, <2>2, PartsKept DEF Falls
<1>3. CASE Accept
  <2>1. UNCHANGED <<client, target, ctxDone, wire, buffer, conn, targetConn, copying, verdict>>
    BY <1>3 DEF Accept, ends, conns
  <2>2. CASE server.at = "none" /\ server' = [server EXCEPT !.at = "head"] /\ handler' = handler
    <3>1. server'.at = "head"
      BY <1>0, <2>2
    <3>2. ToTry' = ToTry
      BY <2>1, <2>2, <3>1 DEF ToTry
    <3>3. ToServe' <= ToServe /\ ToServe' < ToServe
      BY <2>2, <3>1, <3>2 DEF ToServe, ServerRank, Counted
    <3>4. QED
      BY <2>1, <2>2, <3>3, PartsKept DEF Falls
  <2>3. CASE handler = "serve" /\ handler' = "close" /\ server' = server
    <3>1. ToHandle' <= ToHandle /\ ToHandle' < ToHandle
      BY <2>1, <2>3 DEF ToHandle, HandlerRank, If
    <3>2. QED
      BY <2>1, <2>3, <3>1, PartsKept DEF Falls
  <2>4. QED
    BY <1>3, <2>2, <2>3 DEF Accept
<1>4. CASE Dial
  <2>1. /\ UNCHANGED <<client, target, ctxDone, wire, buffer, conn, server, verdict>>
        /\ handler = "dial" /\ targetConn = "none"
        /\ \/ handler' = "copy" /\ targetConn' = "open"
           \/ handler' = "close" /\ UNCHANGED <<copying, targetConn>>
    BY <1>4 DEF Dial, ends, serving, Flow
  <2>2. ToHandle' <= ToHandle /\ ToHandle' < ToHandle
    BY <2>1 DEF ToHandle, HandlerRank, If
  <2>3. ToClose' <= ToClose
    BY <2>1 DEF ToClose, If
  <2>4. QED
    BY <2>1, <2>2, <2>3, PartsKept DEF Falls
<1>5. CASE Close
  <2>1. /\ UNCHANGED <<client, target, ctxDone, wire, buffer, copying, server, verdict>>
        /\ handler = "close" /\ handler' = "done"
        /\ conn' = "closed" /\ targetConn' \in {targetConn, "closed"}
    BY <1>5 DEF Close, Closed, ends, serving
  <2>2. ToHandle' <= ToHandle /\ ToHandle' < ToHandle
    BY <2>1 DEF ToHandle, HandlerRank, If
  <2>3. ToClose' <= ToClose
    BY <2>1 DEF ToClose, If
  <2>4. QED
    BY <2>1, <2>2, <2>3, PartsKept DEF Falls
<1>6. QED
  BY <1>1, <1>2, <1>3, <1>4, <1>5 DEF HandlerStep

LEMMA CopiesFall ==
    ASSUME TypeOK, Counted, UpStep \/ DownStep
    PROVE  Falls
<1>0. /\ client \in [end : Ends, sent : 0 .. Length, got : 0 .. MaxReplies]
      /\ target \in [end : Ends, sent : 0 .. MaxReplies, got : Seq(1 .. Length)]
      /\ wire \in Seq(1 .. Length) /\ buffer \in Seq(1 .. Length)
      /\ Len(wire) \in Nat /\ Len(buffer) \in Nat
      /\ Length \in Nat /\ MaxReplies \in Nat
      /\ HandlerRank[handler] \in Nat
  BY TypeParts, LenProperties, ConnectionAssumption DEF HandlerRank
<1>1. CASE CopyUp
  <2>1. UNCHANGED <<client, ctxDone, conn, targetConn, handler, copying, server, verdict>>
    BY <1>1 DEF CopyUp, serving
  <2>2. target'.end = target.end /\ target'.sent = target.sent
    BY <1>0, <1>1 DEF CopyUp
  <2>3. \/ buffer # <<>> /\ buffer' = <<>> /\ wire' = wire
        \/ wire # <<>> /\ wire' = <<>> /\ buffer' = buffer
    BY <1>1 DEF CopyUp
  <2>4. Len(<<>>) = 0 /\ (buffer # <<>> => Len(buffer) > 0) /\ (wire # <<>> => Len(wire) > 0)
    BY <1>0, EmptySeq
  <2>5. ToTake' <= ToTake /\ ToTake' < ToTake
    <3>1. \/ Len(buffer') = 0 /\ Len(wire') = Len(wire) /\ Len(buffer) > 0
          \/ Len(wire') = 0 /\ Len(buffer') = Len(buffer) /\ Len(wire) > 0
      BY <2>3, <2>4
    <3>2. client' = client /\ client.sent \in Nat
      BY <1>0, <2>1
    <3>3. QED
      BY <1>0, <3>1, <3>2, TakeLess
  <2>6. ToReply' = ToReply /\ ToEnd' = ToEnd
    BY <2>1, <2>2 DEF ToReply, ToEnd
  <2>7. QED
    BY <2>1, <2>5, <2>6, PartsKept DEF Falls, Counted
<1>2. CASE CopyDown
  <2>1. /\ client' = [client EXCEPT !.got = client.got + 1]
        /\ UNCHANGED <<target, ctxDone, wire, buffer, conn, targetConn, handler, copying, server,
                       verdict>>
    BY <1>2 DEF CopyDown, conns, serving
  <2>2. client'.end = client.end /\ client'.sent = client.sent /\ client'.got = client.got + 1
    BY <1>0, <2>1
  <2>3. ToReply' <= ToReply /\ ToReply' < ToReply
    BY <1>0, <2>1, <2>2 DEF ToReply
  <2>4. ToTake' = ToTake /\ ToEnd' = ToEnd
    BY <2>1, <2>2 DEF ToTake, ToEnd
  <2>5. QED
    BY <2>1, <2>3, <2>4, PartsKept DEF Falls, Counted
<1>3. CASE CopyUpEnds \/ CopyDownEnds
  <2>1. /\ UNCHANGED <<client, target, ctxDone, wire, buffer, handler, server, verdict>>
        /\ conn' \in {conn, CloseWrite(conn)} /\ targetConn' \in {targetConn, CloseWrite(targetConn)}
        /\ \/ "up" \in copying /\ copying' = copying \ {"up"}
           \/ "down" \in copying /\ copying' = copying \ {"down"}
    BY <1>3 DEF CopyUpEnds, CopyDownEnds, ends, serving
  <2>2. ToHandle' <= ToHandle /\ ToHandle' < ToHandle
    <3>1. HandlerRank[handler'] = HandlerRank[handler]
      BY <2>1
    <3>2. \/ If("up" \in copying') = 0 /\ If("up" \in copying) = 1
             /\ If("down" \in copying') = If("down" \in copying)
          \/ If("down" \in copying') = 0 /\ If("down" \in copying) = 1
             /\ If("up" \in copying') = If("up" \in copying)
      BY <2>1 DEF If
    <3>3. If("up" \in copying) \in Nat /\ If("down" \in copying) \in Nat
      BY DEF If
    <3>4. QED
      BY <1>0, <3>1, <3>2, <3>3 DEF ToHandle
  <2>3. ToClose' <= ToClose
    BY <2>1 DEF ToClose, CloseWrite, If
  <2>4. QED
    BY <2>1, <2>2, <2>3, PartsKept DEF Falls
<1>4. QED
  BY <1>1, <1>2, <1>3 DEF UpStep, DownStep

LEMMA WatchFalls ==
    ASSUME TypeOK, Counted, Watch, ~UNCHANGED vars
    PROVE  Falls
<1>1. /\ UNCHANGED <<client, target, ctxDone, wire, buffer, handler, copying, server, verdict>>
      /\ conn' = "closed" /\ targetConn' = "closed"
  BY DEF Watch, ends, serving
<1>2. conn # "closed" \/ targetConn # "closed"
  BY <1>1 DEF Watch, vars, fixed, ends, conns, serving
<1>3. ToClose' <= ToClose /\ ToClose' < ToClose
  BY <1>1, <1>2 DEF ToClose, If
<1>4. QED
  BY <1>1, <1>3, PartsKept DEF Falls

(* The server's goroutine goes down the ranks with no endpoint more to     *)
(* try, or has one endpoint less and goes up by two at most.               *)
LEMMA ServeLess ==
    ASSUME TypeOK, Counted, server'.at \in Places,
           \/ ToTry' \subseteq ToTry /\ ServerRank[server'.at] < ServerRank[server.at]
           \/ /\ \E e \in ToTry : ToTry' = ToTry \ {e}
              /\ ServerRank[server'.at] <= ServerRank[server.at] + 2
    PROVE  ToServe' <= ToServe /\ ToServe' < ToServe
<1>1. ServerRank[server.at] \in Nat /\ ServerRank[server'.at] \in Nat
  <2>1. server.at \in Places
    BY TypeParts
  <2>2. QED
    BY <2>1 DEF ServerRank, Places
<1>2. IsFiniteSet(ToTry) /\ Cardinality(ToTry) \in Nat
  BY DEF Counted
<1>3. CASE ToTry' \subseteq ToTry /\ ServerRank[server'.at] < ServerRank[server.at]
  <2>1. Cardinality(ToTry') \in Nat /\ Cardinality(ToTry') <= Cardinality(ToTry)
    BY <1>2, <1>3, FS_Subset, FS_CardinalityType
  <2>2. QED
    BY <1>1, <1>2, <1>3, <2>1 DEF ToServe
<1>4. CASE /\ \E e \in ToTry : ToTry' = ToTry \ {e}
           /\ ServerRank[server'.at] <= ServerRank[server.at] + 2
  <2>1. Cardinality(ToTry') = Cardinality(ToTry) - 1
    BY <1>2, <1>4, FS_RemoveElement
  <2>2. QED
    BY <1>1, <1>2, <1>4, <2>1 DEF ToServe
<1>5. QED
  BY <1>3, <1>4

LEMMA ServerFalls ==
    ASSUME TypeOK, Counted, ServerStep
    PROVE  Falls
<1>0. /\ server \in [at : Places, read : 0 .. Length]
      /\ verdict \in [Endpoints -> Failures \cup {"none", "untried", "refused", "asked", "ok"}]
  BY TypeParts
<1>1. CASE ReadRequest
  <2>1. UNCHANGED <<client, target, ctxDone, conn, targetConn, handler, copying, verdict>>
    BY <1>1 DEF ReadRequest, ends
  <2>2. server'.at = server.at
    BY <1>0, <1>1 DEF ReadRequest
  <2>3. ToServe' = ToServe
    <3>1. ToTry' = ToTry
      BY <2>1, <2>2 DEF ToTry
    <3>2. QED
      BY <2>2, <3>1 DEF ToServe
  <2>4. ToTake' <= ToTake /\ ToTake' < ToTake
    <3>1. CASE Fill
      BY <2>1, <3>1, FillTakes
    <3>2. CASE buffer # <<>> /\ buffer' = Tail(buffer) /\ wire' = wire
      <4>1. buffer \in Seq(1 .. Length) /\ wire \in Seq(1 .. Length)
        BY TypeParts
      <4>2. Len(buffer) \in Nat /\ Len(wire) \in Nat /\ Len(Tail(buffer)) = Len(buffer) - 1
        BY <3>2, <4>1, LenProperties, HeadTailProperties
      <4>3. client.sent \in Nat /\ Length \in Nat
        BY TypeParts, ConnectionAssumption
      <4>4. QED
        <5>1. /\ client'.sent = client.sent
              /\ Len(wire') = Len(wire) /\ Len(buffer') = Len(buffer) - 1
          BY <2>1, <3>2, <4>2
        <5>2. QED
          BY <4>2, <4>3, <5>1, TakeLess
    <3>3. QED
      BY <1>1, <3>1, <3>2 DEF ReadRequest
  <2>5. QED
    BY <2>1, <2>3, <2>4, PartsKept DEF Falls, Counted
<1>2. ASSUME UNCHANGED <<ends, conns, handler, copying>> \/ Leave,
             ToServe' <= ToServe /\ ToServe' < ToServe
      PROVE  Falls
  <2>1. /\ UNCHANGED <<client, target, ctxDone, wire, buffer, handler, copying>>
        /\ conn' \in {conn, "closed"} /\ targetConn' = targetConn
    BY <1>2 DEF Leave, ends, conns
  <2>2. ToClose' <= ToClose
    BY <2>1 DEF ToClose, If
  <2>3. QED
    BY <1>2, <2>1, <2>2, PartsKept DEF Falls
<1>3. ASSUME NEW e \in Endpoints, Skip(e) \/ Try(e)
      PROVE  Falls
  <2>1. /\ server.at = "balance" /\ server'.at \in {"balance", "sending"}
        /\ verdict[e] = "untried"
        /\ \A f \in Endpoints : verdict'[f] = IF f = e THEN verdict'[e] ELSE verdict[f]
        /\ verdict'[e] \in {"refused", "asked"}
        /\ UNCHANGED <<ends, conns, handler, copying>>
    BY <1>0, <1>3 DEF Skip, Try, Goto
  <2>2. e \in ToTry /\ ToTry' = ToTry \ {e}
    BY <2>1 DEF ToTry
  <2>3. ServerRank[server'.at] <= ServerRank[server.at] + 2 /\ server'.at \in Places
    BY <2>1 DEF ServerRank, Places
  <2>4. ToServe' <= ToServe /\ ToServe' < ToServe
    BY <2>2, <2>3, ServeLess
  <2>5. QED
    BY <1>2, <2>1, <2>4
<1>4. ASSUME \/ ReadFails \/ RoundTrip \/ passThrough
             \/ \E eps \in SUBSET Endpoints : getEndpoints(eps)
             \/ \E e \in Endpoints, outcome \in Failures \cup {"ok"} : sendRequest(e, outcome)
             \/ Record \/ AllFailed \/ Answer \/ BadGateway \/ Leave
      PROVE  Falls
  <2>1. ToTry' \subseteq ToTry
    <3>1. CASE server.at \in {"none", "head", "body"}
      BY <3>1 DEF ToTry
    <3>2. CASE server.at \notin {"none", "head", "body"}
      <4>1. server'.at \notin {"none", "head", "body"}
        BY <1>0, <1>4, <3>2 DEF ReadFails, Reading, RoundTrip, passThrough, getEndpoints, sendRequest,
                                Record, AllFailed, Answer, BadGateway, Leave, Goto
      <4>2. \A e \in Endpoints : verdict'[e] = "untried" => verdict[e] = "untried"
        BY <1>0, <1>4, <3>2 DEF ReadFails, Reading, RoundTrip, passThrough, getEndpoints, sendRequest,
                                Record, AllFailed, Answer, BadGateway, Leave, Failures
      <4>3. QED
        BY <4>1, <4>2 DEF ToTry
    <3>3. QED
      BY <3>1, <3>2
  <2>2. ServerRank[server'.at] < ServerRank[server.at] /\ server'.at \in Places
    <3>1. \/ server.at \in {"head", "body"} /\ server'.at \in {"leave", "failing"}
          \/ server.at = "head" /\ server'.at \in {"body", "pass"}
          \/ server.at \in {"pass", "recording"} /\ server'.at \in {"answering", "failing"}
          \/ server.at = "body" /\ server'.at = "balance"
          \/ server.at = "sending" /\ server'.at = "recording"
          \/ server.at = "recording" /\ server'.at = "balance"
          \/ server.at = "balance" /\ server'.at = "failing"
          \/ server.at \in {"answering", "failing"} /\ server'.at \in {"idle", "leave"}
          \/ server.at \in {"idle", "leave"} /\ server'.at = "ended"
      BY <1>0, <1>4 DEF ReadFails, Reading, RoundTrip, passThrough, getEndpoints, sendRequest,
                        Record, AllFailed, Answer, BadGateway, Leave, Goto
    <3>2. QED
      BY <3>1 DEF ServerRank, Places
  <2>3. ToServe' <= ToServe /\ ToServe' < ToServe
    BY <2>1, <2>2, ServeLess
  <2>4. UNCHANGED <<ends, conns, handler, copying>> \/ Leave
    BY <1>4 DEF ReadFails, RoundTrip, passThrough, getEndpoints, sendRequest,
                Record, AllFailed, Answer, BadGateway
  <2>5. QED
    BY <1>2, <2>3, <2>4
<1>5. QED
  BY <1>1, <1>3, <1>4 DEF ServerStep

(* Whatever is done, by either end or by the sidecar, takes the connection *)
(* nearer to its end, and it is never farther than a natural number: with  *)
(* a bounded exchange there are finitely many steps. What is left of       *)
(* HandlerEnds is that who can go on does (NoConnectionHangs says that     *)
(* someone can): handleConnection, handleTCP, loadBalance.                 *)
THEOREM ConnectionRunsOut ==
    ASSUME IsFiniteSet(Endpoints)
    PROVE  Spec => [][/\ StepsLeft \in Nat
                      /\ StepsLeft' < StepsLeft]_vars
<1>1. TypeOK => Counted
  BY PartsCount
<1>2. TypeOK /\ Flow /\ [Next]_vars /\ ~UNCHANGED vars => Falls
  BY <1>1, EnvironmentFalls, HandlerFalls, CopiesFall, WatchFalls, ServerFalls DEF Next
<1>3. TypeOK /\ TypeOK' /\ Flow /\ [Next]_vars =>
         [/\ StepsLeft \in Nat
          /\ StepsLeft' < StepsLeft]_vars
  BY <1>2, FallsLess
<1>4. QED
  BY <1>3, TypeCorrect, StreamInvariant, PTL DEF Spec
=============================================================================
