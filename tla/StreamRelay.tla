----------------------------- MODULE StreamRelay -----------------------------
(***************************************************************************)
(* One TCP stream through a tunnel.  Three connections in a row join four  *)
(* parties: the application, the client's forwarder (hop 1), the server's  *)
(* proxy (hop 2) and the target.  Connection 0 is on the user's machine, 1 *)
(* in the tunnel, 2 from the server to the target.  A hop copies "up",     *)
(* towards the target, and "down", and decides what an end of stream or a  *)
(* failure on one side means for the other:                                *)
(*                                                                         *)
(*   forward   pkg/client forward, copyClientStream                        *)
(*   socksfwd  pkg/client forwardSocksUDPAssociateOn after the handshake   *)
(*   fixed     pkg/server proxy and proxyTransparentSocks, copyToTarget    *)
(*   socks     pkg/socks relay, closeWrite, under proxySocks               *)
(*                                                                         *)
(* What is copied is a number of chunks; writing to a connection whose     *)
(* other end is closed fails, and reading one ends after what was sent.    *)
(***************************************************************************)
EXTENDS Naturals, FiniteSets

CONSTANTS
  MaxSent,   \* chunks a party sends in a direction
  Window     \* chunks a connection holds

VARIABLES
  kind,     \* what hop 1 and hop 2 are
  sent,     \* chunks the application sent up, the target down
  got,      \* chunks the target got from up, the application from down
  flying,   \* connection, direction -> chunks written and not read
  shut,     \* the <<connection, direction>> whose writer ended it
  closed,   \* the <<connection, side>> of ends that are closed
  pump,     \* hop, direction -> "copy", "ok", "failed" or "done"
  active,   \* hops whose connection is counted as active
  gone      \* the connection the tunnel belongs to is closed

streamVars == <<kind, sent, got, flying, shut, closed, pump, active, gone>>

Hops == {1, 2}
Dirs == {"up", "down"}
Flip(d) == IF d = "up" THEN "down" ELSE "up"

(* A direction is written at one end of a connection and read at the other *)
Writer(d) == IF d = "up" THEN "near" ELSE "far"
Reader(d) == Writer(Flip(d))

(* The connections a hop reads from and writes to                          *)
From(h, d) == IF d = "up" THEN h - 1 ELSE h
To(h, d) == IF d = "up" THEN h ELSE h - 1
Mine(h) == {<<h - 1, "far">>, <<h, "near">>}

Chains == {<<"forward", "fixed">>, <<"socksfwd", "socks">>, <<"socksfwd", "fixed">>}

Init ==
  /\ kind \in Chains
  /\ sent = [d \in Dirs |-> 0] /\ got = [d \in Dirs |-> 0]
  /\ flying = [c \in 0 .. 2 |-> [d \in Dirs |-> 0]]
  /\ shut = {} /\ closed = {}
  /\ pump = [h \in Hops |-> [d \in Dirs |-> "copy"]]
  /\ active = Hops /\ gone = FALSE
-----------------------------------------------------------------------------
(* The end of a direction is seen once what was written has been read.     *)
AtEnd(c, d) ==
  flying[c][d] = 0 /\ (<<c, d>> \in shut \/ <<c, Writer(d)>> \in closed)

Ready(c, d) == flying[c][d] > 0 \/ AtEnd(c, d)

(* Writing fails when this end is closed or shut, or the other is closed.  *)
CannotWrite(c, d) ==
  <<c, d>> \in shut \/ <<c, Writer(d)>> \in closed \/ <<c, Reader(d)>> \in closed

(* io.Copy: a chunk is read and written                                    *)
CopyChunk(h, d) ==
  LET f == From(h, d)
      t == To(h, d)
  IN  /\ pump[h][d] = "copy" /\ <<f, Reader(d)>> \notin closed
      /\ flying[f][d] > 0 /\ ~CannotWrite(t, d) /\ flying[t][d] < Window
      /\ flying' = [flying EXCEPT ![f][d] = @ - 1, ![t][d] = @ + 1]
      /\ UNCHANGED <<kind, sent, got, shut, closed, pump, active, gone>>

(* io.Copy returns: at the end of the stream without an error, with one    *)
(* when its end was closed under it or the chunk cannot be written.        *)
CopyReturns(h, d) ==
  LET f == From(h, d)
      own == <<f, Reader(d)>> \in closed
  IN  /\ pump[h][d] = "copy"
      /\ \/ /\ own \/ (flying[f][d] > 0 /\ CannotWrite(To(h, d), d))
            /\ pump' = [pump EXCEPT ![h][d] = "failed"]
         \/ /\ ~own /\ AtEnd(f, d)
            /\ pump' = [pump EXCEPT ![h][d] = "ok"]
      /\ UNCHANGED <<kind, sent, got, flying, shut, closed, active, gone>>

Returned(h, d) == pump[h][d] \in {"ok", "failed"}
Done(h, d) == pump' = [pump EXCEPT ![h][d] = "done"]

(* CloseWrite of the connection written to; it fails on a closed one       *)
CloseWrite(c, d) ==
  IF <<c, Writer(d)>> \in closed THEN UNCHANGED shut ELSE shut' = shut \cup {<<c, d>>}

(* copyClientStream and copyToTarget: the end of the stream is passed on,  *)
(* a failure closes both connections.                                      *)
EndsCopy(h, d) ==
  /\ Returned(h, d) /\ Done(h, d)
  /\ \/ /\ pump[h][d] = "ok" /\ <<To(h, d), Writer(d)>> \notin closed
        /\ CloseWrite(To(h, d), d) /\ UNCHANGED closed
     \/ /\ pump[h][d] = "failed" \/ <<To(h, d), Writer(d)>> \in closed
        /\ closed' = closed \cup Mine(h) /\ UNCHANGED shut

(* The deferred closes of a handler that returns                           *)
Returns(h) == closed' = closed \cup Mine(h) /\ active' = active \ {h}

(* A dropped end of stream: the copy up returns before the other is told   *)
MutForwardEnds ==
  /\ kind[1] = "forward"
  /\ \/ /\ Returned(1, "up") /\ Done(1, "up") /\ UNCHANGED <<shut, closed, active>>
     \/ /\ EndsCopy(1, "down") /\ UNCHANGED active
     \/ /\ \A d \in Dirs : pump[1][d] = "done"
        /\ 1 \in active /\ Returns(1) /\ UNCHANGED <<pump, shut>>
  /\ UNCHANGED <<kind, sent, got, flying, gone>>

(* forward: either copy ends by copyClientStream, copies.Wait() waits for  *)
(* both and the handler returns.                                           *)
ForwardEnds ==
  /\ kind[1] = "forward"
  /\ \/ \E d \in Dirs : EndsCopy(1, d) /\ UNCHANGED active
     \/ /\ \A d \in Dirs : pump[1][d] = "done"
        /\ 1 \in active /\ Returns(1) /\ UNCHANGED <<pump, shut>>
  /\ UNCHANGED <<kind, sent, got, flying, gone>>

(* forwardSocksUDPAssociateOn: what ends the copy up is told to nobody,    *)
(* and the end of the copy down closes both connections.                   *)
SocksForwardEnds ==
  /\ kind[1] = "socksfwd"
  /\ \/ Returned(1, "up") /\ Done(1, "up") /\ UNCHANGED <<shut, closed, active>>
     \/ Returned(1, "down") /\ Done(1, "down") /\ Returns(1) /\ UNCHANGED shut
  /\ UNCHANGED <<kind, sent, got, flying, gone>>

(* proxy: copyToTarget up, and the end of the copy down ends the handler.  *)
FixedEnds ==
  /\ kind[2] = "fixed"
  /\ \/ EndsCopy(2, "up") /\ UNCHANGED active
     \/ Returned(2, "down") /\ Done(2, "down") /\ Returns(2) /\ UNCHANGED shut
  /\ UNCHANGED <<kind, sent, got, flying, gone>>

(* The relay's handler returns with its own direction                      *)
MutRelayEnds ==
  /\ kind[2] = "socks"
  /\ \/ /\ Returned(2, "up") /\ Done(2, "up") /\ CloseWrite(2, "up") /\ UNCHANGED <<closed, active>>
     \/ /\ Returned(2, "down") /\ Done(2, "down") /\ Returns(2) /\ UNCHANGED shut
  /\ UNCHANGED <<kind, sent, got, flying, gone>>

(* relay: each direction shuts what it wrote to, whatever ended it, and    *)
(* the handler closes both connections once both have.                     *)
RelayEnds ==
  /\ kind[2] = "socks"
  /\ \/ \E d \in Dirs : /\ Returned(2, d) /\ Done(2, d)
                        /\ CloseWrite(To(2, d), d) /\ UNCHANGED <<closed, active>>
     \/ /\ \A d \in Dirs : pump[2][d] = "done"
        /\ 2 \in active /\ Returns(2) /\ UNCHANGED <<pump, shut>>
  /\ UNCHANGED <<kind, sent, got, flying, gone>>

(* watchForward: the client's connection or its data plane ends.           *)
TunnelStops ==
  /\ ~gone /\ gone' = TRUE
  /\ closed' = closed \cup (IF 1 \in active THEN Mine(1) ELSE {})
  /\ UNCHANGED <<kind, sent, got, flying, shut, pump, active>>
-----------------------------------------------------------------------------
(* The application and the target: a party sends, reads, ends its stream   *)
(* and, once it has seen the other's end, closes; the application may also *)
(* close at any time.                                                      *)
Edge(d) == IF d = "up" THEN 0 ELSE 2       \* where the sender of d writes
Far(d) == IF d = "up" THEN 2 ELSE 0        \* where its receiver reads

Send(d) ==
  LET c == Edge(d)
  IN  /\ sent[d] < MaxSent /\ ~CannotWrite(c, d) /\ flying[c][d] < Window
      /\ sent' = [sent EXCEPT ![d] = @ + 1]
      /\ flying' = [flying EXCEPT ![c][d] = @ + 1]
      /\ UNCHANGED <<kind, got, shut, closed, pump, active, gone>>

Receive(d) ==
  LET c == Far(d)
  IN  /\ <<c, Reader(d)>> \notin closed /\ flying[c][d] > 0
      /\ flying' = [flying EXCEPT ![c][d] = @ - 1]
      /\ got' = [got EXCEPT ![d] = @ + 1]
      /\ UNCHANGED <<kind, sent, shut, closed, pump, active, gone>>

Finish(d) ==
  LET c == Edge(d)
  IN  /\ <<c, d>> \notin shut /\ <<c, Writer(d)>> \notin closed
      /\ shut' = shut \cup {<<c, d>>}
      /\ UNCHANGED <<kind, sent, got, flying, closed, pump, active, gone>>

CloseAfterEnd(d) ==
  LET c == Edge(d)
  IN  /\ <<c, Writer(d)>> \notin closed /\ AtEnd(c, Flip(d))
      /\ closed' = closed \cup {<<c, Writer(d)>>}
      /\ UNCHANGED <<kind, sent, got, flying, shut, pump, active, gone>>

GivesUp ==
  /\ <<0, "near">> \notin closed
  /\ closed' = closed \cup {<<0, "near">>}
  /\ UNCHANGED <<kind, sent, got, flying, shut, pump, active, gone>>

HopStep == ForwardEnds \/ SocksForwardEnds \/ FixedEnds \/ RelayEnds
Copies(h, d) == CopyChunk(h, d) \/ CopyReturns(h, d)

Next ==
  \/ \E h \in Hops, d \in Dirs : Copies(h, d)
  \/ HopStep \/ TunnelStops \/ GivesUp
  \/ \E d \in Dirs : Send(d) \/ Receive(d) \/ Finish(d) \/ CloseAfterEnd(d)

(* Goroutines run, TCP delivers, and a party reads what arrives and closes *)
(* its connection after the end of the other's stream.                     *)
Fairness ==
  /\ \A h \in Hops, d \in Dirs : WF_streamVars(Copies(h, d))
  /\ WF_streamVars(ForwardEnds) /\ WF_streamVars(SocksForwardEnds)
  /\ WF_streamVars(FixedEnds) /\ WF_streamVars(RelayEnds)
  /\ \A d \in Dirs : WF_streamVars(Receive(d)) /\ WF_streamVars(CloseAfterEnd(d))

Spec == Init /\ [][Next]_streamVars /\ Fairness
-----------------------------------------------------------------------------
(* A forwarder of a TCP tunnel, and the SOCKS proxy, close their two       *)
(* connections only when both directions are through, unless one of their  *)
(* neighbours has closed or the tunnel is gone: an answer never cuts off   *)
(* the rest of the question.  (The client's SOCKS forwarder does.)         *)
HalfCloseKept ==
  \A h \in Hops :
    /\ kind[h] \in {"forward", "socks"} /\ Mine(h) \subseteq closed /\ ~gone
    /\ {<<h - 1, "near">>, <<h, "far">>} \cap closed = {}
    => \A d \in Dirs : AtEnd(From(h, d), d)

(* A target that got the whole question before it ended its answer has it  *)
(* delivered whole, when nobody closed early.  (A fixed tunnel may lose    *)
(* the end of an answer to a question that is still being sent.)           *)
AnswerComplete ==
  /\ kind[1] = "forward" /\ ~gone /\ <<0, "near">> \notin closed
  /\ <<2, "far">> \notin closed /\ <<0, "up">> \in shut /\ got["up"] = sent["up"]
  /\ AtEnd(0, "down") /\ <<2, "down">> \in shut
  => got["down"] = sent["down"]

StreamSound == HalfCloseKept /\ AnswerComplete

(* Once the application has closed, a target that ends when it sees the    *)
(* end of its input lets go of every hop of a TCP tunnel.                  *)
StreamReleased == (kind[1] = "forward" /\ <<0, "near">> \in closed) ~> active = {}
==============================================================================
