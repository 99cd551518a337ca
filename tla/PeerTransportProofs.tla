------------------------ MODULE PeerTransportProofs -------------------------
(***************************************************************************)
(* For any number of peers, streams and calls: a call returns the response *)
(* to its own request, and no RPC is run for a peer that did not present   *)
(* the token.                                                              *)
(*                                                                         *)
(* The inductive invariant follows each stream a caller holds.  One that   *)
(* is kept between calls, or has just been connected, is quiet: nothing is *)
(* under way on it in either direction.  Once a request is written, at     *)
(* most one frame is under way, and it is that request, what is left of    *)
(* it, or its response.  A stream has one owner, so what one caller or the *)
(* serving task does leaves the streams of the others alone.               *)
(***************************************************************************)
EXTENDS PeerTransport, SequenceTheorems, TLAPS

AnyFrame == [kind : Kind \cup {"None", "Cut", "Auth"}, id : Nat, stopped : BOOLEAN]

\* At most one frame is under way either way.
Queued == {<<>>} \cup {<<f>> : f \in AnyFrame}

StreamType ==
    [client : BOOLEAN, server : {"backlog", "serving", "closed"}, carries : BOOLEAN,
     up : Queued, down : Queued, at : {"head", "body", "run", "reply"}, authed : BOOLEAN,
     req : AnyFrame, owner : Peer \cup {None}]

CallType ==
    [pc : {"idle", "connect", "auth", "token", "write", "read"}, req : AnyFrame,
     on : Stream \cup {None}]

RightToken(f) == f.kind = "Auth" /\ f.id = 1

\* Only an owner that has the token sent the right one, or is authenticated.
TokenInv(st) ==
    Guarded /\ st.owner \notin Trusted =>
        /\ ~st.authed
        /\ \A f \in AnyFrame : st.up = <<f>> => ~RightToken(f)
        /\ st.at = "run" => ~RightToken(st.req)

StreamInv(st) ==
    /\ st \in StreamType
    /\ TokenInv(st)
    /\ st.up # <<>> => st.down = <<>>
    /\ st.at # "head" => st.up = <<>> /\ st.down = <<>>

\* Nothing is under way.
Quiet(st) == st.up = <<>> /\ st.down = <<>> /\ st.at = "head"

\* A request of kind k with id i, or its response.
Fits(f, k, i) == f.kind = k /\ (k = "Auth" \/ f.id = i)

\* Nothing is under way but a request, what was cut off it, or its response.
Expects(st, k, i) ==
    \/ Quiet(st)
    \/ st.down = <<>> /\ st.at = "head" /\ \E f \in AnyFrame : st.up = <<f>> /\ (f = Cut \/ Fits(f, k, i))
    \/ st.up = <<>> /\ st.down = <<>> /\ st.at = "body"
    \/ st.up = <<>> /\ st.down = <<>> /\ st.at \in {"run", "reply"} /\ Fits(st.req, k, i)
    \/ st.up = <<>> /\ st.at = "head" /\ \E f \in AnyFrame : st.down = <<f>> /\ Fits(f, k, i)

\* What a call finds on its stream, by how far it is.
Phase(c, st) ==
    /\ c.pc \in {"auth", "write"} => Quiet(st)
    /\ c.pc = "token" => Expects(st, "Auth", 0)
    /\ c.pc = "read" => Expects(st, c.req.kind, c.req.id)

Holds(p, s) == stream[s].client /\ stream[s].owner = p

PeerInv(p) ==
    /\ kept[p] # None => call[p].pc = "idle" /\ Holds(p, kept[p]) /\ Quiet(stream[kept[p]])
    /\ call[p].on # None <=> call[p].pc \in {"auth", "token", "write", "read"}
    /\ call[p].on # None => Holds(p, call[p].on) /\ Phase(call[p], stream[call[p].on])
    /\ call[p].pc # "idle" => call[p].req.kind \in Kind

VarsType ==
    /\ stream \in [Stream -> StreamType]
    /\ kept \in [Peer -> Stream \cup {None}]
    /\ call \in [Peer -> CallType]
    /\ calls \in Nat

\* The inductive invariant.
IInv ==
    /\ VarsType
    /\ \A s \in Stream : StreamInv(stream[s])
    /\ \A p \in Peer : PeerInv(p)
    /\ OwnResponse
    /\ AuthBeforeRpc

-----------------------------------------------------------------------------
\* The frames there are.
LEMMA FrameTypes ==
  /\ NoFrame \in AnyFrame /\ NoFrame.kind = "None"
  /\ Cut \in AnyFrame /\ Cut.kind = "Cut"
  /\ \A k \in Kind : k # "Auth" /\ k # "Cut" /\ k # "None"
<1>1. NoFrame \in AnyFrame /\ NoFrame.kind = "None" BY DEF NoFrame, AnyFrame
<1>2. Cut \in AnyFrame /\ Cut.kind = "Cut" BY Zenon DEF NoFrame, Cut, AnyFrame
<1>3. \A k \in Kind : k # "Auth" /\ k # "Cut" /\ k # "None" BY PeerConstants
<1> QED BY <1>1, <1>2, <1>3

\* A wrong token is never taken for the right one.
LEMMA AuthFrames ==
  ASSUME NEW b
  PROVE  Auth(b) \in AnyFrame /\ Auth(b).kind = "Auth" /\ (~b => ~RightToken(Auth(b)))
<1> DEFINE i == IF b THEN 1 ELSE 0
<1>1. i \in Nat /\ (~b => i = 0) OBVIOUS
<1>a. Auth(b) = [NoFrame EXCEPT !.kind = "Auth", !.id = i] BY Zenon DEF Auth
<1> HIDE DEF i
<1>2. Auth(b) = [kind |-> "Auth", id |-> i, stopped |-> FALSE] BY <1>a, Zenon DEF NoFrame
<1>3. Auth(b) \in AnyFrame BY <1>1, <1>2 DEF AnyFrame
<1>4. Auth(b).kind = "Auth" /\ Auth(b).id = i BY <1>2
<1>5. ~b => ~RightToken(Auth(b)) BY <1>1, <1>4 DEF RightToken
<1> QED BY <1>3, <1>4, <1>5

\* A request has its kind and its id.
LEMMA RpcFrames ==
  ASSUME NEW k \in Kind, NEW i \in Nat
  PROVE  Rpc(k, i) \in AnyFrame /\ Rpc(k, i).kind = k /\ Rpc(k, i).id = i
BY Zenon DEF NoFrame, Rpc, AnyFrame

\* A queue of at most one frame.
LEMMA QueueOps ==
  /\ <<>> \in Queued
  /\ \A f \in AnyFrame : /\ <<f>> \in Queued /\ <<f>> # <<>> /\ Head(<<f>>) = f
                         /\ Tail(<<f>>) = <<>> /\ Append(<<>>, f) = <<f>>
  /\ \A f, h \in AnyFrame : <<f>> = <<h>> => f = h
<1>1. <<>> \in Queued BY DEF Queued
<1>2. ASSUME NEW f \in AnyFrame
      PROVE  <<f>> \in Queued /\ <<f>> # <<>> /\ Head(<<f>>) = f /\ Tail(<<f>>) = <<>>
             /\ Append(<<>>, f) = <<f>>
  <2>1. <<f>> \in Queued BY DEF Queued
  <2>2. <<f>> # <<>> /\ Head(<<f>>) = f OBVIOUS
  <2>3. Tail(<<f>>) = <<>> OBVIOUS
  <2>4. Append(<<>>, f) = <<f>> OBVIOUS
  <2> QED BY <2>1, <2>2, <2>3, <2>4
<1>3. \A f, h \in AnyFrame : <<f>> = <<h>> => f = h OBVIOUS
<1> QED BY <1>1, <1>2, <1>3

\* A queue that is not empty holds one frame.
LEMMA QueueOfOne ==
  ASSUME NEW q \in Queued, q # <<>>
  PROVE  Head(q) \in AnyFrame /\ q = <<Head(q)>> /\ Tail(q) = <<>>
<1>1. PICK f \in AnyFrame : q = <<f>> BY DEF Queued
<1> QED BY <1>1, QueueOps

\* An empty stream.
LEMMA NoStreamInv == StreamInv(NoStream) /\ Quiet(NoStream)
BY FrameTypes, QueueOps, PeerConstants
   DEF NoStream, StreamInv, StreamType, TokenInv, Quiet, NoFrame, RightToken

\* What the serving task, the network or a restart may make of a stream.
Evolves(st, nw) ==
    /\ StreamInv(nw)
    /\ st.client => /\ nw.client /\ nw.owner = st.owner
                    /\ Quiet(st) => Quiet(nw)
                    /\ \A k, i : Expects(st, k, i) => Expects(nw, k, i)

\* Such a step leaves every caller's invariant intact.
LEMMA ServerStep ==
  ASSUME IInv, UNCHANGED <<kept, call, calls, answered>>, AuthBeforeRpc',
         stream' = [s \in Stream |-> stream'[s]],
         \A s \in Stream : Evolves(stream[s], stream'[s])
  PROVE  IInv'
<1>1. stream' \in [Stream -> StreamType] /\ \A s \in Stream : StreamInv(stream'[s])
  BY DEF Evolves, StreamInv
<1>2. VarsType' BY <1>1 DEF IInv, VarsType
<1>3. OwnResponse' BY DEF IInv, OwnResponse
<1>4. ASSUME NEW p \in Peer PROVE PeerInv(p)'
  <2>1. PeerInv(p) BY DEF IInv
  <2>2. kept[p] \in Stream \cup {None} /\ call[p].on \in Stream \cup {None}
    BY DEF IInv, VarsType, CallType
  <2>3. kept[p] # None => Holds(p, kept[p])' /\ Quiet(stream[kept[p]])'
    BY <2>1, <2>2 DEF PeerInv, Holds, Evolves
  <2>4. call[p].on # None => Holds(p, call[p].on)' /\ Phase(call[p], stream[call[p].on])'
    BY <2>1, <2>2 DEF PeerInv, Holds, Evolves, Phase
  <2> QED BY <2>1, <2>3, <2>4 DEF PeerInv
<1> QED BY <1>1, <1>2, <1>3, <1>4 DEF IInv

\* Nothing happens to a stream.
LEMMA EvolvesSelf == ASSUME NEW st, StreamInv(st) PROVE Evolves(st, st)
BY DEF Evolves

\* A stream whose serving end goes away.
LEMMA ClosedEvolves ==
  ASSUME NEW st, StreamInv(st)
  PROVE  Evolves(st, Closed(st))
<1>1. CASE ~st.client
  BY <1>1, NoStreamInv DEF Closed, Evolves
<1>2. CASE st.client
  <2> DEFINE nw == Closed(st)
  <2>1. nw = [st EXCEPT !.server = "closed", !.up = <<>>, !.at = "head", !.req = NoFrame,
                        !.authed = FALSE]
    BY <1>2 DEF Closed
  <2> HIDE DEF nw
  <2>2. st \in StreamType BY DEF StreamInv
  <2>3. /\ nw \in StreamType /\ nw.client = st.client /\ nw.server = "closed" /\ nw.up = <<>>
        /\ nw.down = st.down /\ nw.at = "head" /\ nw.authed = FALSE /\ nw.owner = st.owner
    BY <2>1, <2>2, FrameTypes, QueueOps, Zenon DEF StreamType
  <2>4. StreamInv(nw)
    BY <1>2, <2>3, QueueOps DEF StreamInv, TokenInv
  <2>5. Quiet(st) => Quiet(nw) BY <2>3 DEF Quiet
  <2>6. \A k, i : Expects(st, k, i) => Expects(nw, k, i)
    BY <2>3, QueueOps DEF Expects, Quiet
  <2> HIDE DEF Quiet, Expects
  <2>7. Evolves(st, nw) BY <1>2, <2>3, <2>4, <2>5, <2>6 DEF Evolves
  <2> QED BY <2>7 DEF nw
<1>3. st.client \in BOOLEAN BY DEF StreamInv, StreamType
<1> QED BY <1>1, <1>2, <1>3

\* One stream changes as Evolves allows, and nothing is run.
LEMMA ServeOne ==
  ASSUME IInv, NEW s \in Stream, NEW nw, Evolves(stream[s], nw),
         stream' = [stream EXCEPT ![s] = nw],
         UNCHANGED <<kept, call, calls, answered, executed>>
  PROVE  IInv'
<1>1. stream' = [r \in Stream |-> stream'[r]] BY Zenon DEF IInv, VarsType
<1>2. \A r \in Stream : Evolves(stream[r], stream'[r])
  BY EvolvesSelf DEF IInv, VarsType
<1>3. AuthBeforeRpc' BY DEF IInv, AuthBeforeRpc
<1> QED BY <1>1, <1>2, <1>3, ServerStep

\* The connection is closed, or the node restarts.
LEMMA CloseInv ==
  ASSUME IInv
  PROVE  /\ \A s \in Stream : CloseConn(s) => IInv'
         /\ Restart => IInv'
<1>1. ASSUME NEW s \in Stream, CloseConn(s) PROVE IInv'
  <2>1. Evolves(stream[s], Closed(stream[s])) BY ClosedEvolves DEF IInv
  <2>2. stream' = [stream EXCEPT ![s] = Closed(stream[s])]
        /\ UNCHANGED <<kept, call, calls, answered, executed>>
    BY <1>1 DEF CloseConn
  <2> QED BY <2>1, <2>2, ServeOne, Zenon
<1>2. ASSUME Restart PROVE IInv'
  <2>1. stream' = [s \in Stream |-> Closed(stream[s])]
        /\ UNCHANGED <<kept, call, calls, answered, executed>>
    BY <1>2 DEF Restart
  <2>2. \A s \in Stream : Evolves(stream[s], stream'[s])
    BY <2>1, ClosedEvolves DEF IInv
  <2>3. AuthBeforeRpc' BY <2>1 DEF IInv, AuthBeforeRpc
  <2> QED BY <2>1, <2>2, <2>3, ServerStep
<1> QED BY <1>1, <1>2

-----------------------------------------------------------------------------
(***************************************************************************)
(* The serving side                                                        *)
(***************************************************************************)
\* accept with a permit.
LEMMA AcceptInv == ASSUME IInv, NEW s \in Stream, Accept(s) PROVE IInv'
<1> DEFINE st == stream[s]
           nw == [st EXCEPT !.server = "serving", !.authed = ~Guarded]
<1>1. StreamInv(st) /\ st \in StreamType BY DEF IInv, StreamInv
<1>2. UNCHANGED <<kept, call, calls, answered, executed>> BY DEF Accept
<1>3. \/ stream' = [stream EXCEPT ![s] = nw]
      \/ stream' = [stream EXCEPT ![s] = Closed(st)]
  BY Zenon DEF Accept
<1>4. Evolves(st, Closed(st)) BY <1>1, ClosedEvolves
<1>5. Evolves(st, nw)
  <2>1. /\ nw \in StreamType /\ nw.client = st.client /\ nw.up = st.up /\ nw.down = st.down
        /\ nw.at = st.at /\ nw.authed = ~Guarded /\ nw.owner = st.owner /\ nw.req = st.req
    BY <1>1, PeerConstants, Zenon DEF StreamType
  <2> HIDE DEF st, nw
  <2>2. StreamInv(nw) BY <1>1, <2>1, Zenon DEF StreamInv, TokenInv
  <2>3. (Quiet(st) => Quiet(nw)) /\ \A k, i : Expects(st, k, i) => Expects(nw, k, i)
    BY <2>1 DEF Quiet, Expects
  <2> QED BY <2>1, <2>2, <2>3 DEF Evolves
<1> QED BY <1>2, <1>3, <1>4, <1>5, ServeOne

\* A frame, or the header of one, is read.
LEMMA ReadRequestInv == ASSUME IInv, NEW s \in Stream, ReadRequest(s) PROVE IInv'
<1> DEFINE st == stream[s]
           f  == Head(st.up)
           at == IF f = Cut THEN "body" ELSE "run"
           rq == IF f = Cut THEN NoFrame ELSE f
           nw == [st EXCEPT !.up = Tail(@), !.at = at, !.req = rq]
<1>1. StreamInv(st) /\ st \in StreamType BY DEF IInv, StreamInv
<1>2. UNCHANGED <<kept, call, calls, answered, executed>> BY DEF ReadRequest
<1>3. stream' = [stream EXCEPT ![s] = nw]
  BY Zenon DEF ReadRequest, IInv, VarsType
<1>4. st.at = "head" /\ st.up # <<>> /\ st.up \in Queued
  BY <1>1 DEF ReadRequest, StreamType
<1>5. f \in AnyFrame /\ st.up = <<f>> /\ Tail(st.up) = <<>> BY <1>4, QueueOfOne
<1>6. /\ at \in {"body", "run"} /\ rq \in AnyFrame
      /\ f = Cut => at = "body" /\ rq = NoFrame
      /\ f # Cut => at = "run" /\ rq = f
  BY <1>5, FrameTypes
<1> HIDE DEF f, at, rq
<1>7. /\ nw \in StreamType /\ nw.client = st.client /\ nw.up = <<>> /\ nw.down = st.down
      /\ nw.at = at /\ nw.authed = st.authed /\ nw.owner = st.owner /\ nw.req = rq
  BY <1>1, <1>5, <1>6, QueueOps, Zenon DEF StreamType
<1> HIDE DEF st, nw
<1>8. StreamInv(nw)
  <2>1. nw.down = <<>> BY <1>1, <1>4, <1>7 DEF StreamInv
  <2>2. TokenInv(nw)
    BY <1>1, <1>5, <1>6, <1>7, QueueOps, FrameTypes DEF StreamInv, TokenInv, RightToken
  <2> QED BY <1>7, <2>1, <2>2 DEF StreamInv
<1>9. ~Quiet(st) BY <1>4 DEF Quiet
<1>10. ASSUME NEW k, NEW i, Expects(st, k, i) PROVE Expects(nw, k, i)
  <2>1. st.down = <<>> /\ (f = Cut \/ Fits(f, k, i))
    BY <1>4, <1>5, <1>10, QueueOps DEF Expects, Quiet
  <2> QED BY <1>6, <1>7, <2>1 DEF Expects
<1>11. Evolves(st, nw) BY <1>7, <1>8, <1>9, <1>10 DEF Evolves
<1> QED BY <1>2, <1>3, <1>11, ServeOne, Zenon DEF st

\* The verdict on a token.
LEMMA HandleAuthInv == ASSUME IInv, NEW s \in Stream, HandleAuth(s) PROVE IInv'
<1> DEFINE st    == stream[s]
           right == st.req.id = 1 \/ ~Guarded
           rq    == Auth(right)
           nw    == [st EXCEPT !.authed = right, !.at = "reply", !.req = rq]
<1>1. StreamInv(st) /\ st \in StreamType BY DEF IInv, StreamInv
<1>2. UNCHANGED <<kept, call, calls, answered, executed>> BY DEF HandleAuth
<1>3. stream' = [stream EXCEPT ![s] = nw]
  BY Zenon DEF HandleAuth, IInv, VarsType
<1>4. st.at = "run" /\ st.req.kind = "Auth" BY DEF HandleAuth
<1>5. right \in BOOLEAN OBVIOUS
<1>6. Guarded /\ st.owner \notin Trusted => ~right
  BY <1>1, <1>4 DEF StreamInv, TokenInv, RightToken
<1> HIDE DEF right
<1>7. rq \in AnyFrame /\ rq.kind = "Auth" BY AuthFrames
<1> HIDE DEF rq
<1>8. /\ nw \in StreamType /\ nw.client = st.client /\ nw.up = st.up /\ nw.down = st.down
      /\ nw.at = "reply" /\ nw.authed = right /\ nw.owner = st.owner /\ nw.req = rq
  BY <1>1, <1>5, <1>7, Zenon DEF StreamType
<1> HIDE DEF st, nw
<1>9. StreamInv(nw)
  <2>1. TokenInv(nw) BY <1>1, <1>6, <1>8 DEF StreamInv, TokenInv
  <2> QED BY <1>1, <1>4, <1>8, <2>1 DEF StreamInv
<1>10. ~Quiet(st) BY <1>4 DEF Quiet
<1>11. \A k, i : Expects(st, k, i) => Expects(nw, k, i)
  BY <1>4, <1>7, <1>8 DEF Expects, Quiet, Fits
<1>12. Evolves(st, nw) BY <1>8, <1>9, <1>10, <1>11 DEF Evolves
<1> QED BY <1>2, <1>3, <1>12, ServeOne, Zenon DEF st

\* The RPC is run.
LEMMA ExecuteInv ==
  ASSUME IInv, NEW s \in Stream, NEW stopped \in BOOLEAN, Execute(s, stopped)
  PROVE  IInv'
<1> DEFINE st == stream[s]
           rq == [st.req EXCEPT !.stopped = stopped]
           nw == [st EXCEPT !.at = "reply", !.req = rq]
<1>1. StreamInv(st) /\ st \in StreamType BY DEF IInv, StreamInv
<1>2. UNCHANGED <<kept, call, calls, answered>> BY DEF Execute
<1>3. stream' = [stream EXCEPT ![s] = nw]
  BY Zenon DEF Execute, IInv, VarsType
<1>4. st.at = "run" /\ st.authed BY DEF Execute
<1>5. rq \in AnyFrame /\ rq.kind = st.req.kind /\ rq.id = st.req.id
  BY <1>1 DEF StreamType, AnyFrame
<1> HIDE DEF rq
<1>6. /\ nw \in StreamType /\ nw.client = st.client /\ nw.up = st.up /\ nw.down = st.down
      /\ nw.at = "reply" /\ nw.authed = st.authed /\ nw.owner = st.owner /\ nw.req = rq
  BY <1>1, <1>5, Zenon DEF StreamType
<1>7. AuthBeforeRpc'
  <2>1. executed' = executed \cup {[id |-> st.req.id, from |-> st.owner]} BY DEF Execute
  <2>2. Guarded => st.owner \in Trusted BY <1>1, <1>4 DEF StreamInv, TokenInv
  <2> HIDE DEF st
  <2> QED BY <2>1, <2>2 DEF IInv, AuthBeforeRpc
<1> HIDE DEF nw
<1>8. Evolves(st, nw)
  <2> HIDE DEF st
  <2>1. StreamInv(nw) BY <1>1, <1>4, <1>6 DEF StreamInv, TokenInv
  <2>2. ~Quiet(st) BY <1>4 DEF Quiet
  <2>3. \A k, i : Expects(st, k, i) => Expects(nw, k, i)
    BY <1>4, <1>5, <1>6 DEF Expects, Quiet, Fits
  <2> QED BY <1>6, <2>1, <2>2, <2>3 DEF Evolves
<1>9. \A r \in Stream : Evolves(stream[r], stream'[r])
  BY <1>3, <1>8, EvolvesSelf DEF IInv, VarsType
<1>10. stream' = [r \in Stream |-> stream'[r]] BY <1>3, Zenon DEF IInv, VarsType
<1> QED BY <1>2, <1>7, <1>9, <1>10, ServerStep

\* The response is written, and the connection maybe closed behind it.
LEMMA ReplyInv == ASSUME IInv, NEW s \in Stream, Reply(s) PROVE IInv'
<1> DEFINE st   == stream[s]
           down == IF st.carries /\ st.client THEN Append(st.down, st.req) ELSE st.down
           told == [st EXCEPT !.down = down]
           nw   == IF LastReply(st) THEN Closed(told) ELSE [told EXCEPT !.at = "head", !.req = NoFrame]
<1>1. StreamInv(st) /\ st \in StreamType BY DEF IInv, StreamInv
<1>2. UNCHANGED <<kept, call, calls, answered, executed>> BY DEF Reply
<1>3. stream' = [stream EXCEPT ![s] = nw] BY DEF Reply
<1>4. st.at = "reply" BY DEF Reply
<1>5. st.up = <<>> /\ st.down = <<>> /\ st.req \in AnyFrame
  BY <1>1, <1>4 DEF StreamInv, StreamType
<1>6. down \in Queued /\ (down = <<>> \/ down = <<st.req>>)
  BY <1>5, QueueOps
<1> HIDE DEF down
<1>7. /\ told \in StreamType /\ told.client = st.client /\ told.owner = st.owner
      /\ told.up = <<>> /\ told.down = down /\ told.authed = st.authed
  BY <1>1, <1>5, <1>6 DEF StreamType
<1> HIDE DEF told
<1>8. CASE ~st.client /\ LastReply(st)
  <2>1. nw = NoStream BY <1>7, <1>8 DEF Closed
  <2>2. Evolves(st, NoStream) BY <1>8, NoStreamInv DEF Evolves
  <2> QED BY <1>2, <1>3, <2>1, <2>2, ServeOne, Zenon
<1>9. CASE st.client \/ ~LastReply(st)
  <2>1. /\ nw \in StreamType /\ nw.client = st.client /\ nw.owner = st.owner
        /\ nw.up = <<>> /\ nw.down = down /\ nw.at = "head"
        /\ nw.authed = st.authed \/ nw.authed = FALSE
    BY <1>7, <1>9, FrameTypes, QueueOps, Zenon DEF Closed, StreamType
  <2> HIDE DEF nw, st
  <2>2. StreamInv(nw)
    BY <1>1, <2>1, QueueOps DEF StreamInv, TokenInv
  <2>3. ~Quiet(st) BY <1>4 DEF Quiet
  <2>4. ASSUME NEW k, NEW i, Expects(st, k, i) PROVE Expects(nw, k, i)
    <3>1. Fits(st.req, k, i) BY <1>4, <2>4 DEF Expects, Quiet
    <3> QED BY <1>5, <1>6, <2>1, <3>1 DEF Expects, Quiet
  <2>5. Evolves(st, nw) BY <2>1, <2>2, <2>3, <2>4 DEF Evolves
  <2> QED BY <1>2, <1>3, <2>5, ServeOne, Zenon DEF st
<1> QED BY <1>8, <1>9

\* What a lost stream still delivers of a queue of at most one frame.
LEMMA FrontOfQueue ==
  ASSUME NEW q \in Queued, NEW n \in 0 .. Len(q)
  PROVE  /\ SubSeq(q, 1, n) = <<>> \/ SubSeq(q, 1, n) = q
         /\ \A r \in {<<>>} \cup {<<Cut>> : i \in n + 1 .. Len(q)} :
                \/ SubSeq(q, 1, n) \o r = q
                \/ q # <<>> /\ SubSeq(q, 1, n) \o r \in {<<>>, <<Cut>>}
<1>1. CASE q = <<>>
  <2>1. n = 0 /\ Len(q) = 0 BY <1>1
  <2>2. SubSeq(q, 1, n) = <<>> BY <1>1, <2>1
  <2>3. {<<Cut>> : i \in n + 1 .. Len(q)} = {} BY <2>1
  <2> QED BY <1>1, <2>2, <2>3
<1>2. CASE q # <<>>
  <2>1. PICK f \in AnyFrame : q = <<f>> BY <1>2 DEF Queued
  <2>2. Len(q) = 1 /\ n \in {0, 1} BY <2>1
  <2>3. CASE n = 0
    <3>1. SubSeq(q, 1, n) = <<>> BY <2>1, <2>3
    <3>2. <<>> \o <<>> = <<>> /\ <<>> \o <<Cut>> = <<Cut>> OBVIOUS
    <3> QED BY <1>2, <3>1, <3>2, Zenon
  <2>4. CASE n = 1
    <3>a. q \in Seq(AnyFrame) BY <2>1
    <3>1. SubSeq(q, 1, n) = q BY <2>2, <2>4, <3>a, SubSeqFull
    <3>2. {<<Cut>> : i \in n + 1 .. Len(q)} = {} BY <2>2, <2>4
    <3>3. q \o <<>> = q BY <2>1
    <3> QED BY <3>1, <3>2, <3>3
  <2> QED BY <2>2, <2>3, <2>4, Zenon
<1> QED BY <1>1, <1>2

\* The network loses a stream.
LEMMA LoseInv == ASSUME IInv, NEW s \in Stream, Lose(s) PROVE IInv'
<1> DEFINE st == stream[s]
<1>1. StreamInv(st) /\ st \in StreamType BY DEF IInv, StreamInv
<1>2. UNCHANGED <<kept, call, calls, answered, executed>> BY DEF Lose
<1> DEFINE Lost(n, m, rest) ==
             stream' = [stream EXCEPT ![s].carries = FALSE, ![s].up = SubSeq(@, 1, n) \o rest,
                                      ![s].down = SubSeq(@, 1, m)]
<1>a. PICK n \in 0 .. Len(st.up), m \in 0 .. Len(st.down) :
        \E rest \in {<<>>} \cup {<<Cut>> : i \in n + 1 .. Len(st.up)} : Lost(n, m, rest)
  BY Zenon DEF Lose
<1>3. PICK rest \in {<<>>} \cup {<<Cut>> : i \in n + 1 .. Len(st.up)} : Lost(n, m, rest)
  BY <1>a, Zenon
<1> DEFINE up   == SubSeq(st.up, 1, n) \o rest
           down == SubSeq(st.down, 1, m)
           nw   == [st EXCEPT !.carries = FALSE, !.up = up, !.down = down]
<1>4. stream' = [stream EXCEPT ![s] = nw] BY <1>3, Zenon DEF IInv, VarsType
<1>5. st.up \in Queued /\ st.down \in Queued BY <1>1 DEF StreamType
<1>6. up = st.up \/ (st.up # <<>> /\ up \in {<<>>, <<Cut>>}) BY <1>5, FrontOfQueue, Zenon
<1>7. down = <<>> \/ down = st.down BY <1>5, FrontOfQueue, Zenon
<1> HIDE DEF up, down
<1>8. up \in Queued /\ down \in Queued BY <1>5, <1>6, <1>7, QueueOps, FrameTypes
<1>9. /\ nw \in StreamType /\ nw.client = st.client /\ nw.up = up /\ nw.down = down
      /\ nw.at = st.at /\ nw.authed = st.authed /\ nw.owner = st.owner /\ nw.req = st.req
  BY <1>1, <1>8, Zenon DEF StreamType
<1> HIDE DEF st, nw
<1>10. StreamInv(nw)
  <2>1. TokenInv(nw)
    BY <1>1, <1>6, <1>9, QueueOps, FrameTypes, Zenon DEF StreamInv, TokenInv, RightToken
  <2> QED BY <1>1, <1>6, <1>7, <1>9, <2>1 DEF StreamInv
<1>11. Quiet(st) => Quiet(nw) BY <1>6, <1>7, <1>9 DEF Quiet
<1>12. ASSUME NEW k, NEW i, Expects(st, k, i) PROVE Expects(nw, k, i)
  <2>1. CASE st.up = <<>>
    BY <1>6, <1>7, <1>9, <1>12, <2>1, QueueOps, Zenon DEF Expects, Quiet
  <2>2. CASE st.up # <<>>
    BY <1>6, <1>7, <1>9, <1>12, <2>2, QueueOps, FrameTypes, Zenon DEF Expects, Quiet
  <2> QED BY <2>1, <2>2
<1>13. Evolves(st, nw) BY <1>9, <1>10, <1>11, <1>12 DEF Evolves
<1> QED BY <1>2, <1>4, <1>13, ServeOne, ZenonT(60) DEF st

\* Every step of the serving task.
LEMMA ServeStepInv == ASSUME IInv, NEW s \in Stream, ServeStep(s) PROVE IInv'
<1>1. ASSUME BodyTimeout(s) \/ EndOfStream(s) \/ RefuseUnauthed(s) PROVE CloseConn(s)
  BY <1>1 DEF BodyTimeout, EndOfStream, RefuseUnauthed
<1> QED BY <1>1, CloseInv, AcceptInv, ReadRequestInv, HandleAuthInv, ExecuteInv, ReplyInv
        DEF ServeStep

-----------------------------------------------------------------------------
(***************************************************************************)
(* The calling side                                                        *)
(***************************************************************************)
\* What a caller does to its own streams, and to free ones, leaves the
\* invariant of the other callers intact.
LEMMA CallerStep ==
  ASSUME IInv, NEW p \in Peer,
         VarsType', OwnResponse', UNCHANGED executed, PeerInv(p)',
         \A s \in Stream : StreamInv(stream'[s]),
         \A s \in Stream : stream'[s] = stream[s] \/ ~stream[s].client \/ stream[s].owner = p,
         \A q \in Peer \ {p} : call'[q] = call[q] /\ kept'[q] = kept[q]
  PROVE  IInv'
<1>1. AuthBeforeRpc' BY SMTT(60) DEF IInv, AuthBeforeRpc
<1>2. ASSUME NEW q \in Peer, q # p PROVE PeerInv(q)'
  <2>1. PeerInv(q) BY DEF IInv
  <2>2. call'[q] = call[q] /\ kept'[q] = kept[q] BY <1>2
  <2>3. kept[q] \in Stream \cup {None} /\ call[q].on \in Stream \cup {None}
    BY DEF IInv, VarsType, CallType
  <2>4. \A s \in Stream : Holds(q, s) => stream'[s] = stream[s] BY <1>2 DEF Holds
  <2>5. kept[q] # None => Holds(q, kept[q])' /\ Quiet(stream'[kept[q]])
    <3> SUFFICES ASSUME kept[q] # None PROVE Holds(q, kept[q])' /\ Quiet(stream'[kept[q]])
      OBVIOUS
    <3>1. kept[q] \in Stream /\ Holds(q, kept[q]) /\ Quiet(stream[kept[q]]) BY <2>1, <2>3 DEF PeerInv
    <3>2. stream'[kept[q]] = stream[kept[q]] BY <2>4, <3>1
    <3> QED BY <2>2, <3>1, <3>2 DEF Holds, Quiet
  <2>6. call[q].on # None => Holds(q, call[q].on)' /\ Phase(call[q], stream'[call[q].on])
    <3> SUFFICES ASSUME call[q].on # None
                 PROVE  Holds(q, call[q].on)' /\ Phase(call[q], stream'[call[q].on])
      OBVIOUS
    <3>1. /\ call[q].on \in Stream /\ Holds(q, call[q].on)
          /\ Phase(call[q], stream[call[q].on])
      BY <2>1, <2>3 DEF PeerInv
    <3>2. stream'[call[q].on] = stream[call[q].on] BY <2>4, <3>1
    <3>3. Phase(call[q], stream'[call[q].on]) BY <3>1, <3>2
    <3> QED BY <2>2, <3>1, <3>2, <3>3 DEF Holds
  <2> QED BY <2>1, <2>2, <2>5, <2>6 DEF PeerInv, Holds
<1> QED BY <1>1, <1>2 DEF IInv

\* One stream of the caller, or a free one, changes to nw.
LEMMA CallerOnStream ==
  ASSUME IInv, NEW p \in Peer, NEW s \in Stream, NEW nw, StreamInv(nw),
         ~stream[s].client \/ stream[s].owner = p,
         stream' = [stream EXCEPT ![s] = nw],
         NEW c \in CallType, call' = [call EXCEPT ![p] = c],
         NEW k \in Stream \cup {None}, kept' = [kept EXCEPT ![p] = k],
         calls' \in Nat, OwnResponse', UNCHANGED executed, PeerInv(p)'
  PROVE  IInv'
<1>1. VarsType' BY DEF IInv, VarsType, StreamInv
<1>2. \A r \in Stream : StreamInv(stream'[r]) BY DEF IInv, VarsType
<1>3. \A r \in Stream : stream'[r] = stream[r] \/ ~stream[r].client \/ stream[r].owner = p
  BY DEF IInv, VarsType
<1>4. \A q \in Peer \ {p} : call'[q] = call[q] /\ kept'[q] = kept[q] BY DEF IInv, VarsType
<1> QED BY <1>1, <1>2, <1>3, <1>4, CallerStep

\* A stream the caller drops.
LEMMA DroppedInv == ASSUME NEW st, StreamInv(st) PROVE StreamInv(Dropped(st))
<1>1. CASE st.server = "closed" BY <1>1, NoStreamInv DEF Dropped
<1>2. CASE st.server # "closed"
  <2> DEFINE nw == [st EXCEPT !.client = FALSE, !.down = <<>>]
  <2>1. Dropped(st) = nw BY <1>2 DEF Dropped
  <2>2. st \in StreamType BY DEF StreamInv
  <2>3. /\ nw \in StreamType /\ nw.up = st.up /\ nw.down = <<>> /\ nw.at = st.at
        /\ nw.authed = st.authed /\ nw.owner = st.owner /\ nw.req = st.req
    BY <2>2, QueueOps, Zenon DEF StreamType
  <2> HIDE DEF nw
  <2>4. StreamInv(nw) BY <2>3 DEF StreamInv, TokenInv
  <2> QED BY <2>1, <2>4
<1> QED BY <1>1, <1>2

\* A caller without a call.
LEMMA NoCallType == NoCall \in CallType /\ NoCall.pc = "idle" /\ NoCall.on = None
BY FrameTypes DEF NoCall, CallType

\* A call that ends without a response: its stream is gone.
LEMMA AbandonInv == ASSUME IInv, NEW p \in Peer, Abandon(p) PROVE IInv'
<1>1. /\ stream' = [s \in Stream |-> IF s = call[p].on THEN Dropped(stream[s]) ELSE stream[s]]
      /\ call' = [call EXCEPT ![p] = NoCall]
      /\ UNCHANGED <<kept, calls, executed, answered>>
  BY DEF Abandon
<1>2. PeerInv(p) /\ kept[p] \in Stream \cup {None} /\ call[p].on \in Stream \cup {None}
  BY DEF IInv, VarsType, CallType
<1>3. \A s \in Stream : StreamInv(stream'[s]) BY <1>1, DroppedInv DEF IInv
<1>4. VarsType' BY <1>1, <1>3, NoCallType DEF IInv, VarsType, StreamInv
<1>5. OwnResponse' BY <1>1, SMTT(60) DEF IInv, OwnResponse
<1>6. PeerInv(p)'
  <2>1. call'[p] = NoCall BY <1>1 DEF IInv, VarsType
  <2>2. kept[p] # None => stream'[kept[p]] = stream[kept[p]]
    BY <1>1, <1>2, PeerConstants DEF PeerInv
  <2> QED BY <1>1, <1>2, <2>1, <2>2, NoCallType DEF PeerInv, Holds
<1>7. \A s \in Stream : stream'[s] = stream[s] \/ ~stream[s].client \/ stream[s].owner = p
  BY <1>1, <1>2, PeerConstants DEF PeerInv, Holds
<1>8. \A q \in Peer \ {p} : call'[q] = call[q] /\ kept'[q] = kept[q]
  BY <1>1 DEF IInv, VarsType
<1> QED BY <1>1, <1>3, <1>4, <1>5, <1>6, <1>7, <1>8, CallerStep

\* A call begins, with the kept stream if there is one, or finds its target
\* partitioned off and drops that stream.
LEMMA CallInv == ASSUME IInv, NEW p \in Peer, NEW kind \in Kind, Call(p, kind) PROVE IInv'
<1>1. PeerInv(p) /\ kept[p] \in Stream \cup {None} BY DEF IInv, VarsType
<1>2. call[p].pc = "idle" /\ call[p].on = None BY <1>1 DEF Call, PeerInv
<1>3. calls' = calls + 1 /\ calls' \in Nat /\ UNCHANGED <<executed, answered>>
  BY DEF Call, IInv, VarsType
<1>4. OwnResponse' BY <1>3, SMTT(60) DEF IInv, OwnResponse
<1>5. CASE CallBlocked(p)
  <2>1. /\ stream' = [s \in Stream |-> IF s = kept[p] THEN Dropped(stream[s]) ELSE stream[s]]
        /\ kept' = [kept EXCEPT ![p] = None] /\ call' = call
    BY <1>5 DEF CallBlocked
  <2>2. \A s \in Stream : StreamInv(stream'[s]) BY <2>1, DroppedInv DEF IInv
  <2>3. VarsType' BY <1>3, <2>1, <2>2, SMTT(60) DEF IInv, VarsType, StreamInv
  <2>4. PeerInv(p)'
    <3>1. kept'[p] = None BY <2>1 DEF IInv, VarsType
    <3> QED BY <1>1, <1>2, <2>1, <3>1 DEF PeerInv
  <2>5. \A s \in Stream : stream'[s] = stream[s] \/ ~stream[s].client \/ stream[s].owner = p
    BY <1>1, <2>1, PeerConstants DEF PeerInv, Holds
  <2>6. \A q \in Peer \ {p} : call'[q] = call[q] /\ kept'[q] = kept[q]
    BY <2>1 DEF IInv, VarsType
  <2> QED BY <1>3, <1>4, <2>2, <2>3, <2>4, <2>5, <2>6, CallerStep
<1>6. CASE CallStarts(p, kind)
  <2> DEFINE rq == Rpc(kind, calls + 1)
             pc == IF kept[p] = None THEN "connect" ELSE "write"
             c  == [pc |-> pc, req |-> rq, on |-> kept[p]]
  <2>1. /\ call' = [call EXCEPT ![p] = c] /\ kept' = [kept EXCEPT ![p] = None]
        /\ stream' = stream
    BY <1>6 DEF CallStarts
  <2>2. rq \in AnyFrame /\ rq.kind = kind BY RpcFrames DEF IInv, VarsType
  <2>3. /\ pc \in {"connect", "write"}
        /\ kept[p] = None => pc = "connect"
        /\ kept[p] # None => pc = "write"
    OBVIOUS
  <2> HIDE DEF rq, pc
  <2>4. c \in CallType /\ c.pc = pc /\ c.req = rq /\ c.on = kept[p]
    BY <1>1, <2>2, <2>3 DEF CallType
  <2> HIDE DEF c
  <2>5. VarsType' BY <1>3, <2>1, <2>4 DEF IInv, VarsType
  <2>6. call'[p] = c /\ kept'[p] = None BY <2>1 DEF IInv, VarsType
  <2>7. PeerInv(p)'
    <3>1. kept[p] # None => Holds(p, kept[p]) /\ Phase(c, stream[kept[p]])
      BY <1>1, <2>3, <2>4 DEF PeerInv, Phase
    <3>2. kept[p] # None <=> pc \in {"auth", "token", "write", "read"} BY <2>3
    <3>3. c.req.kind \in Kind BY <2>2, <2>4
    <3> QED BY <2>1, <2>4, <2>6, <3>1, <3>2, <3>3, SMTT(60) DEF PeerInv, Holds
  <2>8. \A q \in Peer \ {p} : call'[q] = call[q] /\ kept'[q] = kept[q]
    BY <2>1 DEF IInv, VarsType
  <2>9. \A s \in Stream : StreamInv(stream'[s]) BY <2>1 DEF IInv
  <2> QED BY <1>3, <1>4, <2>1, <2>5, <2>7, <2>8, <2>9, CallerStep
<1> QED BY <1>5, <1>6 DEF Call

\* A new stream is quiet.
LEMMA ConnectInv ==
  ASSUME IInv, NEW p \in Peer, NEW s \in Stream, Connect(p, s)
  PROVE  IInv'
<1> DEFINE nw == [NoStream EXCEPT !.client = TRUE, !.server = "backlog", !.owner = p]
           pc == IF p \in Trusted \cup Mistaken THEN "auth" ELSE "write"
           c  == [call[p] EXCEPT !.on = s, !.pc = pc]
<1>1. /\ stream' = [stream EXCEPT ![s] = nw] /\ ~stream[s].client /\ call[p].pc = "connect"
      /\ UNCHANGED <<kept, calls, executed, answered>>
  BY DEF Connect, Free
<1>2. call' = [call EXCEPT ![p] = c] BY Zenon DEF Connect, IInv, VarsType
<1>3. pc \in {"auth", "write"} OBVIOUS
<1> HIDE DEF pc
<1>4. PeerInv(p) /\ call[p] \in CallType BY DEF IInv, VarsType
<1>5. c \in CallType /\ c.on = s /\ c.pc = pc /\ c.req = call[p].req
  BY <1>3, <1>4, Zenon DEF CallType
<1>6. /\ nw \in StreamType /\ nw.client = TRUE /\ nw.up = <<>> /\ nw.down = <<>>
      /\ nw.at = "head" /\ nw.authed = FALSE /\ nw.owner = p
  BY NoStreamInv, Zenon DEF NoStream, StreamInv, StreamType
<1> HIDE DEF nw, c
<1>7. StreamInv(nw) /\ Quiet(nw) BY <1>6, QueueOps DEF StreamInv, TokenInv, Quiet
<1>8. kept' = [kept EXCEPT ![p] = kept[p]] /\ kept[p] \in Stream \cup {None} /\ calls' \in Nat
  BY <1>1 DEF IInv, VarsType
<1>9. OwnResponse' BY <1>1 DEF IInv, OwnResponse
<1>10. call'[p] = c /\ stream'[s] = nw BY <1>1, <1>2 DEF IInv, VarsType
<1>11. s # None BY PeerConstants
<1>12. PeerInv(p)'
  <2>1. Phase(c, nw) BY <1>3, <1>5, <1>7 DEF Phase
  <2>2. Holds(p, s)' BY <1>6, <1>10 DEF Holds
  <2>3. c.req.kind \in Kind BY <1>1, <1>4, <1>5 DEF PeerInv
  <2>4. kept[p] = None BY <1>1, <1>4, SMTT(60) DEF PeerInv
  <2> QED BY <1>1, <1>3, <1>5, <1>10, <1>11, <2>1, <2>2, <2>3, <2>4 DEF PeerInv
<1> QED BY <1>1, <1>2, <1>5, <1>7, <1>8, <1>9, <1>12, CallerOnStream, Zenon

\* What is known of a call that has a stream.
LEMMA OnStream ==
  ASSUME IInv, NEW p \in Peer, call[p].pc \in {"auth", "token", "write", "read"}
  PROVE  /\ call[p] \in CallType /\ call[p].on \in Stream /\ kept[p] = None
         /\ StreamInv(stream[call[p].on]) /\ stream[call[p].on] \in StreamType
         /\ Holds(p, call[p].on) /\ Phase(call[p], stream[call[p].on])
         /\ call[p].req.kind \in Kind
<1>1. PeerInv(p) /\ call[p] \in CallType BY DEF IInv, VarsType
<1>2. call[p].on \in Stream /\ kept[p] = None BY <1>1 DEF PeerInv, CallType
<1>3. StreamInv(stream[call[p].on]) BY <1>2 DEF IInv
<1>4. /\ Holds(p, call[p].on) /\ Phase(call[p], stream[call[p].on])
      /\ call[p].req.kind \in Kind
  BY <1>1, <1>2, PeerConstants DEF PeerInv
<1> QED BY <1>1, <1>2, <1>3, <1>4 DEF StreamInv

\* A call goes on to pc, its stream having become nw.
LEMMA CallGoesOn ==
  ASSUME IInv, NEW p \in Peer, call[p].pc \in {"auth", "token", "write", "read"},
         NEW pc \in {"token", "write", "read"}, call' = [call EXCEPT ![p].pc = pc],
         NEW nw, stream' = [stream EXCEPT ![call[p].on] = nw], StreamInv(nw),
         nw.client, nw.owner = p, pc = "write" => Quiet(nw),
         pc = "token" => Expects(nw, "Auth", 0),
         pc = "read" => Expects(nw, call[p].req.kind, call[p].req.id),
         UNCHANGED <<kept, calls, executed, answered>>
  PROVE  IInv'
<1> DEFINE c == [call[p] EXCEPT !.pc = pc]
           s == call[p].on
<1>1. /\ call[p] \in CallType /\ s \in Stream /\ kept[p] = None
      /\ Holds(p, s) /\ call[p].req.kind \in Kind
  BY OnStream
<1>2. call' = [call EXCEPT ![p] = c] BY DEF IInv, VarsType
<1>3. c \in CallType /\ c.pc = pc /\ c.req = call[p].req /\ c.on = s BY <1>1 DEF CallType
<1> HIDE DEF c
<1>4. call'[p] = c /\ stream'[s] = nw BY <1>1, <1>2 DEF IInv, VarsType
<1>5. kept' = [kept EXCEPT ![p] = None] /\ calls' \in Nat BY <1>1 DEF IInv, VarsType
<1>6. OwnResponse' BY DEF IInv, OwnResponse
<1>7. PeerInv(p)'
  <2>1. Phase(c, nw) BY <1>3 DEF Phase
  <2>2. s # None BY <1>1, PeerConstants
  <2> QED BY <1>1, <1>3, <1>4, <2>1, <2>2 DEF PeerInv, Holds
<1>8. stream[s].owner = p BY <1>1 DEF Holds
<1> QED BY <1>1, <1>2, <1>3, <1>5, <1>6, <1>7, <1>8, CallerOnStream, ZenonT(60)

\* A frame is written to a quiet stream.
LEMMA SendInv ==
  ASSUME IInv, NEW p \in Peer, call[p].pc \in {"auth", "write"},
         NEW f \in AnyFrame, Guarded /\ p \notin Trusted => ~RightToken(f),
         NEW pc \in {"token", "read"}, call' = [call EXCEPT ![p].pc = pc],
         pc = "token" => f.kind = "Auth", pc = "read" => f = call[p].req,
         stream' = [stream EXCEPT ![call[p].on].up = Sent(stream[call[p].on], @, f)],
         UNCHANGED <<kept, calls, executed, answered>>
  PROVE  IInv'
<1> DEFINE s  == call[p].on
           st == stream[s]
           up == Sent(st, st.up, f)
           nw == [st EXCEPT !.up = up]
<1>1. s \in Stream /\ StreamInv(st) /\ st \in StreamType /\ Holds(p, s) /\ Quiet(st)
  BY OnStream DEF Phase
<1>2. stream' = [stream EXCEPT ![s] = nw] BY <1>1 DEF IInv, VarsType
<1>3. st.up = <<>> /\ st.down = <<>> /\ st.at = "head" BY <1>1 DEF Quiet
<1>4. up \in Queued /\ (up = <<>> \/ up = <<f>>) BY <1>3, QueueOps DEF Sent
<1>5. st.client /\ st.owner = p BY <1>1 DEF Holds
<1> HIDE DEF up
<1>6. /\ nw \in StreamType /\ nw.client = st.client /\ nw.up = up /\ nw.down = <<>>
      /\ nw.at = "head" /\ nw.authed = st.authed /\ nw.owner = p
  BY <1>1, <1>3, <1>4, <1>5, Zenon DEF StreamType
<1> HIDE DEF nw, st
<1>7. StreamInv(nw)
  <2>1. TokenInv(nw) BY <1>1, <1>4, <1>5, <1>6, QueueOps DEF StreamInv, TokenInv
  <2> QED BY <1>6, <2>1 DEF StreamInv
<1>8. \A k, i : Fits(f, k, i) => Expects(nw, k, i) BY <1>4, <1>6 DEF Expects, Quiet
<1>9. pc = "token" => Expects(nw, "Auth", 0) BY <1>8 DEF Fits
<1>10. pc = "read" => Expects(nw, call[p].req.kind, call[p].req.id) BY <1>8 DEF Fits
<1> QED BY <1>2, <1>5, <1>6, <1>7, <1>9, <1>10, CallGoesOn, ZenonT(60)

\* A response is read: it is the one that was awaited, and the stream is quiet.
LEMMA Received ==
  ASSUME NEW st, StreamInv(st), NEW k, NEW i, Expects(st, k, i), st.down # <<>>
  PROVE  LET nw == [st EXCEPT !.down = Tail(@)]
         IN  /\ StreamInv(nw) /\ Quiet(nw) /\ nw.client = st.client /\ nw.owner = st.owner
             /\ Fits(Head(st.down), k, i)
<1> DEFINE nw == [st EXCEPT !.down = Tail(@)]
<1>1. st \in StreamType /\ st.down \in Queued BY DEF StreamInv, StreamType
<1>2. Head(st.down) \in AnyFrame /\ st.down = <<Head(st.down)>> /\ Tail(st.down) = <<>>
  BY <1>1, QueueOfOne
<1>3. st.up = <<>> /\ st.at = "head" /\ Fits(Head(st.down), k, i)
  BY <1>2, QueueOps DEF Expects, Quiet
<1>4. /\ nw \in StreamType /\ nw.client = st.client /\ nw.up = <<>> /\ nw.down = <<>>
      /\ nw.at = "head" /\ nw.authed = st.authed /\ nw.owner = st.owner
  BY <1>1, <1>2, <1>3, QueueOps, SMTT(60) DEF StreamType
<1> HIDE DEF nw
<1>5. StreamInv(nw) BY <1>4, QueueOps DEF StreamInv, TokenInv
<1>6. Quiet(nw) BY <1>4 DEF Quiet
<1> QED BY <1>3, <1>4, <1>5, <1>6 DEF nw

\* exchange_token writes the token.
LEMMA OfferTokenInv == ASSUME IInv, NEW p \in Peer, OfferToken(p) PROVE IInv'
<1> DEFINE b == p \in Trusted
           f == Auth(b)
<1>1. call[p].pc = "auth" /\ UNCHANGED <<kept, calls, executed, answered>> BY DEF OfferToken
<1>2. call' = [call EXCEPT ![p].pc = "token"] BY DEF OfferToken
<1>3. stream' = [stream EXCEPT ![call[p].on].up = Sent(stream[call[p].on], @, f)]
  BY Zenon DEF OfferToken
<1>4. f \in AnyFrame /\ f.kind = "Auth" /\ (~b => ~RightToken(f)) BY AuthFrames, Zenon
<1>5. p \notin Trusted => ~RightToken(f) BY <1>4
<1> HIDE DEF f
<1> QED BY <1>1, <1>2, <1>3, <1>4, <1>5, SendInv, Zenon

\* The request is written.
LEMMA WriteRequestInv == ASSUME IInv, NEW p \in Peer, WriteRequest(p) PROVE IInv'
<1> DEFINE f == call[p].req
<1>1. call[p].pc = "write" /\ UNCHANGED <<kept, calls, executed, answered>> BY DEF WriteRequest
<1>2. call' = [call EXCEPT ![p].pc = "read"] BY DEF WriteRequest
<1>3. stream' = [stream EXCEPT ![call[p].on].up = Sent(stream[call[p].on], @, f)]
  BY DEF WriteRequest
<1>4. f \in AnyFrame /\ f.kind \in Kind BY <1>1, OnStream DEF CallType
<1>5. ~RightToken(f) BY <1>4, FrameTypes DEF RightToken
<1> QED BY <1>1, <1>2, <1>3, <1>4, <1>5, SendInv, Zenon

\* The token is accepted.
LEMMA TokenAcceptedInv == ASSUME IInv, NEW p \in Peer, TokenAccepted(p) PROVE IInv'
<1> DEFINE s  == call[p].on
           st == stream[s]
           nw == [st EXCEPT !.down = Tail(@)]
<1>1. /\ call[p].pc = "token" /\ st.down # <<>> /\ UNCHANGED <<kept, calls, executed, answered>>
      /\ call' = [call EXCEPT ![p].pc = "write"]
  BY DEF TokenAccepted
<1>2. s \in Stream /\ StreamInv(st) /\ Holds(p, s) /\ Expects(st, "Auth", 0)
  BY <1>1, OnStream DEF Phase
<1>3. stream' = [stream EXCEPT ![s] = nw] BY <1>2 DEF TokenAccepted, IInv, VarsType
<1>4. StreamInv(nw) /\ Quiet(nw) /\ nw.client = st.client /\ nw.owner = st.owner
  BY <1>1, <1>2, Received, ZenonT(60)
<1>5. st.client /\ st.owner = p BY <1>2 DEF Holds
<1> HIDE DEF nw
<1>6. nw.client /\ nw.owner = p BY <1>4, <1>5
<1> QED BY <1>1, <1>3, <1>4, <1>6, CallGoesOn, Zenon

\* The response is read: it has the id of the request, and the stream is kept.
LEMMA ReadResponseInv == ASSUME IInv, NEW p \in Peer, ReadResponse(p) PROVE IInv'
<1> DEFINE s    == call[p].on
           st   == stream[s]
           nw   == [st EXCEPT !.down = Tail(@)]
           resp == Head(st.down)
<1>1. /\ call[p].pc = "read" /\ st.down # <<>> /\ UNCHANGED <<calls, executed>>
      /\ call' = [call EXCEPT ![p] = NoCall] /\ kept' = [kept EXCEPT ![p] = s]
  BY SMTT(60) DEF ReadResponse
<1>2. /\ s \in Stream /\ StreamInv(st) /\ Holds(p, s) /\ call[p].req.kind \in Kind
      /\ Expects(st, call[p].req.kind, call[p].req.id)
  BY <1>1, OnStream DEF Phase
<1>3. stream' = [stream EXCEPT ![s] = nw] BY <1>2 DEF ReadResponse, IInv, VarsType
<1>4. /\ StreamInv(nw) /\ Quiet(nw) /\ nw.client = st.client /\ nw.owner = st.owner
      /\ Fits(resp, call[p].req.kind, call[p].req.id)
  BY <1>1, <1>2, Received, ZenonT(60)
<1>5. st.client /\ st.owner = p BY <1>2 DEF Holds
<1>6. OwnResponse'
  <2>1. \/ answered' = answered
        \/ answered' = answered \cup {<<call[p].req.id, resp.id>>}
    BY DEF ReadResponse
  <2>2. call[p].req.id = resp.id BY <1>2, <1>4, FrameTypes DEF Fits
  <2> HIDE DEF resp
  <2>3. \A a \in answered' : a \in answered \/ a = <<call[p].req.id, resp.id>> BY <2>1, SMTT(60)
  <2> QED BY <2>2, <2>3 DEF IInv, OwnResponse
<1> HIDE DEF nw
<1>7. call'[p] = NoCall /\ stream'[s] = nw /\ kept'[p] = s
  BY <1>1, <1>2, <1>3 DEF IInv, VarsType
<1>8. nw.client /\ nw.owner = p BY <1>4, <1>5, SMTT(60)
<1>9. PeerInv(p)' BY <1>4, <1>7, <1>8, NoCallType, SMTT(60) DEF PeerInv, Holds
<1>10. calls' \in Nat BY <1>1, SMTT(60) DEF IInv, VarsType
<1> QED BY <1>1, <1>2, <1>3, <1>4, <1>5, <1>6, <1>9, <1>10, NoCallType, CallerOnStream, Zenon

\* A call is cancelled in the middle of a write.
LEMMA CancelWritingInv == ASSUME IInv, NEW p \in Peer, CancelWriting(p) PROVE IInv'
<1> DEFINE s   == call[p].on
           st  == stream[s]
           cut == [st EXCEPT !.up = Append(@, Cut)]
           nw  == Dropped(cut)
<1>1. /\ call[p].pc \in {"auth", "write"} /\ UNCHANGED <<kept, calls, executed, answered>>
      /\ call' = [call EXCEPT ![p] = NoCall] /\ stream' = [stream EXCEPT ![s] = nw]
  BY DEF CancelWriting
<1>2. /\ s \in Stream /\ StreamInv(st) /\ st \in StreamType /\ Holds(p, s) /\ Quiet(st)
      /\ kept[p] = None
  BY <1>1, OnStream DEF Phase
<1>3. /\ cut \in StreamType /\ cut.up = <<Cut>> /\ cut.down = <<>> /\ cut.at = "head"
      /\ cut.authed = st.authed /\ cut.owner = st.owner
  BY <1>2, QueueOps, FrameTypes DEF Quiet, StreamType
<1>4. st.owner = p BY <1>2 DEF Holds
<1> HIDE DEF cut, st
<1>5. StreamInv(cut)
  <2>1. TokenInv(cut)
    BY <1>2, <1>3, QueueOps, FrameTypes DEF StreamInv, TokenInv, RightToken
  <2> QED BY <1>3, <2>1 DEF StreamInv
<1>6. StreamInv(nw) BY <1>5, DroppedInv
<1> HIDE DEF nw
<1>7. call'[p] = NoCall BY <1>1, SMTT(60) DEF IInv, VarsType
<1>8. PeerInv(p)' BY <1>1, <1>2, <1>7, NoCallType, SMTT(60) DEF PeerInv
<1>9. /\ calls' \in Nat /\ kept' = [kept EXCEPT ![p] = None]
  BY <1>1, <1>2 DEF IInv, VarsType
<1>10. OwnResponse' BY <1>1 DEF IInv, OwnResponse
<1> QED BY <1>1, <1>2, <1>4, <1>6, <1>8, <1>9, <1>10, NoCallType, CallerOnStream, ZenonT(60) DEF st

-----------------------------------------------------------------------------
\* Nothing is under way when the nodes start.
LEMMA InitInv == Init => IInv
<1> SUFFICES ASSUME Init PROVE IInv OBVIOUS
<1>1. \A s \in Stream : StreamInv(stream[s]) BY NoStreamInv DEF Init
<1>2. VarsType BY <1>1, NoCallType DEF Init, VarsType, StreamInv
<1>3. \A p \in Peer : PeerInv(p) BY NoCallType DEF Init, PeerInv
<1>4. OwnResponse /\ AuthBeforeRpc BY DEF Init, OwnResponse, AuthBeforeRpc
<1> QED BY <1>1, <1>2, <1>3, <1>4 DEF IInv

\* Every step of a caller.
LEMMA CallStepInv ==
  ASSUME IInv, NEW p \in Peer, CallStep(p) \/ CallFails(p) \/ Cancel(p) \/ CancelWriting(p)
  PROVE  IInv'
<1>1. ASSUME TokenRefused(p) \/ AuthTimeout(p) \/ PeerClosed(p) \/ CallFails(p) \/ Cancel(p)
      PROVE  Abandon(p)
  BY <1>1, Zenon DEF TokenRefused, AuthTimeout, PeerClosed, CallFails, Cancel
<1> QED BY <1>1, AbandonInv, ConnectInv, OfferTokenInv, TokenAcceptedInv, WriteRequestInv,
           ReadResponseInv, CancelWritingInv, SMTT(60)
        DEF CallStep

\* The invariant is inductive.
LEMMA NextInv == IInv /\ [Next]_vars => IInv'
<1> SUFFICES ASSUME IInv, [Next]_vars PROVE IInv' OBVIOUS
<1>1. ASSUME NEW p \in Peer, NEW kind \in Kind, Call(p, kind) PROVE IInv'
  BY <1>1, CallInv
<1>2. ASSUME NEW p \in Peer, CallStep(p) \/ CallFails(p) \/ Cancel(p) \/ CancelWriting(p)
      PROVE  IInv'
  BY <1>2, CallStepInv
<1>3. ASSUME NEW s \in Stream, ServeStep(s) PROVE IInv' BY <1>3, ServeStepInv
<1>4. ASSUME UNCHANGED <<stream, kept, call, calls, executed, answered>> PROVE IInv'
  BY <1>4 DEF IInv, VarsType, PeerInv, Holds, OwnResponse, AuthBeforeRpc
<1>5. ASSUME NEW p \in Peer, SetBlocked(p) PROVE IInv' BY <1>4, <1>5 DEF SetBlocked
<1>6. ASSUME NEW s \in Stream, ReplyFails(s) PROVE IInv' BY <1>6, CloseInv DEF ReplyFails
<1>7. ASSUME NEW s \in Stream, Lose(s) PROVE IInv' BY <1>7, LoseInv
<1>8. ASSUME Restart PROVE IInv' BY <1>8, CloseInv
<1>9. ASSUME UNCHANGED vars PROVE IInv' BY <1>4, <1>9 DEF vars
<1> QED BY <1>1, <1>2, <1>3, <1>5, <1>6, <1>7, <1>8, <1>9 DEF Next

\* A call never returns the response to another request, however many calls
\* were cancelled or failed before it: PeerConnection::call takes the stream
\* out before it writes, and puts it back only after it read the response.
THEOREM ResponsesMatch == Spec => []OwnResponse
<1>1. IInv => OwnResponse BY DEF IInv
<1> QED BY <1>1, InitInv, NextInv, PTL DEF Spec

\* With a token configured, no RPC of a peer without it reaches the Raft of the
\* node: handle_conn runs nothing before a right Auth frame came over that
\* connection.
THEOREM TokenFirst == Spec => []AuthBeforeRpc
<1>1. IInv => AuthBeforeRpc BY DEF IInv
<1> QED BY <1>1, InitInv, NextInv, PTL DEF Spec
=============================================================================
