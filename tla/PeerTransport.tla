--------------------------- MODULE PeerTransport ----------------------------
(***************************************************************************)
(* engine/network.rs over frame.rs: the RPCs between the nodes.  Each      *)
(* PeerConnection of a calling node makes one call at a time to the same   *)
(* node, over a TCP stream it keeps between calls; the called node serves  *)
(* every accepted stream with a task of its own, handle_conn.              *)
(*                                                                         *)
(* openraft may cancel a call at any of its awaits, the called node may    *)
(* restart, its Raft may have stopped, and the network may lose a stream   *)
(* without either end being told.  A stream carries frames in order; of a  *)
(* frame that was cut short only the header counts (Cut).  No frame is     *)
(* over MAX_PEER_FRAME: an append holds at most 32 batches.                *)
(***************************************************************************)
EXTENDS Integers, Sequences, FiniteSets

CONSTANTS Peer,          \* the PeerConnections to one node
          Guarded,       \* whether the node demands a token
          Trusted,       \* the ones that present the node's token
          Mistaken,      \* the ones that present another; the rest have none
          Partitioned,   \* the ones an operator may cut off
          Stream,        \* bound: TCP streams that exist at a time
          Kind,          \* the RPCs tried
          MaxPeerConns,  \* MAX_PEER_CONNS
          MaxCalls       \* bound: calls made

None == "None"

ASSUME PeerConstants ==
    /\ Guarded \in BOOLEAN /\ None \notin Peer \cup Stream
    /\ Trusted \subseteq Peer /\ Mistaken \subseteq Peer /\ Trusted \cap Mistaken = {}
    /\ Partitioned \subseteq Peer
    /\ Kind \subseteq {"AppendEntries", "Vote", "InstallSnapshot"}
    /\ MaxPeerConns \in Nat /\ MaxCalls \in Nat

VARIABLES stream,    \* the streams: frames under way and the state of both ends
          kept,      \* PeerConnection::stream, or None
          call,      \* the call each PeerConnection is in
          blocked,   \* the PeerConnections whose target is in PartitionControl
          calls,     \* calls made: their ids
          executed,  \* RPCs handed to the node's Raft, and who sent them
          answered   \* what calls returned

vars == <<stream, kept, call, blocked, calls, executed, answered>>

NoFrame == [kind |-> "None", id |-> 0, stopped |-> FALSE]
Cut == [NoFrame EXCEPT !.kind = "Cut"]
Rpc(kind, id) == [NoFrame EXCEPT !.kind = kind, !.id = id]

\* Auth carries, as a request, whether the token is right, and as a response
\* the verdict.
Auth(right) == [NoFrame EXCEPT !.kind = "Auth", !.id = IF right THEN 1 ELSE 0]

\* client: whether the caller's end is open.  server: not yet accepted, served
\* by handle_conn, or closed.  carries: whether the network still delivers.
NoStream == [client |-> FALSE, server |-> "closed", carries |-> TRUE, up |-> <<>>, down |-> <<>>,
             at |-> "head", authed |-> FALSE, req |-> NoFrame, owner |-> None]
NoCall == [pc |-> "idle", req |-> NoFrame, on |-> None]

Init ==
    /\ stream = [s \in Stream |-> NoStream]
    /\ kept = [p \in Peer |-> None]
    /\ call = [p \in Peer |-> NoCall]
    /\ blocked = {} /\ calls = 0 /\ executed = {} /\ answered = {}

Serving == {s \in Stream : stream[s].server = "serving"}

-----------------------------------------------------------------------------
(***************************************************************************)
(* PeerConnection::call                                                    *)
(***************************************************************************)
\* The stream once the caller's end is dropped: it is free when the other end
\* is closed too.
Dropped(st) == IF st.server = "closed" THEN NoStream ELSE [st EXCEPT !.client = FALSE, !.down = <<>>]

\* The call ends without a response, and the stream it took goes with it.
Abandon(p) ==
    /\ stream' = [s \in Stream |-> IF s = call[p].on THEN Dropped(stream[s]) ELSE stream[s]]
    /\ call' = [call EXCEPT ![p] = NoCall]
    /\ UNCHANGED <<kept, blocked, calls, executed, answered>>

CallBlocked(p) ==
    /\ p \in blocked
    /\ stream' = [s \in Stream |-> IF s = kept[p] THEN Dropped(stream[s]) ELSE stream[s]]
    /\ kept' = [kept EXCEPT ![p] = None]
    /\ UNCHANGED call

\* self.stream.take(): from here on the stream is the call's.
CallStarts(p, kind) ==
    /\ p \notin blocked
    /\ call' = [call EXCEPT ![p] = [pc |-> IF kept[p] = None THEN "connect" ELSE "write",
                                    req |-> Rpc(kind, calls + 1), on |-> kept[p]]]
    /\ kept' = [kept EXCEPT ![p] = None]
    /\ UNCHANGED stream

Call(p, kind) ==
    /\ call[p].pc = "idle" /\ calls < MaxCalls
    /\ calls' = calls + 1
    /\ CallBlocked(p) \/ CallStarts(p, kind)
    /\ UNCHANGED <<blocked, executed, answered>>

Free(s) == ~stream[s].client /\ stream[s].server = "closed"

Connect(p, s) ==
    /\ call[p].pc = "connect" /\ Free(s)
    /\ stream' = [stream EXCEPT ![s] =
                     [NoStream EXCEPT !.client = TRUE, !.server = "backlog", !.owner = p]]
    /\ call' = [call EXCEPT ![p].on = s,
                            ![p].pc = IF p \in Trusted \cup Mistaken THEN "auth" ELSE "write"]
    /\ UNCHANGED <<kept, blocked, calls, executed, answered>>

\* What the network carries of a frame that is written.
Sent(st, frames, frame) == IF st.carries /\ st.server # "closed" THEN Append(frames, frame) ELSE frames

\* exchange_token
OfferToken(p) ==
    /\ call[p].pc = "auth"
    /\ stream' = [stream EXCEPT ![call[p].on].up = Sent(stream[call[p].on], @, Auth(p \in Trusted))]
    /\ call' = [call EXCEPT ![p].pc = "token"]
    /\ UNCHANGED <<kept, blocked, calls, executed, answered>>

TokenAccepted(p) ==
    /\ call[p].pc = "token" /\ stream[call[p].on].down # <<>>
    /\ Head(stream[call[p].on].down) = Auth(TRUE)
    /\ stream' = [stream EXCEPT ![call[p].on].down = Tail(@)]
    /\ call' = [call EXCEPT ![p].pc = "write"]
    /\ UNCHANGED <<kept, blocked, calls, executed, answered>>

TokenRefused(p) ==
    /\ call[p].pc = "token" /\ stream[call[p].on].down # <<>>
    /\ Head(stream[call[p].on].down) # Auth(TRUE)
    /\ Abandon(p)

NoAuthTimeout(p) == FALSE /\ Abandon(p)

AuthTimeout(p) == call[p].pc \in {"auth", "token"} /\ Abandon(p)

WriteRequest(p) ==
    /\ call[p].pc = "write"
    /\ stream' = [stream EXCEPT ![call[p].on].up = Sent(stream[call[p].on], @, call[p].req)]
    /\ call' = [call EXCEPT ![p].pc = "read"]
    /\ UNCHANGED <<kept, blocked, calls, executed, answered>>

\* append_entries, vote and install_snapshot take the response of their own
\* kind only.
Matches(req, resp) == req.kind = resp.kind

ReadResponse(p) ==
    LET resp == Head(stream[call[p].on].down)
    IN  /\ call[p].pc = "read" /\ stream[call[p].on].down # <<>>
        /\ stream' = [stream EXCEPT ![call[p].on].down = Tail(@)]
        /\ kept' = [kept EXCEPT ![p] = call[p].on]
        /\ answered' = IF Matches(call[p].req, resp)
                       THEN answered \cup {<<call[p].req.id, resp.id>>} ELSE answered
        /\ call' = [call EXCEPT ![p] = NoCall]
        /\ UNCHANGED <<blocked, calls, executed>>

\* The other end is closed: nothing more can be read, and a write may fail.
PeerClosed(p) ==
    /\ call[p].pc \in {"auth", "token", "write", "read"}
    /\ stream[call[p].on].server = "closed" /\ stream[call[p].on].carries
    /\ stream[call[p].on].down = <<>>
    /\ Abandon(p)

\* A read or write on a lost stream may fail, and so may a connect.
CallFails(p) ==
    /\ \/ call[p].pc = "connect"
       \/ call[p].pc \notin {"idle", "connect"} /\ ~stream[call[p].on].carries
    /\ Abandon(p)

\* openraft drops the future of the call, here or in the middle of a write.
CancelKeepingStream(p) ==
    /\ call[p].pc # "idle"
    /\ kept' = [kept EXCEPT ![p] = call[p].on]
    /\ call' = [call EXCEPT ![p] = NoCall]
    /\ UNCHANGED <<stream, blocked, calls, executed, answered>>

Cancel(p) == call[p].pc # "idle" /\ Abandon(p)

CancelWriting(p) ==
    LET st == stream[call[p].on]
    IN  /\ call[p].pc \in {"auth", "write"} /\ st.server # "closed" /\ st.carries
        /\ stream' = [stream EXCEPT ![call[p].on] = Dropped([st EXCEPT !.up = Append(@, Cut)])]
        /\ call' = [call EXCEPT ![p] = NoCall]
        /\ UNCHANGED <<kept, blocked, calls, executed, answered>>

(***************************************************************************)
(* serve_peer_authenticated and handle_conn                                *)
(***************************************************************************)
\* The stream once handle_conn returns and drops its end and its permit.
Closed(st) ==
    IF st.client THEN [st EXCEPT !.server = "closed", !.up = <<>>, !.at = "head", !.req = NoFrame,
                                 !.authed = FALSE]
    ELSE NoStream

CloseConn(s) ==
    /\ stream' = [stream EXCEPT ![s] = Closed(@)]
    /\ UNCHANGED <<kept, call, blocked, calls, executed, answered>>

\* One permit per connection; without one the stream is dropped.
Accept(s) ==
    /\ stream[s].server = "backlog"
    /\ stream' = [stream EXCEPT ![s] = IF Cardinality(Serving) < MaxPeerConns
                                       THEN [@ EXCEPT !.server = "serving", !.authed = ~Guarded]
                                       ELSE Closed(@)]
    /\ UNCHANGED <<kept, call, blocked, calls, executed, answered>>

\* read_frame_deadline: the header waits for ever, the body BODY_TIMEOUT.
ReadRequest(s) ==
    LET frame == Head(stream[s].up)
    IN  /\ s \in Serving /\ stream[s].at = "head" /\ stream[s].up # <<>>
        /\ stream' = [stream EXCEPT ![s].up = Tail(@), ![s].at = IF frame = Cut THEN "body" ELSE "run",
                                    ![s].req = IF frame = Cut THEN NoFrame ELSE frame]
        /\ UNCHANGED <<kept, call, blocked, calls, executed, answered>>

NoBodyTimeout(s) == FALSE /\ CloseConn(s)

BodyTimeout(s) == s \in Serving /\ stream[s].at = "body" /\ CloseConn(s)

EndOfStream(s) ==
    /\ s \in Serving /\ stream[s].at \in {"head", "body"} /\ stream[s].up = <<>>
    /\ ~stream[s].client /\ stream[s].carries
    /\ CloseConn(s)

HandleAuthAny(s) ==
    /\ s \in Serving /\ stream[s].at = "run" /\ stream[s].req.kind = "Auth"
    /\ stream' = [stream EXCEPT ![s].authed = TRUE, ![s].at = "reply", ![s].req = Auth(TRUE)]
    /\ UNCHANGED <<kept, call, blocked, calls, executed, answered>>

\* A wrong token is answered, and the connection closed behind the answer.
HandleAuth(s) ==
    LET right == stream[s].req.id = 1 \/ ~Guarded
    IN  /\ s \in Serving /\ stream[s].at = "run" /\ stream[s].req.kind = "Auth"
        /\ stream' = [stream EXCEPT ![s].authed = right, ![s].at = "reply", ![s].req = Auth(right)]
        /\ UNCHANGED <<kept, call, blocked, calls, executed, answered>>

RefuseUnauthed(s) ==
    /\ s \in Serving /\ stream[s].at = "run" /\ stream[s].req.kind # "Auth" /\ ~stream[s].authed
    /\ CloseConn(s)

\* The node's Raft runs the RPC; it may have stopped.
Execute(s, stopped) ==
    /\ s \in Serving /\ stream[s].at = "run" /\ stream[s].req.kind # "Auth" /\ stream[s].authed
    /\ executed' = executed \cup {[id |-> stream[s].req.id, from |-> stream[s].owner]}
    /\ stream' = [stream EXCEPT ![s].at = "reply", ![s].req.stopped = stopped]
    /\ UNCHANGED <<kept, call, blocked, calls, answered>>

\* After a fatal answer, or a refused token, the connection is closed.
LastReply(st) == ~st.authed \/ st.req.stopped

Reply(s) ==
    LET st   == stream[s]
        told == [st EXCEPT !.down = IF st.carries /\ st.client THEN Append(@, st.req) ELSE @]
    IN  /\ s \in Serving /\ st.at = "reply"
        /\ stream' = [stream EXCEPT ![s] = IF LastReply(st) THEN Closed(told)
                                           ELSE [told EXCEPT !.at = "head", !.req = NoFrame]]
        /\ UNCHANGED <<kept, call, blocked, calls, executed, answered>>

ReplyFails(s) ==
    /\ s \in Serving /\ stream[s].at = "reply" /\ ~(stream[s].client /\ stream[s].carries)
    /\ CloseConn(s)

(***************************************************************************)
(* The operator, the network and the other node                            *)
(***************************************************************************)
SetBlocked(p) ==
    /\ p \in Partitioned
    /\ blocked' = IF p \in blocked THEN blocked \ {p} ELSE blocked \cup {p}
    /\ UNCHANGED <<stream, kept, call, calls, executed, answered>>

\* The network stops carrying a stream: of what is under way a front is still
\* delivered, and of the next frame maybe its header.
Lose(s) ==
    /\ stream[s].client /\ stream[s].carries
    /\ \E n \in 0 .. Len(stream[s].up), m \in 0 .. Len(stream[s].down) :
          \E rest \in {<<>>} \cup {<<Cut>> : i \in n + 1 .. Len(stream[s].up)} :
              stream' = [stream EXCEPT ![s].carries = FALSE, ![s].up = SubSeq(@, 1, n) \o rest,
                                       ![s].down = SubSeq(@, 1, m)]
    /\ UNCHANGED <<kept, call, blocked, calls, executed, answered>>

\* The called node restarts: its ends of all streams are closed.
Restart ==
    /\ Serving # {}
    /\ stream' = [s \in Stream |-> Closed(stream[s])]
    /\ UNCHANGED <<kept, call, blocked, calls, executed, answered>>

CallStep(p) ==
    \/ \E s \in Stream : Connect(p, s)
    \/ OfferToken(p) \/ TokenAccepted(p) \/ TokenRefused(p) \/ AuthTimeout(p)
    \/ WriteRequest(p) \/ ReadResponse(p) \/ PeerClosed(p)

ServeStep(s) ==
    \/ Accept(s) \/ ReadRequest(s) \/ BodyTimeout(s) \/ EndOfStream(s)
    \/ HandleAuth(s) \/ RefuseUnauthed(s) \/ Reply(s)
    \/ \E stopped \in BOOLEAN : Execute(s, stopped)

Next ==
    \/ \E p \in Peer, kind \in Kind : Call(p, kind)
    \/ \E p \in Peer : CallStep(p)
    \/ \E s \in Stream : ServeStep(s)
    \/ \E p \in Peer : CallFails(p) \/ Cancel(p) \/ CancelWriting(p) \/ SetBlocked(p)
    \/ \E s \in Stream : ReplyFails(s) \/ Lose(s)
    \/ Restart

Spec == Init /\ [][Next]_vars

\* Both ends keep running their tasks and timers; nobody has to call, and
\* nothing has to fail.
FairSpec ==
    /\ Spec
    /\ \A p \in Peer : WF_vars(CallStep(p))
    /\ \A s \in Stream : WF_vars(ServeStep(s))
-----------------------------------------------------------------------------
\* A response a call returns is the response to its own request, whichever
\* earlier calls were cancelled between request and response, timed out or
\* failed: none of them leaves a stream behind on which a late response waits.
OwnResponse == \A a \in answered : a[1] = a[2]

\* An RPC reaches the node's Raft only over a connection that presented the
\* right token.
AuthBeforeRpc == Guarded => \A e \in executed : e.from \in Trusted

\* A node gives up a connection, and gets its permit back, once the caller has
\* closed its end or leaves a frame unfinished, even if the network lost the
\* stream in the middle of it.
PermitReturned ==
    \A s \in Stream :
        (s \in Serving /\ (stream[s].at = "body" \/ (~stream[s].client /\ stream[s].carries)))
            ~> s \notin Serving

\* A handshake ends, also with a node that accepts and then says nothing.
HandshakeEnds == \A p \in Peer : call[p].pc = "token" ~> call[p].pc # "token"
=============================================================================
