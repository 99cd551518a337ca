----------------------------- MODULE ClientPort -----------------------------
(***************************************************************************)
(* serve_clients_authenticated and handle_client of client.rs: one client  *)
(* connection.  A request carries no id: the client knows a response by    *)
(* its place, so the order in which responses are written is all that      *)
(* matters here, and what a response says is left out.                     *)
(*                                                                         *)
(* Three parties interleave: the reader loop, the handlers it spawns, one  *)
(* for each request, which finish in any order, and the writer task, which *)
(* takes their oneshot receivers from a channel of PIPELINE_DEPTH.  The    *)
(* client may send anything, close its end or vanish, and a handler may    *)
(* panic.  What the handlers do is the subject of the modules Client and   *)
(* Subscription.                                                           *)
(***************************************************************************)
EXTENDS Integers, Sequences, FiniteSets, SequencesExt

CONSTANTS Guarded,        \* whether the port demands a token
          PipelineDepth,  \* PIPELINE_DEPTH
          MaxFrames       \* bound: frames the client sends

ASSUME PortConstants ==
    Guarded \in BOOLEAN /\ PipelineDepth \in Nat \ {0} /\ MaxFrames \in Nat

VARIABLES client,   \* "here", or "gone": nothing more is read or written
          conn,     \* where handle_client is
          authed,   \* whether the token was presented
          frames,   \* frames read, by kind: their places are their ids
          reader,   \* the reader loop: where it is and what it does after a send
          pipe,     \* receivers in the channel, by id
          reply,    \* the oneshots, by id: "pending", "sent" or "dropped"
          writer,   \* the writer task: where it is and the receiver it awaits
          out       \* the responses written, by id

vars == <<client, conn, authed, frames, reader, pipe, reply, writer, out>>

\* The frames a client may send: the right token, another one, a request, a
\* subscribe request, and a frame that does not decode.
Kind == {"token", "wrong", "request", "subscribe", "garbage"}

Ids == 1 .. Len(frames)

Init ==
    /\ client = "here" /\ conn = "new" /\ authed = ~Guarded /\ frames = <<>>
    /\ reader = [pc |-> "read", then |-> "read"]
    /\ pipe = <<>> /\ reply = <<>> /\ out = <<>>
    /\ writer = [pc |-> "recv", id |-> 0]

\* One permit of MAX_CLIENT_CONNS each; without one the stream is dropped.
Accept ==
    /\ conn = "new"
    /\ conn' \in {"open", "closed"}
    /\ UNCHANGED <<client, authed, frames, reader, pipe, reply, writer, out>>

-----------------------------------------------------------------------------
(***************************************************************************)
(* The reader loop                                                         *)
(***************************************************************************)
Reading == conn = "open" /\ client = "here" /\ reader.pc = "read" /\ Len(frames) < MaxFrames

\* Queue the receiver of the frame just read; its oneshot is answered already
\* or a handler will answer it.
Queue(kind, state, then) ==
    /\ frames' = Append(frames, kind)
    /\ reply' = Append(reply, state)
    /\ reader' = [pc |-> "send", then |-> then]
    /\ UNCHANGED <<client, conn, pipe, writer, out>>

BadRequest ==
    /\ Reading
    /\ Queue("garbage", "sent", "read")
    /\ UNCHANGED authed

\* One chance to authenticate.
Authenticate(kind) ==
    /\ Reading /\ ~authed /\ kind # "garbage"
    /\ Queue(kind, "sent", IF kind = "token" THEN "continue" ELSE "end")
    /\ authed' = (kind = "token")

\* Spawn the handler, then queue its receiver.  A token on an authenticated
\* connection is a request like any other.
Spawn(kind) ==
    /\ Reading /\ authed /\ kind \in {"token", "wrong", "request"}
    /\ Queue(kind, "pending", "read")
    /\ UNCHANGED authed

Subscribe ==
    /\ Reading /\ authed
    /\ frames' = Append(frames, "subscribe") /\ reply' = Append(reply, "sub")
    /\ reader' = [pc |-> "drain", then |-> "subscribe"]
    /\ UNCHANGED <<client, conn, authed, pipe, writer, out>>

SendReceiverAtOnce ==
    /\ reader.pc = "send" /\ writer.pc # "ended"
    /\ pipe' = Append(pipe, Len(frames))
    /\ reader' = [reader EXCEPT !.pc = IF reader.then = "end" THEN "drain" ELSE "read"]
    /\ UNCHANGED <<client, conn, authed, frames, reply, writer, out>>

\* tx.send waits for room, and fails once the writer has ended, which the
\* reader heeds except when it answers a good token.
SendReceiver ==
    /\ reader.pc = "send" /\ writer.pc # "ended" /\ Len(pipe) < PipelineDepth
    /\ pipe' = Append(pipe, Len(frames))
    /\ reader' = [reader EXCEPT !.pc = IF reader.then = "end" THEN "drain" ELSE "read"]
    /\ UNCHANGED <<client, conn, authed, frames, reply, writer, out>>

SendWaits ==
    /\ FALSE
    /\ UNCHANGED vars

SendFails ==
    /\ reader.pc = "send" /\ writer.pc = "ended"
    /\ reader' = IF reader.then = "continue" THEN [pc |-> "read", then |-> "read"]
                 ELSE [pc |-> "drain", then |-> "end"]
    /\ UNCHANGED <<client, conn, authed, frames, pipe, reply, writer, out>>

\* End of stream, an error, a frame over MAX_CLIENT_FRAME or one whose body
\* does not come in time.
ReadFails ==
    /\ conn = "open" /\ reader.pc = "read"
    /\ reader' = [pc |-> "drain", then |-> "end"]
    /\ UNCHANGED <<client, conn, authed, frames, pipe, reply, writer, out>>

\* drop(tx), and writer.await.
LeaveAtOnce ==
    /\ conn = "open" /\ reader.pc = "drain"
    /\ conn' = IF reader.then = "subscribe" THEN "subscribed" ELSE "closed"
    /\ UNCHANGED <<client, authed, frames, reader, pipe, reply, writer, out>>

Leave ==
    /\ conn = "open" /\ reader.pc = "drain" /\ writer.pc = "ended"
    /\ conn' = IF reader.then = "subscribe" THEN "subscribed" ELSE "closed"
    /\ UNCHANGED <<client, authed, frames, reader, pipe, reply, writer, out>>

(***************************************************************************)
(* The handlers and the writer task                                        *)
(***************************************************************************)
\* handle_request returns, and its response is sent to the oneshot.
Respond(id) ==
    /\ reply[id] = "pending"
    /\ reply' = [reply EXCEPT ![id] = "sent"]
    /\ UNCHANGED <<client, conn, authed, frames, reader, pipe, writer, out>>

Panic(id) ==
    /\ reply[id] = "pending"
    /\ reply' = [reply EXCEPT ![id] = "dropped"]
    /\ UNCHANGED <<client, conn, authed, frames, reader, pipe, writer, out>>

TakeReceiver ==
    /\ conn = "open" /\ writer.pc = "recv" /\ pipe # <<>>
    /\ writer' = [pc |-> "await", id |-> Head(pipe)]
    /\ pipe' = Tail(pipe)
    /\ UNCHANGED <<client, conn, authed, frames, reader, reply, out>>

\* The writer task is aborted when the reader loop fails.
WriterAborted ==
    /\ conn = "open" /\ writer.pc = "recv" /\ reader.pc = "drain"
    /\ pipe = <<>> \/ reader.then = "end"
    /\ writer' = [writer EXCEPT !.pc = "ended"]
    /\ UNCHANGED <<client, conn, authed, frames, reader, pipe, reply, out>>

\* The sender is dropped and the channel is empty.
ChannelClosed ==
    /\ conn = "open" /\ writer.pc = "recv" /\ pipe = <<>> /\ reader.pc = "drain"
    /\ writer' = [writer EXCEPT !.pc = "ended"]
    /\ UNCHANGED <<client, conn, authed, frames, reader, pipe, reply, out>>

\* A client that is gone cannot be written to.
WriteResponse ==
    /\ writer.pc = "await" /\ reply[writer.id] = "sent"
    /\ IF client = "here"
       THEN out' = Append(out, writer.id) /\ writer' = [pc |-> "recv", id |-> 0]
       ELSE out' = out /\ writer' = [writer EXCEPT !.pc = "ended"]
    /\ UNCHANGED <<client, conn, authed, frames, reader, pipe, reply>>

SkipDropped ==
    /\ writer.pc = "await" /\ reply[writer.id] = "dropped"
    /\ writer' = [pc |-> "recv", id |-> 0]
    /\ UNCHANGED <<client, conn, authed, frames, reader, pipe, reply, out>>

ResponseDropped ==
    /\ writer.pc = "await" /\ reply[writer.id] = "dropped"
    /\ writer' = [writer EXCEPT !.pc = "ended"]
    /\ UNCHANGED <<client, conn, authed, frames, reader, pipe, reply, out>>

Vanish ==
    /\ client = "here"
    /\ client' = "gone"
    /\ UNCHANGED <<conn, authed, frames, reader, pipe, reply, writer, out>>

ReaderStep == SendReceiver \/ SendFails \/ Leave

WriterStep == TakeReceiver \/ ChannelClosed \/ WriteResponse \/ ResponseDropped

Next ==
    \/ Accept
    \/ BadRequest
    \/ \E kind \in Kind : Authenticate(kind) \/ Spawn(kind)
    \/ Subscribe
    \/ ReaderStep
    \/ ReadFails
    \/ WriterStep
    \/ \E id \in Ids : Respond(id) \/ Panic(id)
    \/ Vanish

Spec == Init /\ [][Next]_vars

\* The tasks run on, every handler ends, and a client that is gone is noticed,
\* by the keepalive at the latest.
FairSpec ==
    /\ Spec /\ WF_vars(ReaderStep) /\ WF_vars(WriterStep)
    /\ WF_vars(client = "gone" /\ ReadFails)
    /\ \A id \in 1 .. MaxFrames : WF_vars(id \in Ids /\ (Respond(id) \/ Panic(id)))
-----------------------------------------------------------------------------
\* README: responses are always written in request order.  The nth response is
\* the one to the nth frame, whatever the order in which the handlers finish,
\* and a response that will never come is not skipped over.
InRequestOrder == \A n \in DOMAIN out : out[n] = n

Handled == {id \in Ids : reply[id] = "pending"}

\* The handlers that run at a time: one for each receiver in the channel, the
\* one the writer awaits and the one the reader has yet to queue.
PipelineBounded == conn = "open" /\ writer.pc # "ended" => Cardinality(Handled) <= PipelineDepth + 2

\* README: up to 32 requests are processed concurrently per connection.
PipelineAsDocumented == conn = "open" /\ writer.pc # "ended" => Cardinality(Handled) <= PipelineDepth

Lost == \E id \in Ids : reply[id] = "dropped"

\* README: a subscribe frame waits for all pending responses to drain.  When
\* the subscription takes the connection over, every frame before it has been
\* answered, unless the client is gone or a handler was lost.
SubscribeDrains ==
    conn = "subscribed" =>
        \/ Len(out) = Len(frames) - 1
        \/ client = "gone"
        \/ Lost

\* Every frame is answered, however many long requests are ahead of it and also
\* if the client has closed its sending side by then.  The exceptions are a
\* client that is gone, and a handler that panicked: the writer ends there, and
\* the connection stays open and silent until the client sends another frame.
AllAnswered ==
    \A id \in 1 .. MaxFrames :
        (id \in Ids /\ reply[id] # "sub") ~> (id \in ToSet(out) \/ client = "gone" \/ Lost)

\* A connection whose client is gone is given up, and with it its permit.
GivenUp == client = "gone" /\ conn = "open" ~> conn # "open"
=============================================================================
