-------------------------------- MODULE Conn --------------------------------
(***************************************************************************)
(* The client's side of one connection after Auth succeeded:               *)
(*                                                                         *)
(*   ui        the goroutine of main and of the event loop (App.Run): it   *)
(*             calls Conn.Send and draws what the listener queues          *)
(*   writer    Conn.writeLoop: outgoing channel -> wire                    *)
(*   reader    Conn.readLoop: wire -> incoming channel                     *)
(*   listener  App.listenIncoming: incoming channel -> event loop; it      *)
(*             waits in QueueUpdateDraw until the loop has drawn           *)
(*                                                                         *)
(* They meet in two buffered channels and in Close, which any of them may  *)
(* call: it closes the socket, then the channel done, once.  A frame is    *)
(* its number; one that is cut in the middle is never decoded, so it       *)
(* counts as lost.  The server decodes frames whether or not it can write  *)
(* its own (HandlerNeverWedged of Hub), and writes when it likes.          *)
(***************************************************************************)
EXTENDS Naturals, Sequences

CONSTANTS
  OutgoingCap,  \* capacity of Conn.outgoing (64)
  IncomingCap,  \* capacity of Conn.incoming (64)
  WireCap,      \* frames the network holds in one direction
  MaxCalls,     \* bound of the model: calls of Send
  MaxPushed     \* bound of the model: frames the server writes

ASSUME ConnAssumption ==
  /\ {OutgoingCap, IncomingCap, WireCap} \subseteq Nat \ {0}
  /\ MaxCalls \in Nat /\ MaxPushed \in Nat

VARIABLES
  ui,        \* "idle" in the event loop, "sending", "quit" (Run returned) or "exited"
  calls,     \* how many calls of Send were made
  outgoing, incoming,         \* the channels
  writer, reader, listener,   \* where each goroutine is, and its frame
  socket,    \* c.conn is closed on this side
  done,      \* c.done is closed
  closes,    \* how often close(c.done) was executed
  up, down,  \* the frames on the wire to and from the server
  peer,      \* the server's end is open and the network works
  heard,     \* the frames the server decoded
  pushed,    \* how many frames the server wrote
  shown      \* the frames the event loop was given

uiVars     == <<ui, calls>>
upVars     == <<outgoing, writer, up, heard>>
downVars   == <<incoming, reader, listener, down, shown>>
closeVars  == <<socket, done, closes>>
serverVars == <<peer, pushed>>
vars == <<uiVars, upVars, downVars, closeVars, serverVars>>

At(p)      == [at |-> p, frame |-> 0]
With(p, n) == [at |-> p, frame |-> n]

Init ==
  /\ ui = "idle" /\ calls = 0
  /\ outgoing = <<>> /\ incoming = <<>>
  /\ writer = At("waiting") /\ reader = At("decoding") /\ listener = At("waiting")
  /\ socket = FALSE /\ done = FALSE /\ closes = 0
  /\ up = <<>> /\ down = <<>>
  /\ peer = TRUE /\ heard = <<>> /\ pushed = 0 /\ shown = <<>>

-----------------------------------------------------------------------------
(* The event loop: Send is select { case outgoing <- m: case <-done: }. *)

Send ==
  /\ ui = "idle" /\ calls < MaxCalls
  /\ ui' = "sending" /\ calls' = calls + 1
  /\ UNCHANGED <<upVars, downVars, closeVars, serverVars>>

SendQueued ==
  /\ ui = "sending" /\ Len(outgoing) < OutgoingCap
  /\ outgoing' = Append(outgoing, calls)
  /\ ui' = "idle"
  /\ UNCHANGED <<calls, writer, up, heard, downVars, closeVars, serverVars>>

SendDropped ==
  /\ ui = "sending" /\ done
  /\ ui' = "idle"
  /\ UNCHANGED <<calls, upVars, downVars, closeVars, serverVars>>

(* Ctrl+C, or the account was deleted: tapp.Stop, and App.Run returns. *)
Quit ==
  /\ ui = "idle" /\ ui' = "quit"
  /\ UNCHANGED <<calls, upVars, downVars, closeVars, serverVars>>

-----------------------------------------------------------------------------
(* Close, in the hands of whoever called it first.  The others wait in       *)
(* once.Do until it is over.                                                 *)

Closing == reader.at = "closing" \/ writer.at = "closing" \/ ui = "quit"

(* Variant: without sync.Once. *)
CloseEachTime ==
  /\ Closing
  /\ \/ ~socket /\ socket' = TRUE /\ UNCHANGED <<done, closes>>
     \/ socket /\ closes < 2 /\ done' = TRUE /\ closes' = closes + 1 /\ UNCHANGED socket
  /\ UNCHANGED <<uiVars, upVars, downVars, serverVars>>

Close ==
  /\ Closing
  /\ \/ ~socket /\ socket' = TRUE /\ UNCHANGED <<done, closes>>
     \/ socket /\ ~done /\ done' = TRUE /\ closes' = closes + 1 /\ UNCHANGED socket
  /\ UNCHANGED <<uiVars, upVars, downVars, serverVars>>

(* main's deferred Close has returned: the process ends. *)
Exit ==
  /\ ui = "quit" /\ socket /\ done
  /\ ui' = "exited"
  /\ UNCHANGED <<calls, upVars, downVars, closeVars, serverVars>>

-----------------------------------------------------------------------------
(* writeLoop *)

WriterTake ==
  /\ writer.at = "waiting" /\ outgoing # <<>>
  /\ writer' = With("encoding", Head(outgoing))
  /\ outgoing' = Tail(outgoing)
  /\ UNCHANGED <<up, heard, uiVars, downVars, closeVars, serverVars>>

(* A write goes into the void while the end of the peer is not noticed. *)
Encode ==
  /\ writer.at = "encoding" /\ ~socket /\ Len(up) < WireCap
  /\ up' = IF peer THEN Append(up, writer.frame) ELSE up
  /\ writer' = At("waiting")
  /\ UNCHANGED <<outgoing, heard, uiVars, downVars, closeVars, serverVars>>

EncodeFails ==
  /\ writer.at = "encoding" /\ (socket \/ ~peer)
  /\ writer' = At("closing")
  /\ UNCHANGED <<outgoing, up, heard, uiVars, downVars, closeVars, serverVars>>

(* Variant: the writer skips the frame and goes on. *)
EncodeSkips ==
  /\ writer.at = "encoding"
  /\ writer' = At("waiting")
  /\ UNCHANGED <<outgoing, up, heard, uiVars, downVars, closeVars, serverVars>>

(* The payload exceeds MaxPayload: an error like any other. *)
EncodeTooLarge ==
  /\ writer.at = "encoding"
  /\ writer' = At("closing")
  /\ UNCHANGED <<outgoing, up, heard, uiVars, downVars, closeVars, serverVars>>

WriterDone ==
  /\ writer.at = "waiting" /\ done
  /\ writer' = At("closing")
  /\ UNCHANGED <<outgoing, up, heard, uiVars, downVars, closeVars, serverVars>>

WriterReturn ==
  /\ writer.at = "closing" /\ socket /\ done
  /\ writer' = At("stopped")
  /\ UNCHANGED <<outgoing, up, heard, uiVars, downVars, closeVars, serverVars>>

-----------------------------------------------------------------------------
(* readLoop *)

Decode ==
  /\ reader.at = "decoding" /\ ~socket /\ down # <<>>
  /\ reader' = With("pushing", Head(down))
  /\ down' = Tail(down)
  /\ UNCHANGED <<incoming, listener, shown, uiVars, upVars, closeVars, serverVars>>

(* Variant: without defer c.Close(). *)
DecodeFailsSilently ==
  /\ reader.at = "decoding" /\ (socket \/ (~peer /\ down = <<>>))
  /\ reader' = At("stopped")
  /\ UNCHANGED <<incoming, listener, down, shown, uiVars, upVars, closeVars, serverVars>>

DecodeFails ==
  /\ reader.at = "decoding" /\ (socket \/ (~peer /\ down = <<>>))
  /\ reader' = At("closing")
  /\ UNCHANGED <<incoming, listener, down, shown, uiVars, upVars, closeVars, serverVars>>

(* Variant: a default branch, as the server has. *)
PushOrDrop ==
  /\ reader.at = "pushing"
  /\ incoming' = IF Len(incoming) < IncomingCap THEN Append(incoming, reader.frame) ELSE incoming
  /\ reader' = At("decoding")
  /\ UNCHANGED <<listener, down, shown, uiVars, upVars, closeVars, serverVars>>

Push ==
  /\ reader.at = "pushing" /\ Len(incoming) < IncomingCap
  /\ incoming' = Append(incoming, reader.frame)
  /\ reader' = At("decoding")
  /\ UNCHANGED <<listener, down, shown, uiVars, upVars, closeVars, serverVars>>

(* Variant: done is looked at before the send, not beside it. *)
PushDoneIfRoom ==
  /\ reader.at = "pushing" /\ done /\ Len(incoming) < IncomingCap
  /\ reader' = At("closing")
  /\ UNCHANGED <<incoming, listener, down, shown, uiVars, upVars, closeVars, serverVars>>

(* The decoded frame is lost. *)
PushDone ==
  /\ reader.at = "pushing" /\ done
  /\ reader' = At("closing")
  /\ UNCHANGED <<incoming, listener, down, shown, uiVars, upVars, closeVars, serverVars>>

ReaderReturn ==
  /\ reader.at = "closing" /\ socket /\ done
  /\ reader' = At("stopped")
  /\ UNCHANGED <<incoming, listener, down, shown, uiVars, upVars, closeVars, serverVars>>

-----------------------------------------------------------------------------
(* listenIncoming: select takes any branch that is ready. *)

ListenerTake ==
  /\ listener.at = "waiting" /\ incoming # <<>>
  /\ listener' = With("updating", Head(incoming))
  /\ incoming' = Tail(incoming)
  /\ UNCHANGED <<reader, down, shown, uiVars, upVars, closeVars, serverVars>>

ListenerDone ==
  /\ listener.at = "waiting" /\ done
  /\ listener' = At("reporting")
  /\ UNCHANGED <<incoming, reader, down, shown, uiVars, upVars, closeVars, serverVars>>

(* The event loop runs the closure QueueUpdateDraw waits for: it handles the *)
(* frame, or shows that the connection is lost.                              *)
Draw ==
  /\ ui = "idle"
  /\ \/ /\ listener.at = "updating"
        /\ shown' = Append(shown, listener.frame)
        /\ listener' = At("waiting")
     \/ /\ listener.at = "reporting"
        /\ listener' = At("stopped")
        /\ UNCHANGED shown
  /\ UNCHANGED <<incoming, reader, down, uiVars, upVars, closeVars, serverVars>>

-----------------------------------------------------------------------------
(* The server and the network. *)

(* Variant: the server writes its answer before it reads on. *)
HearAndAnswer ==
  /\ peer /\ up # <<>> /\ Len(down) < WireCap
  /\ heard' = Append(heard, Head(up))
  /\ up' = Tail(up)
  /\ UNCHANGED <<outgoing, writer, uiVars, downVars, closeVars, serverVars>>

Hear ==
  /\ peer /\ up # <<>>
  /\ heard' = Append(heard, Head(up))
  /\ up' = Tail(up)
  /\ UNCHANGED <<outgoing, writer, uiVars, downVars, closeVars, serverVars>>

Answer ==
  /\ peer /\ pushed < MaxPushed /\ Len(down) < WireCap
  /\ pushed' = pushed + 1
  /\ down' = Append(down, pushed + 1)
  /\ UNCHANGED <<peer, incoming, reader, listener, shown, uiVars, upVars, closeVars>>

(* The server closes its end, or the network fails: what is on the way to    *)
(* the server is lost, and of what is on the way to the client any part.     *)
Cut ==
  /\ peer /\ peer' = FALSE
  /\ up' = <<>>
  /\ \E k \in 0 .. Len(down) : down' = SubSeq(down, 1, k)
  /\ UNCHANGED <<outgoing, writer, heard, incoming, reader, listener, shown, pushed, uiVars, closeVars>>

-----------------------------------------------------------------------------
WriterStep   == WriterTake \/ Encode \/ EncodeFails \/ WriterDone \/ WriterReturn
ReaderStep   == Decode \/ DecodeFails \/ Push \/ PushDone \/ ReaderReturn
ListenerStep == ListenerTake \/ ListenerDone
LoopStep     == SendQueued \/ SendDropped \/ Exit

Step ==
  \/ Send \/ Quit \/ LoopStep \/ Draw \/ Close
  \/ WriterStep \/ EncodeTooLarge \/ ReaderStep \/ ListenerStep
  \/ Hear \/ Answer \/ Cut

(* The end of the process ends its goroutines. *)
Terminated == ui = "exited" /\ UNCHANGED vars

Next ==
  \/ ui # "exited" /\ Step
  \/ Terminated

(* Go runs every goroutine that can run, and the event loop comes back to    *)
(* its queue of updates; the server goes on reading.  The user need not do   *)
(* anything, nor the server write, nor the connection break.                 *)
Fairness ==
  /\ WF_vars(ui # "exited" /\ LoopStep) /\ WF_vars(ui # "exited" /\ Draw)
  /\ WF_vars(ui # "exited" /\ Close)
  /\ WF_vars(ui # "exited" /\ WriterStep) /\ WF_vars(ui # "exited" /\ ReaderStep)
  /\ WF_vars(ui # "exited" /\ ListenerStep)
  /\ WF_vars(ui # "exited" /\ Hear)

Spec     == Init /\ [][Next]_vars
FairSpec == Spec /\ Fairness
-----------------------------------------------------------------------------
Goroutine(S) == [at : S, frame : Nat]

(* Every variable holds what the code can put there; the channels keep to    *)
(* their capacity, and done is closed at most once, which is all a channel   *)
(* survives.                                                                 *)
TypeOK ==
  /\ ui \in {"idle", "sending", "quit", "exited"} /\ calls \in Nat
  /\ outgoing \in Seq(Nat) /\ Len(outgoing) <= OutgoingCap
  /\ incoming \in Seq(Nat) /\ Len(incoming) <= IncomingCap
  /\ up \in Seq(Nat) /\ Len(up) <= WireCap
  /\ down \in Seq(Nat) /\ Len(down) <= WireCap
  /\ writer \in Goroutine({"waiting", "encoding", "closing", "stopped"})
  /\ reader \in Goroutine({"decoding", "pushing", "closing", "stopped"})
  /\ listener \in Goroutine({"waiting", "updating", "reporting", "stopped"})
  /\ socket \in BOOLEAN /\ done \in BOOLEAN /\ (done => socket)
  /\ closes = IF done THEN 1 ELSE 0
  /\ peer \in BOOLEAN /\ pushed \in Nat
  /\ heard \in Seq(Nat) /\ shown \in Seq(Nat)

(* The server hears a prefix of what the user did, in order: no call of Send *)
(* is skipped and a later one heard, neither by the select in Send that may  *)
(* choose done, nor by a frame that cannot be encoded, nor by those left in  *)
(* outgoing when the socket closes.                                          *)
UpStream   == INSTANCE Stream WITH said <- calls, heard <- heard
UpIsStream == UpStream!Spec

(* The event loop is given a prefix of what the server wrote, in order, up   *)
(* to the point where the connection ends.                                   *)
DownStream   == INSTANCE Stream WITH said <- pushed, heard <- shown
DownIsStream == DownStream!Spec

(* The event loop, which Send blocks while outgoing is full, always gets out *)
(* of it, although the listener waits for the loop, the reader for the       *)
(* listener and the server's writer for the reader.                          *)
SendReturns == ui = "sending" ~> ui # "sending"

(* "Done is closed when the connection is terminated (server closed, network *)
(* error)" (conn.go:116), and then the user is told, unless he quits first.  *)
LossIsReported == ~peer ~> listener.at = "stopped" \/ ui \in {"quit", "exited"}

(* Close leaves no goroutine behind: reader and writer end although the      *)
(* channels they wait for may never move again.                              *)
CloseStopsAll ==
  done ~> (reader.at = "stopped" /\ writer.at = "stopped") \/ ui = "exited"
=============================================================================
