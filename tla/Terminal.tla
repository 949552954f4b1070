------------------------------ MODULE Terminal ------------------------------
(***************************************************************************)
(* One terminal session: TerminalHandler.HandleTerminal                    *)
(* (internal/api/http/handlers/terminal_handler.go) and the AgentSession   *)
(* of internal/application/terminal_service.go.                            *)
(*                                                                         *)
(* The handler dials the agent, upgrades the browser's request and then    *)
(* copies what the browser types to the agent; it alone writes to the      *)
(* agent and closes the session, so writeMu and once are never contended.  *)
(* A goroutine (reader, readLoop) puts what the agent sends into an        *)
(* io.Pipe, which has no buffer: a write returns when everything was read. *)
(* Another one (output) reads the pipe and writes to the browser.  No read *)
(* and no write has a deadline.  What the agent sends is numbered, unit by *)
(* unit, so that a frame is the interval (from, to].                       *)
(***************************************************************************)
EXTENDS Naturals, Sequences

CONSTANTS
  BufSize,    \* units that fit into the buffer of the output goroutine
  MaxFrame,   \* bound: units in a frame
  MaxSent,    \* bound: units an agent sends
  MaxWire     \* bound: frames on their way

ASSUME BufAssumption == BufSize \in Nat \ {0}
ASSUME MaxAssumption == MaxFrame \in Nat /\ MaxSent \in Nat /\ MaxWire \in Nat

VARIABLES
  handler,    \* where HandleTerminal is
  reader,     \* readLoop and the rest of the frame it writes to the pipe
  output,     \* the output goroutine and its buffer
  pipe,       \* the pipe was closed
  link,       \* the connection to the agent
  reads,      \* the agent reads what is sent to it
  wire,       \* frames of the agent that readLoop has not taken yet
  sent,       \* units the agent sent
  browser,    \* what the browser does with what is sent to it
  ws,         \* the connection to the browser
  shown,      \* what the browser has shown
  noticed     \* the browser has shown that the session is closed

agentVars == <<link, reads, wire, sent>>
browserVars == <<browser, ws, shown, noticed>>
vars == <<handler, reader, output, pipe, agentVars, browserVars>>

HandlerPc == {"create", "upgrade", "read", "write", "resize",
              "bye", "pipe", "conn", "ws", "ended"}
Reader == [pc : {"none", "read", "offer", "close", "ended"},
           from : Nat, to : Nat]
Output == [pc : {"none", "read", "send", "notice", "ended"},
           from : Nat, to : Nat]
Frame == [kind : {"data", "noise", "end"}, size : Nat]

Init ==
  /\ handler = "create"
  /\ reader = [pc |-> "none", from |-> 0, to |-> 0]
  /\ output = [pc |-> "none", from |-> 0, to |-> 0]
  /\ pipe = FALSE
  /\ link = "none" /\ reads = TRUE /\ wire = <<>> /\ sent = 0
  /\ browser = "on" /\ ws = "none" /\ shown = <<>> /\ noticed = FALSE

----------------------------------------------------------------------------
(* HandleTerminal.                                                         *)

\* CreateAgentSession: GetInstanceInfo, dial, open_terminal.
Create ==
  /\ handler = "create"
  /\ \/ /\ handler' = "upgrade" /\ link' = "up"
        /\ reader' = [reader EXCEPT !.pc = "read"]
     \/ handler' = "ended" /\ UNCHANGED <<link, reader>>
  /\ UNCHANGED <<output, pipe, reads, wire, sent, browserVars>>

\* A failed upgrade closes the session.
Upgrade ==
  /\ handler = "upgrade"
  /\ \/ /\ handler' = "read" /\ ws' = "open"
        /\ output' = [output EXCEPT !.pc = "read"]
     \/ handler' = "bye" /\ UNCHANGED <<ws, output>>
  /\ UNCHANGED <<reader, pipe, agentVars, browser, shown, noticed>>

\* The browser sends stdin or bytes that are no JSON, or a resize.
Type ==
  /\ handler = "read" /\ browser # "gone"
  /\ handler' \in {"write", "resize"}
  /\ UNCHANGED <<reader, output, pipe, agentVars, browserVars>>

HearGone ==
  /\ handler = "read" /\ browser = "gone"
  /\ handler' = "bye"
  /\ UNCHANGED <<reader, output, pipe, agentVars, browserVars>>

\* A write to the agent waits while the agent does not read; a connection that
\* is down may accept some.
Written == link = "down" \/ (link = "up" /\ reads)
NotWritten == link = "down"

\* AgentSession.Write, whose error ends the session.
Write ==
  /\ handler = "write"
  /\ \/ Written /\ handler' = "read"
     \/ NotWritten /\ handler' = "bye"
  /\ UNCHANGED <<reader, output, pipe, agentVars, browserVars>>

\* WindowChange, whose error is dropped.
Resize ==
  /\ handler = "resize" /\ Written
  /\ handler' = "read"
  /\ UNCHANGED <<reader, output, pipe, agentVars, browserVars>>

\* Close: close_terminal to the agent, whose error is dropped.
SayBye ==
  /\ handler = "bye" /\ Written
  /\ handler' = "pipe"
  /\ UNCHANGED <<reader, output, pipe, agentVars, browserVars>>

\* Fault: Close leaves the pipe to readLoop.
LeavePipe ==
  /\ handler = "pipe"
  /\ handler' = "conn"
  /\ UNCHANGED <<reader, output, pipe, agentVars, browserVars>>

ClosePipe ==
  /\ handler = "pipe"
  /\ handler' = "conn" /\ pipe' = TRUE
  /\ UNCHANGED <<reader, output, agentVars, browserVars>>

\* Fault: the connection gets a state of its own.
CloseConnOnly ==
  /\ handler = "conn"
  /\ handler' = IF ws = "none" THEN "ended" ELSE "ws"
  /\ link' = "closed"
  /\ UNCHANGED <<reader, output, pipe, reads, wire, sent, browserVars>>

CloseConn ==
  /\ handler = "conn"
  /\ handler' = IF ws = "none" THEN "ended" ELSE "ws"
  /\ link' = "down"
  /\ UNCHANGED <<reader, output, pipe, reads, wire, sent, browserVars>>

CloseWs ==
  /\ handler = "ws"
  /\ handler' = "ended" /\ ws' = "closed"
  /\ UNCHANGED <<reader, output, pipe, agentVars, browser, shown, noticed>>

----------------------------------------------------------------------------
(* readLoop.                                                               *)

\* A frame is data, which is offered to the pipe; terminal_closed, which ends
\* the loop; or malformed or of another type, which is skipped.
Receive ==
  /\ reader.pc = "read" /\ wire # <<>>
  /\ wire' = Tail(wire)
  /\ reader' = CASE Head(wire).kind = "data" ->
                      [pc |-> "offer", from |-> reader.to,
                       to |-> reader.to + Head(wire).size]
                 [] Head(wire).kind = "end" -> [reader EXCEPT !.pc = "close"]
                 [] OTHER -> reader
  /\ UNCHANGED <<handler, output, pipe, link, reads, sent, browserVars>>

\* Fault: the loop returns without closing the pipe.
ReceiveErrorOnly ==
  /\ reader.pc = "read" /\ link = "down"
  /\ reader' = [reader EXCEPT !.pc = "ended"]
  /\ UNCHANGED <<handler, output, pipe, agentVars, browserVars>>

\* What arrived before the connection went down may still be received.
ReceiveError ==
  /\ reader.pc = "read" /\ link = "down"
  /\ reader' = [reader EXCEPT !.pc = "close"]
  /\ UNCHANGED <<handler, output, pipe, agentVars, browserVars>>

Taken == IF reader.to - reader.from < BufSize THEN reader.to
         ELSE reader.from + BufSize

\* Fault: what does not fit into the buffer is lost.
HandOnce ==
  /\ reader.pc = "offer" /\ output.pc = "read" /\ ~pipe
  /\ output' = [pc |-> "send", from |-> reader.from, to |-> Taken]
  /\ reader' = [reader EXCEPT !.pc = "read", !.from = reader.to]
  /\ UNCHANGED <<handler, pipe, agentVars, browserVars>>

\* A Read meets the Write; the Write goes on until all of the frame was read.
Hand ==
  /\ reader.pc = "offer" /\ output.pc = "read" /\ ~pipe
  /\ output' = [pc |-> "send", from |-> reader.from, to |-> Taken]
  /\ reader' = [reader EXCEPT !.pc = IF Taken = reader.to THEN "read" ELSE @,
                              !.from = Taken]
  /\ UNCHANGED <<handler, pipe, agentVars, browserVars>>

\* Fault: a frame is given up when the connection is down.
GiveUp ==
  /\ reader.pc = "offer" /\ (pipe \/ link = "down")
  /\ reader' = [reader EXCEPT !.pc = "close"]
  /\ UNCHANGED <<handler, output, pipe, agentVars, browserVars>>

\* The pipe was closed under the Write.
WriteError ==
  /\ reader.pc = "offer" /\ pipe
  /\ reader' = [reader EXCEPT !.pc = "close"]
  /\ UNCHANGED <<handler, output, pipe, agentVars, browserVars>>

\* The deferred pw.Close().
EndReader ==
  /\ reader.pc = "close"
  /\ reader' = [reader EXCEPT !.pc = "ended"] /\ pipe' = TRUE
  /\ UNCHANGED <<handler, output, agentVars, browserVars>>

----------------------------------------------------------------------------
(* The output goroutine.                                                   *)

ReadError ==
  /\ output.pc = "read" /\ pipe
  /\ output' = [output EXCEPT !.pc = "notice"]
  /\ UNCHANGED <<handler, reader, pipe, agentVars, browserVars>>

Units(from, to) == [i \in 1..(to - from) |-> from + i]

Send ==
  /\ output.pc = "send" /\ browser = "on" /\ ws = "open"
  /\ output' = [output EXCEPT !.pc = "read"]
  /\ shown' = shown \o Units(output.from, output.to)
  /\ UNCHANGED <<handler, reader, pipe, agentVars, browser, ws, noticed>>

\* A connection that is down may accept some more.
SendInVain ==
  /\ output.pc = "send" /\ (browser = "gone" \/ ws = "closed")
  /\ \E pc \in {"read", "ended"} : output' = [output EXCEPT !.pc = pc]
  /\ UNCHANGED <<handler, reader, pipe, agentVars, browserVars>>

\* "Terminal session closed."
Notice ==
  /\ output.pc = "notice" /\ (browser # "stalled" \/ ws = "closed")
  /\ output' = [output EXCEPT !.pc = "ended"]
  /\ noticed' = (browser = "on" /\ ws = "open")
  /\ UNCHANGED <<handler, reader, pipe, agentVars, browser, ws, shown>>

----------------------------------------------------------------------------
(* The two ends.                                                           *)

AgentSends ==
  /\ link = "up" /\ Len(wire) < MaxWire
  /\ \/ \E n \in 0..MaxFrame :
          /\ sent + n <= MaxSent
          /\ wire' = Append(wire, [kind |-> "data", size |-> n])
          /\ sent' = sent + n
     \/ \E k \in {"noise", "end"} :
          wire' = Append(wire, [kind |-> k, size |-> 0]) /\ UNCHANGED sent
  /\ UNCHANGED <<handler, reader, output, pipe, link, reads, browserVars>>

\* The agent stops reading, for good.
AgentStalls ==
  /\ link = "up" /\ reads' = FALSE
  /\ UNCHANGED <<handler, reader, output, pipe, link, wire, sent, browserVars>>

LinkLost ==
  /\ link = "up" /\ link' = "down"
  /\ UNCHANGED <<handler, reader, output, pipe, reads, wire, sent, browserVars>>

\* The browser does not read any more.
BrowserStalls ==
  /\ browser = "on" /\ browser' = "stalled"
  /\ UNCHANGED <<handler, reader, output, pipe, agentVars, ws, shown, noticed>>

BrowserLeaves ==
  /\ browser # "gone" /\ browser' = "gone"
  /\ UNCHANGED <<handler, reader, output, pipe, agentVars, ws, shown, noticed>>

Handle ==
  \/ Create \/ Upgrade \/ HearGone \/ Write \/ Resize
  \/ SayBye \/ ClosePipe \/ CloseConn \/ CloseWs
ReadLoop == Receive \/ ReceiveError \/ WriteError \/ EndReader
OutputLoop == ReadError \/ Send \/ SendInVain \/ Notice
Outside == Type \/ AgentSends \/ AgentStalls \/ LinkLost
           \/ BrowserStalls \/ BrowserLeaves

Next == Handle \/ ReadLoop \/ Hand \/ OutputLoop \/ Outside

Spec == Init /\ [][Next]_vars

----------------------------------------------------------------------------
(* Properties.                                                             *)

\* The handler, the goroutines and the connections have the shape of their
\* types.
TypeOK ==
  /\ handler \in HandlerPc /\ reader \in Reader /\ output \in Output
  /\ pipe \in BOOLEAN /\ noticed \in BOOLEAN /\ reads \in BOOLEAN
  /\ link \in {"none", "up", "down"} /\ ws \in {"none", "open", "closed"}
  /\ browser \in {"on", "stalled", "gone"}
  /\ wire \in Seq(Frame) /\ sent \in Nat /\ shown \in Seq(Nat)

\* The browser shows what the agent sent, without a gap and in the order of
\* sending, however frames are cut by the buffer and whoever stops first
\* (terminal_service.go:142, terminal_handler.go:69-84).
ShownInOrder == \A i \in 1..Len(shown) : shown[i] = i

\* The notice that the session is closed comes after everything that was
\* received from the agent, unless the handler itself closed the session: the
\* loop closes the pipe only after its last write was read to the end
\* (terminal_service.go:121, terminal_handler.go:70-75).
NoticeIsLast ==
  noticed /\ handler \notin {"conn", "ws", "ended"} => Len(shown) = reader.to

LoopsEnded ==
  reader.pc \in {"none", "ended"} /\ output.pc \in {"none", "ended"}

\* When the browser is gone the handler and both goroutines end, the one that
\* waits in the pipe for a reader that has returned included, unless the agent
\* does not read and the write to it never returns
\* (terminal_service.go:99-117: "Closing the pipe unblocks any reader of Out").
SessionEnds ==
  browser = "gone" ~>
    (handler = "ended" /\ LoopsEnded) \/ [](link = "up" /\ ~reads)

\* When the connection to the agent is down both goroutines end and a browser
\* that still reads learns of it (terminal_service.go:121: "unblock Out reader
\* when we exit for any reason"), unless the browser stopped reading.
OutputEnds == link = "down" ~> LoopsEnded \/ [](browser = "stalled")

----------------------------------------------------------------------------
\* Goroutines are scheduled and a call that can return does; nothing is assumed
\* of what is typed, of the agent and of the browser.
Fairness ==
  WF_vars(Handle) /\ WF_vars(ReadLoop) /\ WF_vars(Hand) /\ WF_vars(OutputLoop)
FairSpec == Spec /\ Fairness
=============================================================================
