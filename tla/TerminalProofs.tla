--------------------------- MODULE TerminalProofs ---------------------------
(***************************************************************************)
(* Proofs about module Terminal, for every size of the buffer and of the   *)
(* frames and every amount of output.                                      *)
(***************************************************************************)
EXTENDS Terminal, SequenceTheorems, TLAPS

----------------------------------------------------------------------------
(* The inductive invariant.                                                *)

\* What the reader still has to hand over, and what the output goroutine has
\* taken, are intervals; a frame is finished before the next one is received.
Intervals ==
  /\ reader.from <= reader.to /\ output.from <= output.to
  /\ reader.pc \in {"none", "read"} => reader.from = reader.to
  /\ output.pc = "none" => reader.from = 0 /\ shown = <<>>

\* The goroutines begin when the connections are there.
Begun ==
  /\ handler = "create" => reader.pc = "none"
  /\ handler \in {"create", "upgrade"} => output.pc = "none"

\* A browser that reads has shown all that was taken, but for what is on its
\* way to it.
Alive == browser = "on" /\ ws = "open"
UpToDate ==
  Alive => /\ output.pc = "send" =>
                Len(shown) = output.from /\ output.to = reader.from
           /\ output.pc \in {"read", "notice"} => Len(shown) = reader.from

\* Until the handler closes the pipe it is the reader that does, and only when
\* nothing is left of its frame.
HandlerClosed == handler \in {"conn", "ws", "ended"}
ClosedByReader ==
  /\ ~HandlerClosed =>
       /\ pipe => reader.pc = "ended"
       /\ reader.pc \in {"close", "ended"} => reader.from = reader.to
  /\ output.pc = "notice" => pipe

NoticeInv ==
  noticed => /\ output.pc = "ended"
             /\ ~HandlerClosed => reader.pc = "ended" /\ Len(shown) = reader.to

DataInv == Intervals /\ Begun /\ UpToDate /\ ClosedByReader /\ NoticeInv
IInv == TypeOK /\ ShownInOrder /\ DataInv

USE BufAssumption, MaxAssumption

----------------------------------------------------------------------------
(* Type correctness.                                                       *)

LEMMA InitTyped == Init => TypeOK
<1>1. <<>> \in Seq(Frame) /\ <<>> \in Seq(Nat)
  BY EmptySeq
<1>2. Init => wire \in Seq(Frame) /\ shown \in Seq(Nat)
  BY <1>1, Zenon DEF Init
<1>3. Init => reader \in Reader /\ output \in Output
  BY DEF Init, Reader, Output
<1>4. Init => pipe \in BOOLEAN /\ noticed \in BOOLEAN /\ reads \in BOOLEAN
  BY Zenon DEF Init
<1>5. Init => handler \in HandlerPc /\ sent \in Nat
  BY DEF Init, HandlerPc
<1>6. Init => /\ link \in {"none", "up", "down"} /\ ws \in {"none", "open", "closed"}
              /\ browser \in {"on", "stalled", "gone"}
  BY Zenon DEF Init
<1> QED
  BY <1>2, <1>3, <1>4, <1>5, <1>6, Zenon DEF TypeOK

LEMMA HandleTyped == ASSUME TypeOK, Handle \/ Type PROVE TypeOK'
<1> USE DEF TypeOK, browserVars, agentVars, HandlerPc
<1>1. CASE Create
  BY <1>1 DEF Create, Reader
<1>2. CASE Upgrade
  BY <1>2 DEF Upgrade, Output
<1>3. CASE HearGone \/ Write \/ Resize \/ SayBye \/ Type
  BY <1>3 DEF HearGone, Write, Resize, SayBye, Type
<1>4. CASE ClosePipe \/ CloseConn \/ CloseWs
  BY <1>4 DEF ClosePipe, CloseConn, CloseWs
<1> QED
  BY <1>1, <1>2, <1>3, <1>4 DEF Handle

LEMMA ReceiveTyped == ASSUME TypeOK, Receive PROVE TypeOK'
<1> USE DEF TypeOK, browserVars
<1>1. Head(wire) \in Frame /\ Tail(wire) \in Seq(Frame)
  BY HeadTailProperties DEF Receive
<1>2. reader.to \in Nat /\ Head(wire).size \in Nat
  BY <1>1 DEF Reader, Frame
<1>3. reader' \in Reader
  <2>1. CASE Head(wire).kind = "data"
    BY <1>2, <2>1 DEF Receive, Reader
  <2>2. CASE Head(wire).kind = "end"
    BY <2>2 DEF Receive, Reader
  <2>3. CASE Head(wire).kind \notin {"data", "end"}
    BY <2>3 DEF Receive
  <2> QED
    BY <2>1, <2>2, <2>3
<1> QED
  BY <1>1, <1>3 DEF Receive

LEMMA TakenTyped ==
  ASSUME TypeOK, Intervals
  PROVE  /\ Taken \in Nat /\ reader.from <= Taken /\ Taken <= reader.to
         /\ reader.from \in Nat /\ reader.to \in Nat
BY DEF TypeOK, Intervals, Reader, Taken

LEMMA UnitsTyped ==
  ASSUME NEW from \in Nat, NEW to \in Nat, from <= to
  PROVE  /\ Units(from, to) \in Seq(Nat) /\ Len(Units(from, to)) = to - from
         /\ \A i \in 1..(to - from) : Units(from, to)[i] = from + i
<1>1. Units(from, to) \in [1..(to - from) -> Nat]
  BY DEF Units
<1>2. Units(from, to) \in Seq(Nat)
  BY <1>1, SeqDef
<1>3. DOMAIN Units(from, to) = 1..(to - from)
  BY <1>1
<1> QED
  BY <1>2, <1>3, LenProperties DEF Units

LEMMA SendTyped == ASSUME TypeOK, Intervals, Send PROVE TypeOK'
<1>1. Units(output.from, output.to) \in Seq(Nat)
  BY UnitsTyped DEF TypeOK, Output, Intervals
<1>2. shown' \in Seq(Nat)
  BY <1>1, ConcatProperties DEF Send, TypeOK
<1>3. output' \in Output
  BY DEF Send, TypeOK, Output
<1> QED
  BY <1>2, <1>3 DEF Send, TypeOK, agentVars

LEMMA LoopsTyped ==
  ASSUME TypeOK, Intervals, ReadLoop \/ Hand \/ OutputLoop
  PROVE  TypeOK'
<1> USE DEF TypeOK, browserVars, agentVars
<1>1. CASE ReceiveError \/ WriteError \/ EndReader
  BY <1>1 DEF ReceiveError, WriteError, EndReader, Reader
<1>2. CASE Hand
  <2>1. output' \in Output
    BY <1>2, TakenTyped DEF Hand, Output
  <2>2. reader' \in Reader
    BY <1>2, TakenTyped DEF Hand, Reader
  <2> QED
    BY <1>2, <2>1, <2>2 DEF Hand
<1>3. CASE ReadError \/ SendInVain \/ Notice
  BY <1>3 DEF ReadError, SendInVain, Notice, Output
<1> QED
  BY <1>1, <1>2, <1>3, ReceiveTyped, SendTyped DEF ReadLoop, OutputLoop

LEMMA OutsideTyped == ASSUME TypeOK, Outside PROVE TypeOK'
<1> USE DEF TypeOK, browserVars
<1>1. CASE AgentSends
  <2>1. /\ \A n \in 0..MaxFrame : [kind |-> "data", size |-> n] \in Frame
        /\ \A k \in {"noise", "end"} : [kind |-> k, size |-> 0] \in Frame
    BY DEF Frame
  <2>2. \A f \in Frame : Append(wire, f) \in Seq(Frame)
    BY AppendProperties
  <2>3. wire' \in Seq(Frame)
    BY <1>1, <2>1, <2>2 DEF AgentSends
  <2>4. sent' \in Nat
    <3>1. \A n \in 0..MaxFrame : sent + n \in Nat
      OBVIOUS
    <3>2. (\E n \in 0..MaxFrame : sent' = sent + n) \/ sent' = sent
      BY <1>1 DEF AgentSends
    <3> QED
      BY <3>1, <3>2
  <2> QED
    BY <1>1, <2>3, <2>4 DEF AgentSends
<1>2. CASE AgentStalls \/ LinkLost \/ BrowserStalls \/ BrowserLeaves
  BY <1>2 DEF AgentStalls, LinkLost, BrowserStalls, BrowserLeaves, agentVars
<1> QED
  BY <1>1, <1>2, HandleTyped DEF Outside

LEMMA NextTyped == ASSUME TypeOK, Intervals, [Next]_vars PROVE TypeOK'
<1>1. CASE UNCHANGED vars
  BY <1>1 DEF vars, TypeOK, agentVars, browserVars
<1> QED
  BY <1>1, HandleTyped, LoopsTyped, OutsideTyped DEF Next

----------------------------------------------------------------------------
(* The invariant.                                                          *)

LEMMA InitData == Init => ShownInOrder /\ DataInv
BY EmptySeq DEF Init, ShownInOrder, DataInv, Intervals, Begun, UpToDate, Alive,
                ClosedByReader, HandlerClosed, NoticeInv

LEMMA HandleData ==
  ASSUME IInv, Handle \/ Type PROVE ShownInOrder' /\ DataInv'
<1> USE DEF IInv, DataInv, agentVars, browserVars
<1>1. CASE Create
  <2>1. reader'.from = reader.from /\ reader'.to = reader.to
    BY <1>1 DEF Create, TypeOK, Reader
  <2>2. reader'.pc = reader.pc \/ reader'.pc = "read"
    BY <1>1 DEF Create, TypeOK, Reader
  <2> QED
    BY <1>1, <2>1, <2>2
       DEF Create, ShownInOrder, Intervals, Begun, UpToDate, Alive, ClosedByReader,
           HandlerClosed, NoticeInv
<1>2. CASE Upgrade
  <2>1. output'.from = output.from /\ output'.to = output.to
    BY <1>2 DEF Upgrade, TypeOK, Output
  <2>2. output'.pc = output.pc \/ output'.pc = "read"
    BY <1>2 DEF Upgrade, TypeOK, Output
  <2> QED
    BY <1>2, <2>1, <2>2
       DEF Upgrade, ShownInOrder, Intervals, Begun, UpToDate, Alive, ClosedByReader,
           HandlerClosed, NoticeInv
<1>3. CASE HearGone \/ Write \/ Resize \/ SayBye \/ Type
  BY <1>3 DEF HearGone, Write, Resize, SayBye, Type, ShownInOrder, Intervals, Begun,
              UpToDate, Alive, ClosedByReader, HandlerClosed, NoticeInv
<1>4. CASE ClosePipe \/ CloseConn \/ CloseWs
  BY <1>4 DEF ClosePipe, CloseConn, CloseWs, ShownInOrder, Intervals, Begun,
              UpToDate, Alive, ClosedByReader, HandlerClosed, NoticeInv
<1> QED
  BY <1>1, <1>2, <1>3, <1>4 DEF Handle

LEMMA ReadLoopData ==
  ASSUME IInv, ReadLoop PROVE ShownInOrder' /\ DataInv'
<1> USE DEF IInv, DataInv, agentVars, browserVars
<1>1. CASE Receive
  <2>1. Head(wire) \in Frame
    BY <1>1, HeadTailProperties DEF Receive, TypeOK
  <2>2. /\ reader.from = reader.to /\ reader.pc = "read" /\ reader.to \in Nat
        /\ reader'.from = reader.to
        /\ reader'.to \in Nat /\ reader'.from <= reader'.to
        /\ reader'.pc # "offer" => reader'.to = reader.to
        /\ reader'.pc \in {"offer", "close", "read"}
    <3>1. /\ reader.from = reader.to /\ reader.pc = "read" /\ reader.to \in Nat
          /\ Head(wire).size \in Nat
      BY <1>1, <2>1 DEF Receive, Intervals, Begun, TypeOK, Reader, Frame
    <3>2. CASE Head(wire).kind = "data"
      BY <1>1, <3>1, <3>2 DEF Receive
    <3>3. CASE Head(wire).kind = "end"
      <4>1. reader' = [reader EXCEPT !.pc = "close"]
        BY <1>1, <3>3 DEF Receive
      <4> QED
        BY <3>1, <4>1 DEF TypeOK, Reader
    <3>4. CASE Head(wire).kind \notin {"data", "end"}
      BY <1>1, <3>1, <3>4 DEF Receive
    <3> QED
      BY <3>2, <3>3, <3>4
  <2> QED
    BY <1>1, <2>2
       DEF Receive, ShownInOrder, Intervals, Begun, UpToDate, Alive, ClosedByReader,
           HandlerClosed, NoticeInv
<1>2. CASE ReceiveError \/ WriteError \/ EndReader
  <2>1. reader'.from = reader.from /\ reader'.to = reader.to
    BY <1>2 DEF ReceiveError, WriteError, EndReader, TypeOK, Reader
  <2>2. \/ reader.pc = "read" /\ reader'.pc = "close"
        \/ reader.pc = "offer" /\ pipe /\ reader'.pc = "close"
        \/ reader.pc = "close" /\ reader'.pc = "ended"
    BY <1>2 DEF ReceiveError, WriteError, EndReader, TypeOK, Reader
  <2> QED
    BY <1>2, <2>1, <2>2
       DEF ReceiveError, WriteError, EndReader, ShownInOrder, Intervals, Begun, UpToDate,
           Alive, ClosedByReader, HandlerClosed, NoticeInv
<1> QED
  BY <1>1, <1>2 DEF ReadLoop

LEMMA HandData == ASSUME IInv, Hand PROVE ShownInOrder' /\ DataInv'
<1> USE DEF IInv, DataInv, agentVars, browserVars
<1>1. /\ reader'.from = Taken /\ reader'.to = reader.to
      /\ reader'.pc = IF Taken = reader.to THEN "read" ELSE "offer"
      /\ output' = [pc |-> "send", from |-> reader.from, to |-> Taken]
  BY DEF Hand, TypeOK, Reader
<1>2. Intervals' /\ Begun'
  BY <1>1, TakenTyped DEF Hand, Intervals, Begun
<1>3. UpToDate'
  BY <1>1 DEF Hand, UpToDate, Alive
<1>4. ClosedByReader' /\ NoticeInv'
  BY <1>1 DEF Hand, ClosedByReader, NoticeInv, HandlerClosed
<1> QED
  BY <1>2, <1>3, <1>4 DEF Hand, ShownInOrder

LEMMA SendData == ASSUME IInv, Send PROVE ShownInOrder' /\ DataInv'
<1> USE DEF IInv, DataInv, agentVars
<1> DEFINE u == Units(output.from, output.to)
<1>1. output.from \in Nat /\ output.to \in Nat /\ output.from <= output.to
  BY DEF TypeOK, Output, Intervals
<1>2. /\ u \in Seq(Nat) /\ Len(u) = output.to - output.from
      /\ \A i \in 1..(output.to - output.from) : u[i] = output.from + i
  BY <1>1, UnitsTyped
<1>3. Len(shown) = output.from /\ output.to = reader.from
  BY DEF Send, UpToDate, Alive
<1> HIDE DEF u
<1>4. /\ Len(shown') = output.to
      /\ \A i \in 1..output.to :
           shown'[i] = IF i <= output.from THEN shown[i] ELSE u[i - output.from]
  <2>1. shown' = shown \o u /\ shown \in Seq(Nat)
    BY DEF Send, TypeOK, u
  <2>2. /\ Len(shown') = output.from + Len(u)
        /\ \A i \in 1..(output.from + Len(u)) :
             shown'[i] = IF i <= output.from THEN shown[i] ELSE u[i - output.from]
    <3>1. /\ Len(shown \o u) = Len(shown) + Len(u)
          /\ \A i \in 1..(Len(shown) + Len(u)) :
               (shown \o u)[i] = IF i <= Len(shown) THEN shown[i]
                                                   ELSE u[i - Len(shown)]
      BY <1>2, <2>1, ConcatProperties
    <3> QED
      BY <1>3, <2>1, <3>1
  <2>3. output.from + Len(u) = output.to
    BY <1>1, <1>2
  <2> QED
    BY <2>2, <2>3
<1>5. ShownInOrder'
  <2> SUFFICES ASSUME NEW i \in 1..output.to PROVE shown'[i] = i
    BY <1>4 DEF ShownInOrder
  <2>1. CASE i <= output.from
    BY <1>1, <1>3, <1>4, <2>1 DEF ShownInOrder
  <2>2. CASE ~(i <= output.from)
    <3>1. i - output.from \in 1..(output.to - output.from)
      BY <1>1, <2>2
    <3>2. u[i - output.from] = output.from + (i - output.from)
      BY <1>2, <3>1
    <3> QED
      BY <1>1, <1>4, <2>2, <3>2
  <2> QED
    BY <2>1, <2>2
<1>6. output'.pc = "read" /\ output'.from = output.from /\ output'.to = output.to
  BY DEF Send, TypeOK, Output
<1>7. Intervals' /\ Begun' /\ ClosedByReader' /\ NoticeInv'
  BY <1>6 DEF Send, Intervals, Begun, ClosedByReader, HandlerClosed, NoticeInv
<1>8. UpToDate'
  BY <1>3, <1>4, <1>6 DEF Send, UpToDate, Alive
<1> QED
  BY <1>5, <1>7, <1>8

LEMMA OutputLoopData ==
  ASSUME IInv, OutputLoop PROVE ShownInOrder' /\ DataInv'
<1> USE DEF IInv, DataInv, agentVars, browserVars
<1>1. CASE ReadError \/ SendInVain
  <2>1. output'.from = output.from /\ output'.to = output.to
    BY <1>1 DEF ReadError, SendInVain, TypeOK, Output
  <2>2. \/ output.pc = "read" /\ output'.pc = "notice" /\ pipe
        \/ output.pc = "send" /\ output'.pc \in {"read", "ended"} /\ ~Alive
    BY <1>1 DEF ReadError, SendInVain, TypeOK, Output, Alive
  <2> QED
    BY <1>1, <2>1, <2>2
       DEF ReadError, SendInVain, ShownInOrder, Intervals, Begun, UpToDate, Alive,
           ClosedByReader, HandlerClosed, NoticeInv
<1>2. CASE Notice
  <2>1. /\ output'.from = output.from /\ output'.to = output.to
        /\ output.pc = "notice" /\ output'.pc = "ended"
    BY <1>2 DEF Notice, TypeOK, Output
  <2>2. Intervals' /\ Begun' /\ UpToDate' /\ ClosedByReader' /\ ShownInOrder'
    BY <1>2, <2>1 DEF Notice, Intervals, Begun, UpToDate, Alive, ClosedByReader,
                      HandlerClosed, ShownInOrder
  <2>3. NoticeInv'
    BY <1>2, <2>1 DEF Notice, UpToDate, Alive, ClosedByReader, HandlerClosed,
                      NoticeInv
  <2> QED
    BY <2>2, <2>3
<1> QED
  BY <1>1, <1>2, SendData DEF OutputLoop

LEMMA OutsideData ==
  ASSUME IInv, AgentSends \/ AgentStalls \/ LinkLost \/ BrowserStalls \/ BrowserLeaves
  PROVE  ShownInOrder' /\ DataInv'
BY DEF IInv, DataInv, agentVars, browserVars, AgentSends, AgentStalls, LinkLost,
       BrowserStalls, BrowserLeaves, ShownInOrder, Intervals, Begun, UpToDate, Alive,
       ClosedByReader, HandlerClosed, NoticeInv

LEMMA NextData == ASSUME IInv, [Next]_vars PROVE ShownInOrder' /\ DataInv'
<1>1. CASE UNCHANGED vars
  BY <1>1 DEF vars, agentVars, browserVars, IInv, DataInv, ShownInOrder,
              Intervals, Begun, UpToDate, Alive, ClosedByReader, HandlerClosed, NoticeInv
<1> QED
  BY <1>1, HandleData, ReadLoopData, HandData, OutputLoopData, OutsideData
     DEF Next, Outside

LEMMA Invariance == Spec => []IInv
<1>1. Init => IInv
  BY InitTyped, InitData DEF IInv
<1>2. IInv /\ [Next]_vars => IInv'
  BY NextTyped, NextData DEF IInv, DataInv
<1> QED
  BY <1>1, <1>2, PTL DEF Spec

----------------------------------------------------------------------------
(* What the invariant says.                                                *)

\* Every reachable state of a session is well typed.
THEOREM TypeCorrect == Spec => []TypeOK
<1>1. IInv => TypeOK
  BY DEF IInv
<1> QED
  BY <1>1, Invariance, PTL

\* The browser shows what the agent sent, once, without a gap and in order,
\* however frames are cut by the buffer (terminal_service.go:142,
\* terminal_handler.go:69-84).
THEOREM OutputIsInOrder == Spec => []ShownInOrder
<1>1. IInv => ShownInOrder
  BY DEF IInv
<1> QED
  BY <1>1, Invariance, PTL

\* The notice that the session is closed comes after everything that was
\* received from the agent, unless the handler closed the session itself
\* (terminal_service.go:121, terminal_handler.go:70-75).
THEOREM NoticeComesLast == Spec => []NoticeIsLast
<1>1. IInv => NoticeIsLast
  BY DEF IInv, DataInv, NoticeInv, HandlerClosed, NoticeIsLast
<1> QED
  BY <1>1, Invariance, PTL
=============================================================================
