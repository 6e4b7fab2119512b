------------------------------ MODULE UartProofs ------------------------------
(***************************************************************************)
(* Proofs about Uart, for every depth of the FIFOs, every increment and    *)
(* any number of bytes.                                                    *)
(***************************************************************************)
EXTENDS Uart, SequenceTheorems, TLAPS

Resetting == {"disable", "reset fifos", "enable"}
Sending == {"poll full", "write data", "poll idle"}

(* The driver sends only through an enabled UART, and only bytes it has.   *)
DriverInv ==
    /\ pc \in Sending => enabled = TRUE
    /\ pc \in Resetting \union Sending => todo > 0
    /\ inited = TRUE /\ pc \notin Resetting => enabled = TRUE

(* At most one byte is on its way, and only while uart_putchar waits.      *)
Drained == txFifo = <<>> /\ txShift = Nothing /\ Len(wire) = written
TxInv ==
    \/ Drained
    \/ /\ pc = "poll idle"
       /\ Len(wire) + 1 = written
       /\ \/ txFifo = <<written>> /\ txShift = Nothing
          \/ txFifo = <<>> /\ txShift = written

WireInv == \A i \in 1..Len(wire) : wire[i] = i

(* TXIDLE read as 1 still means that nothing is left to transmit.          *)
IdleInv ==
    pc = "poll idle" /\ "status" \notin lanes /\ "txidle" \in sample.status => Drained

ConsoleInv == TypeOK /\ DriverInv /\ TxInv /\ WireInv /\ IdleInv

-------------------------------------------------------------------------------
(* Nothing is written or on its way after reset.                           *)
LEMMA ConsoleInit == Init => ConsoleInv
  <1> SUFFICES ASSUME Init PROVE ConsoleInv
    OBVIOUS
  <1>1. TypeOK
    <2>1. \A S : <<>> \in Seq(S)
      OBVIOUS
    <2>2. Len(<<>>) <= TxDepth /\ Len(<<>>) <= RxDepth
      BY UartAssumption
    <2>3. sample \in [status : SUBSET Status, data : Byte \union {0, Garbled}]
      BY DEF Init
    <2> QED
      BY <2>1, <2>2, <2>3 DEF Init, TypeOK, Control
  <1>2. Drained /\ wire = <<>> /\ pc = "idle" /\ ~inited
    BY DEF Init, Drained
  <1> QED
    BY <1>1, <1>2 DEF ConsoleInv, DriverInv, TxInv, WireInv, IdleInv, Resetting, Sending

(* A received byte is a byte, and the FIFO that takes it has room.         *)
LEMMA ReceiveTypes ==
    ASSUME TypeOK, NEW byte \in Byte \union {Garbled}, Receive(byte)
    PROVE  /\ rxFifo' \in Seq(Byte \union {Garbled})
           /\ Len(rxFifo') <= RxDepth
           /\ accepted' \in Seq(Byte \union {0, Garbled})
  <1>1. CASE Len(rxFifo) < RxDepth
    <2>1. rxFifo' = Append(rxFifo, byte) /\ accepted' = Append(accepted, byte)
      BY <1>1 DEF Receive
    <2>2. Len(rxFifo') = Len(rxFifo) + 1
      BY <2>1, AppendProperties DEF TypeOK
    <2>3. rxFifo' \in Seq(Byte \union {Garbled})
      BY <2>1, AppendProperties DEF TypeOK
    <2>4. accepted' \in Seq(Byte \union {0, Garbled})
      BY <2>1, AppendProperties DEF TypeOK
    <2>5. Len(rxFifo) \in Nat
      BY LenProperties DEF TypeOK
    <2> QED BY <1>1, <2>2, <2>3, <2>4, <2>5, UartAssumption
  <1>2. CASE ~(Len(rxFifo) < RxDepth)
    BY <1>2 DEF Receive, TypeOK
  <1> QED BY <1>1, <1>2

(* Every action keeps the types; those of the driver rely on DriverInv,    *)
(* and WriteData on the transmitter being drained.                         *)
LEMMA TypeStep == ConsoleInv /\ [Next]_vars => TypeOK'
  <1> SUFFICES ASSUME ConsoleInv, [Next]_vars PROVE TypeOK'
    OBVIOUS
  <1> USE DEF ConsoleInv, program, tx, rx
  <1>1. CASE CallWrite \/ CallPutchar \/ CallGetchar
    <2>1. todo' \in Nat
      <3>1. CASE CallWrite
        <4>1. PICK n \in 1..(MaxSend - written) : todo' = IF Fits THEN n ELSE 0
          BY <3>1 DEF CallWrite
        <4>2. n \in Nat
          BY UartAssumption DEF TypeOK
        <4> QED BY <4>1, <4>2
      <3>2. CASE CallPutchar
        BY <3>2 DEF CallPutchar
      <3>4. CASE CallGetchar
        BY <3>4 DEF CallGetchar, TypeOK
      <3> QED BY <1>1, <3>1, <3>2, <3>4
    <2>2. inited' \in BOOLEAN
      BY <1>1 DEF CallWrite, CallPutchar, CallGetchar, Fits, TypeOK
    <2>3. pc' \in Control /\ lanes' \subseteq {"status", "data"}
      BY <1>1 DEF CallWrite, CallPutchar, CallGetchar, Goto, Control, Reading
    <2>4. UNCHANGED <<nco, enabled, tx, rx, sample, got>>
      BY <1>1 DEF CallWrite, CallPutchar, CallGetchar
    <2> QED BY <2>1, <2>2, <2>3, <2>4 DEF TypeOK
  <1>2. CASE StatusLane
    BY <1>2 DEF StatusLane, StatusNow, TypeOK
  <1>3. CASE DataLane
    <2>1. CASE rxFifo = <<>>
      BY <1>3, <2>1 DEF DataLane, TypeOK
    <2>2. CASE rxFifo # <<>>
      <3>1. Head(rxFifo) \in Byte \union {Garbled} /\ Tail(rxFifo) \in Seq(Byte \union {Garbled})
            /\ Len(Tail(rxFifo)) = Len(rxFifo) - 1 /\ Len(rxFifo) \in Nat
        BY <2>2, HeadTailProperties, LenProperties DEF TypeOK
      <3>2. sample' \in [status : SUBSET Status, data : Byte \union {0, Garbled}]
        BY <1>3, <2>2, <3>1 DEF DataLane, TypeOK
      <3>3. rxFifo' \in Seq(Byte \union {Garbled}) /\ Len(rxFifo') <= RxDepth
        <4>1. rxFifo' = Tail(rxFifo)
          BY <1>3, <2>2 DEF DataLane
        <4>2. Len(rxFifo) <= RxDepth
          BY DEF TypeOK
        <4> QED BY <3>1, <4>1, <4>2, UartAssumption
      <3> QED BY <1>3, <3>2, <3>3 DEF DataLane, TypeOK
    <2> QED BY <2>1, <2>2
  <1>4. CASE Disable
    BY <1>4 DEF Disable, Goto, TypeOK, Control, Reading, Garbled, Nothing
  <1>5. CASE ResetFifos
    <2>1. accepted' \in Seq(Byte \union {0, Garbled})
      BY <1>5 DEF ResetFifos, TypeOK
    <2>2. \A S : <<>> \in Seq(S)
      OBVIOUS
    <2>3. Len(<<>>) <= TxDepth /\ Len(<<>>) <= RxDepth
      BY UartAssumption
    <2> QED
      BY <1>5, <2>1, <2>2, <2>3 DEF ResetFifos, Goto, TypeOK, Control, Reading
  <1>6. CASE Enable
    BY <1>6 DEF Enable, Goto, TypeOK, Control, Reading
  <1>7. CASE PollFull \/ PollEmpty
    BY <1>7 DEF PollFull, PollEmpty, Goto, TypeOK, Control, Reading
  <1>8. CASE WriteData
    <2>1. txFifo = <<>>
      BY <1>8 DEF WriteData, TxInv, Drained
    <2>2. txFifo' = <<written + 1>> /\ written' = written + 1
      <3>1. Len(txFifo) < TxDepth
        BY <2>1, UartAssumption
      <3>2. written' = written + 1 /\ txFifo' = Append(txFifo, written')
        BY <1>8, <3>1 DEF WriteData
      <3> QED BY <2>1, <3>2
    <2>3. written + 1 \in Byte
      BY DEF TypeOK, Byte
    <2>4. txFifo' \in Seq(Byte) /\ Len(txFifo') <= TxDepth
      BY <2>2, <2>3, UartAssumption
    <2>5. pc' = "poll idle" /\ lanes' \subseteq {"status", "data"}
      BY <1>8 DEF WriteData, Goto, Reading
    <2>7. written' \in Nat
      BY <2>2 DEF TypeOK
    <2>6. UNCHANGED <<todo, inited, nco, enabled, txShift, wire, rx, sample, got>>
      BY <1>8 DEF WriteData
    <2> QED
      BY <2>4, <2>5, <2>6, <2>7 DEF TypeOK, Control, Reading
  <1>9. CASE PollIdle
    <2>1. todo' \in Nat
      <3>1. todo' = todo - 1 \/ todo' = todo
        BY <1>9 DEF PollIdle
      <3>2. todo \in Nat /\ todo > 0
        BY <1>9 DEF PollIdle, TypeOK, DriverInv, Sending
      <3> QED BY <3>1, <3>2
    <2>2. pc' \in Control /\ lanes' \subseteq {"status", "data"}
      BY <1>9 DEF PollIdle, Goto, Control, Reading
    <2> QED BY <1>9, <2>1, <2>2 DEF PollIdle, TypeOK
  <1>10. CASE ReadData
    <2>1. got' \in Seq(Byte \union {0, Garbled})
      BY <1>10, AppendProperties DEF ReadData, TypeOK
    <2> QED
      BY <1>10, <2>1 DEF ReadData, Goto, TypeOK, Control, Reading
  <1>11. CASE TxLoad
    <2>1. Head(txFifo) \in Byte /\ Tail(txFifo) \in Seq(Byte)
          /\ Len(Tail(txFifo)) = Len(txFifo) - 1 /\ Len(txFifo) \in Nat
      BY <1>11, HeadTailProperties, LenProperties DEF TxLoad, TypeOK
    <2> QED BY <1>11, <2>1, UartAssumption DEF TxLoad, TypeOK
  <1>12. CASE TxDone
    <2>1. wire' \in Seq(Byte)
      BY <1>12, AppendProperties DEF TxDone, TypeOK
    <2> QED BY <1>12, <2>1 DEF TxDone, TypeOK
  <1>13. CASE HostSend
    BY <1>13 DEF HostSend, TypeOK, Byte, Garbled, Nothing
  <1>14. CASE RxDone
    <2>1. rxShift \in Byte \union {Garbled}
      BY <1>14 DEF RxDone, TypeOK
    <2>2. /\ rxFifo' \in Seq(Byte \union {Garbled})
          /\ Len(rxFifo') <= RxDepth
          /\ accepted' \in Seq(Byte \union {0, Garbled})
      BY <1>14, <2>1, ReceiveTypes DEF RxDone, TypeOK
    <2> QED BY <1>14, <2>2 DEF RxDone, TypeOK
  <1>15. CASE UNCHANGED vars
    BY <1>15 DEF vars, TypeOK
  <1> QED
    BY <1>1, <1>2, <1>3, <1>4, <1>5, <1>6, <1>7, <1>8, <1>9, <1>10, <1>11, <1>12,
       <1>13, <1>14, <1>15 DEF Next, Driver
-------------------------------------------------------------------------------
(* Counting down, and counting the byte on its way.                        *)
LEMMA OneIsPositive == 1 > 0
  OBVIOUS

LEMMA MoreToSend ==
    ASSUME NEW n \in Nat, n > 0, n # 1
    PROVE  n - 1 > 0
    OBVIOUS

LEMMA OneMore ==
    ASSUME NEW n \in Nat, NEW m \in Nat, n + 1 = m
    PROVE  m # 0
    OBVIOUS

(* What the program and the receiver do leaves the transmitter alone.      *)
LEMMA TxUntouched ==
    ASSUME ConsoleInv, UNCHANGED tx,
           pc' = pc \/ pc # "poll idle" \/ Drained
    PROVE  TxInv' /\ WireInv'
    BY DEF ConsoleInv, TxInv, WireInv, Drained, tx

LEMMA DriverStep == ConsoleInv /\ [Next]_vars => DriverInv'
  <1> SUFFICES ASSUME ConsoleInv, [Next]_vars PROVE DriverInv'
    OBVIOUS
  <1> USE DEF ConsoleInv, DriverInv, Resetting, Sending
  <1>1. CASE CallWrite
    <2>1. pc = "idle" /\ UNCHANGED <<inited, enabled>>
      BY <1>1 DEF CallWrite
    <2>2. CASE Fits
      <3>1. todo' > 0 /\ pc' = "disable"
        BY <1>1, <2>2 DEF CallWrite, Goto
      <3> QED BY <2>1, <3>1
    <2>3. CASE ~Fits
      BY <1>1, <2>1, <2>3 DEF CallWrite, Goto
    <2> QED BY <2>2, <2>3
  <1>2. CASE CallPutchar
    <2>1. pc = "idle" /\ enabled' = enabled /\ inited' = (inited \/ Fits)
      BY <1>2 DEF CallPutchar
    <2>2. CASE inited
      <3>1. pc' = "poll full" /\ todo' = 1
        BY <1>2, <2>1, <2>2 DEF CallPutchar, Goto
      <3>2. enabled' = TRUE
        BY <2>1, <2>2
      <3>3. todo' > 0
        BY <3>1, OneIsPositive
      <3>4. pc' \in Sending /\ pc' \notin Resetting
        BY <3>1
      <3> QED BY <3>2, <3>3, <3>4, Zenon
    <2>3. CASE ~inited /\ Fits
      <3>1. pc' = "disable" /\ todo' = 1
        BY <1>2, <2>1, <2>3 DEF CallPutchar, Goto
      <3>2. todo' > 0
        BY <3>1, OneIsPositive
      <3>3. pc' \notin Sending /\ pc' \in Resetting
        BY <3>1
      <3> QED BY <3>2, <3>3, Zenon
    <2>4. CASE ~inited /\ ~Fits
      <3>1. pc' = "idle" /\ inited' = FALSE
        BY <1>2, <2>1, <2>4 DEF CallPutchar, Goto
      <3> QED BY <3>1
    <2> QED BY <2>2, <2>3, <2>4
  <1>3. CASE CallGetchar
    BY <1>3 DEF CallGetchar, Goto
  <1>4. CASE StatusLane \/ DataLane \/ TxLoad \/ TxDone \/ HostSend \/ RxDone
    BY <1>4 DEF StatusLane, DataLane, TxLoad, TxDone, HostSend, RxDone, program
  <1>5. CASE Disable \/ ResetFifos \/ Enable
    BY <1>5 DEF Disable, ResetFifos, Enable, Goto
  <1>6. CASE PollFull \/ WriteData
    BY <1>6 DEF PollFull, WriteData, Goto
  <1>7. CASE PollIdle
    <2>1. todo \in Nat /\ todo > 0 /\ pc = "poll idle" /\ UNCHANGED <<inited, enabled>>
      BY <1>7 DEF PollIdle, TypeOK
    <2>2. CASE "txidle" \in sample.status
      <3>1. todo' = todo - 1 /\ pc' = IF todo = 1 THEN "idle" ELSE "poll full"
        BY <1>7, <2>2 DEF PollIdle, Goto
      <3>2. enabled' = TRUE
        BY <2>1
      <3>3. CASE todo = 1
        <4>1. pc' \notin Resetting /\ pc' \notin Sending
          BY <3>1, <3>3
        <4> QED BY <3>2, <4>1, Zenon
      <3>4. CASE todo # 1
        <4>1. todo - 1 > 0
          BY <2>1, <3>4, MoreToSend, Zenon
        <4>2. todo' > 0
          BY <3>1, <4>1, Zenon
        <4> QED BY <3>1, <3>2, <3>4, <4>2, Zenon
      <3> QED BY <3>3, <3>4
    <2>3. CASE "txidle" \notin sample.status
      BY <1>7, <2>1, <2>3 DEF PollIdle, Goto
    <2> QED BY <2>2, <2>3
  <1>8. CASE PollEmpty \/ ReadData
    BY <1>8 DEF PollEmpty, ReadData, Goto
  <1>9. CASE UNCHANGED vars
    BY <1>9 DEF vars
  <1> QED
    BY <1>1, <1>2, <1>3, <1>4, <1>5, <1>6, <1>7, <1>8, <1>9 DEF Next, Driver

(* The transmitter: a byte moves from WDATA to the FIFO, the transmitter   *)
(* and the wire, and what the driver reads of it is true.                  *)
LEMMA TxStep == ConsoleInv /\ [Next]_vars => TxInv' /\ WireInv' /\ IdleInv'
  <1> SUFFICES ASSUME ConsoleInv, [Next]_vars PROVE TxInv' /\ WireInv' /\ IdleInv'
    OBVIOUS
  <1>1. CASE CallWrite \/ CallPutchar \/ CallGetchar
    <2>1. pc = "idle" /\ UNCHANGED tx
      BY <1>1 DEF CallWrite, CallPutchar, CallGetchar
    <2>2. pc' \in {"idle", "disable", "poll full", "poll empty"}
      BY <1>1 DEF CallWrite, CallPutchar, CallGetchar, Goto
    <2> QED BY <2>1, <2>2, TxUntouched DEF IdleInv
  <1>2. CASE StatusLane
    <2>1. UNCHANGED <<pc, enabled, tx>> /\ sample' = [sample EXCEPT !.status = StatusNow]
      BY <1>2 DEF StatusLane, program
    <2>2. sample'.status = StatusNow
      BY <2>1 DEF ConsoleInv, TypeOK
    <2>3. IdleInv'
      <3> SUFFICES ASSUME pc = "poll idle", "txidle" \in StatusNow PROVE Drained'
        BY <2>1, <2>2 DEF IdleInv
      <3>1. enabled
        BY DEF ConsoleInv, DriverInv, Sending
      <3>2. txShift = Nothing /\ txFifo = <<>>
        BY <3>1 DEF StatusNow
      <3>3. Drained
        <4>1. Len(wire) \in Nat /\ written \in Nat
          BY LenProperties DEF ConsoleInv, TypeOK
        <4>2. <<written>> # <<>>
          OBVIOUS
        <4>3. ~(Len(wire) + 1 = written /\ written = 0)
          BY <4>1, OneMore, Zenon
        <4> QED BY <3>2, <4>2, <4>3 DEF ConsoleInv, TxInv, Nothing
      <3> QED BY <2>1, <3>3 DEF Drained, tx
    <2> QED BY <2>1, <2>3, TxUntouched
  <1>3. CASE DataLane \/ HostSend \/ RxDone
    <2>1. /\ UNCHANGED <<pc, tx>>
          /\ "status" \notin lanes' => "status" \notin lanes
          /\ sample'.status = sample.status
      BY <1>3 DEF DataLane, HostSend, RxDone, program, ConsoleInv, TypeOK
    <2>2. IdleInv'
      BY <2>1 DEF ConsoleInv, IdleInv, Drained, tx
    <2> QED BY <2>1, <2>2, TxUntouched
  <1>4. CASE Disable \/ ResetFifos \/ Enable
    <2>1. pc \in Resetting /\ Drained
      BY <1>4 DEF Disable, ResetFifos, Enable, ConsoleInv, TxInv, Resetting
    <2>2. UNCHANGED tx
      BY <1>4, <2>1 DEF Disable, ResetFifos, Enable, Drained, tx
    <2>3. pc' \in {"reset fifos", "enable", "poll full"}
      BY <1>4 DEF Disable, ResetFifos, Enable, Goto
    <2> QED BY <2>1, <2>2, <2>3, TxUntouched DEF IdleInv
  <1>5. CASE PollFull \/ PollEmpty \/ ReadData
    <2>1. pc # "poll idle" /\ UNCHANGED tx /\ pc' # "poll idle"
      BY <1>5 DEF PollFull, PollEmpty, ReadData, Goto
    <2> QED BY <2>1, TxUntouched DEF IdleInv
  <1>6. CASE WriteData
    <2>1. Drained
      BY <1>6 DEF WriteData, ConsoleInv, TxInv
    <2>2. Len(txFifo) < TxDepth
      BY <2>1, UartAssumption DEF Drained
    <2>3. written' = written + 1 /\ txFifo' = Append(txFifo, written')
          /\ pc' = "poll idle" /\ lanes' = {"status", "data"}
          /\ txShift' = txShift /\ wire' = wire
      BY <1>6, <2>2 DEF WriteData, Goto, Reading
    <2>4. txFifo' = <<written'>> /\ txShift' = Nothing /\ Len(wire') + 1 = written'
      <3>1. Append(<<>>, written') = <<written'>>
        OBVIOUS
      <3> QED BY <2>1, <2>3, <3>1 DEF Drained, ConsoleInv, TypeOK
    <2> QED BY <2>3, <2>4 DEF TxInv, WireInv, IdleInv, ConsoleInv
  <1>7. CASE PollIdle
    <2>1. UNCHANGED tx /\ pc = "poll idle" /\ lanes = {}
      BY <1>7 DEF PollIdle
    <2>2. CASE "txidle" \in sample.status
      <3>1. Drained
        BY <2>1, <2>2 DEF ConsoleInv, IdleInv
      <3>2. pc' # "poll idle"
        BY <1>7, <2>2 DEF PollIdle, Goto
      <3> QED BY <2>1, <3>1, <3>2, TxUntouched DEF IdleInv
    <2>3. CASE "txidle" \notin sample.status
      <3>1. pc' = pc /\ lanes' = {"status", "data"}
        BY <1>7, <2>1, <2>3 DEF PollIdle, Goto, Reading
      <3> QED BY <2>1, <3>1, TxUntouched DEF IdleInv
    <2> QED BY <2>2, <2>3
  <1>8. CASE TxLoad
    <2>1. txShift = Nothing /\ txFifo # <<>> /\ txShift' = Head(txFifo)
          /\ txFifo' = Tail(txFifo) /\ UNCHANGED <<pc, lanes, sample, wire, written>>
      BY <1>8 DEF TxLoad, program
    <2>2. pc = "poll idle" /\ Len(wire) + 1 = written /\ txFifo = <<written>>
      BY <2>1 DEF ConsoleInv, TxInv, Drained, Nothing, TypeOK
    <2>3. txShift' = written /\ txFifo' = <<>>
      <3>1. Head(<<written>>) = written /\ Tail(<<written>>) = <<>>
        OBVIOUS
      <3> QED BY <2>1, <2>2, <3>1
    <2>4. TxInv' /\ WireInv'
      BY <2>1, <2>2, <2>3 DEF TxInv, WireInv, ConsoleInv
    <2>5. ~Drained
      BY <2>1 DEF Drained
    <2> QED BY <2>1, <2>4, <2>5 DEF IdleInv, ConsoleInv
  <1>9. CASE TxDone
    <2>1. txShift # Nothing /\ txShift' = Nothing /\ wire' = Append(wire, txShift)
          /\ UNCHANGED <<pc, lanes, sample, txFifo, written>>
      BY <1>9 DEF TxDone, program
    <2>2. Len(wire) + 1 = written /\ txFifo = <<>> /\ txShift = written
      BY <2>1 DEF ConsoleInv, TxInv, Drained
    <2>3. Len(wire') = Len(wire) + 1 /\ Len(wire) \in Nat
          /\ wire'[Len(wire) + 1] = txShift
          /\ \A i \in 1..Len(wire) : wire'[i] = wire[i]
      BY <2>1, AppendProperties, LenProperties DEF ConsoleInv, TypeOK
    <2>4. Drained'
      BY <2>1, <2>2, <2>3 DEF Drained
    <2>5. WireInv'
      BY <2>2, <2>3 DEF WireInv, ConsoleInv
    <2> QED BY <2>4, <2>5 DEF TxInv, IdleInv
  <1>10. CASE UNCHANGED vars
    BY <1>10 DEF vars, ConsoleInv, TxInv, WireInv, IdleInv, Drained
  <1> QED
    BY <1>1, <1>2, <1>3, <1>4, <1>5, <1>6, <1>7, <1>8, <1>9, <1>10 DEF Next, Driver

-------------------------------------------------------------------------------
(* The console, in every reachable state: one byte at a time, through an   *)
(* enabled UART, and TXIDLE is not read too early.                         *)
THEOREM ConsoleCorrect == Spec => []ConsoleInv
  <1>1. ConsoleInv /\ [Next]_vars => ConsoleInv'
    BY TypeStep, DriverStep, TxStep DEF ConsoleInv
  <1> QED BY <1>1, ConsoleInit, PTL DEF Spec

(* Every register and history keeps its type, and no FIFO overflows.       *)
THEOREM UartTypeCorrect == Spec => []TypeOK
  <1>1. ConsoleInv => TypeOK
    BY DEF ConsoleInv
  <1> QED BY <1>1, ConsoleCorrect, PTL

(* uart_write returns only when the whole buffer has been transmitted.     *)
THEOREM Complete == Spec => []WriteComplete
  <1>1. ConsoleInv => WriteComplete
    BY DEF ConsoleInv, TxInv, Drained, WriteComplete
  <1> QED BY <1>1, ConsoleCorrect, PTL

(* No byte is lost, repeated or overtaken on its way out, whatever mix of  *)
(* _write and _putchar resets the UART between them.                       *)
THEOREM InOrder == Spec => []TxInOrder
  <1>1. ConsoleInv => TxInOrder
    <2> SUFFICES ASSUME ConsoleInv PROVE TxInOrder
      OBVIOUS
    <2>1. wire \in Seq(Byte) /\ Len(wire) \in Nat /\ written \in Nat /\ WireInv
      BY LenProperties DEF ConsoleInv, TypeOK
    <2>2. CASE Drained
      <3>1. Line = wire
        BY <2>1, <2>2 DEF Line, InTransmitter, Drained
      <3> QED BY <2>1, <2>2, <3>1 DEF TxInOrder, WireInv, Drained
    <2>3. CASE ~Drained
      <3>1. Len(wire) + 1 = written
        BY <2>3 DEF ConsoleInv, TxInv
      <3>2. Line = wire \o <<written>>
        <4>1. \/ txFifo = <<written>> /\ txShift = Nothing
              \/ txFifo = <<>> /\ txShift = written
          BY <2>3 DEF ConsoleInv, TxInv
        <4>2. CASE txFifo = <<written>> /\ txShift = Nothing
          BY <2>1, <4>2 DEF Line, InTransmitter
        <4>3. CASE txFifo = <<>> /\ txShift = written
          <5>1. InTransmitter = <<written>>
            BY <2>1, <3>1, <4>3 DEF InTransmitter, Nothing
          <5> QED BY <2>1, <4>3, <5>1 DEF Line
        <4> QED BY <4>1, <4>2, <4>3
      <3>3. Len(Line) = written
        BY <2>1, <3>1, <3>2
      <3>4. \A i \in 1..written : Line[i] = i
        BY <2>1, <3>1, <3>2 DEF WireInv
      <3> QED BY <3>3, <3>4 DEF TxInOrder
    <2> QED BY <2>2, <2>3
  <1> QED BY <1>1, ConsoleCorrect, PTL

-------------------------------------------------------------------------------
(* The bytes of the host: returned, read and about to be returned, in the  *)
(* FIFO, and in the receiver, each before the next and the last of them    *)
(* the one sent last.  A byte that the poll has read is not among them.    *)
Held == pc = "read data" /\ "data" \notin lanes /\ sample.data \in Byte
Past == IF rxShift \in Byte THEN sent - 1 ELSE sent

RxInv ==
    /\ RxOrder
    /\ \A i \in 1..Len(got) : got[i] \in Byte => got[i] <= Past
    /\ \A i \in 1..Len(rxFifo) : rxFifo[i] \in Byte =>
          /\ rxFifo[i] <= Past
          /\ \A j \in 1..Len(rxFifo) : i < j /\ rxFifo[j] \in Byte => rxFifo[i] < rxFifo[j]
          /\ \A j \in 1..Len(got) : got[j] \in Byte => got[j] < rxFifo[i]
          /\ Held => sample.data < rxFifo[i]
    /\ Held =>
          /\ sample.data <= Past
          /\ \A j \in 1..Len(got) : got[j] \in Byte => got[j] < sample.data
    /\ rxShift \in Byte => rxShift = sent

LEMMA RxInit == Init => RxInv
  <1> SUFFICES ASSUME Init PROVE RxInv
    OBVIOUS
  <1>1. Len(got) = 0 /\ Len(rxFifo) = 0 /\ rxShift \notin Byte /\ pc = "idle"
    BY DEF Init, Nothing, Byte
  <1>2. 1..Len(got) = {} /\ 1..Len(rxFifo) = {}
    BY <1>1
  <1> QED BY <1>1, <1>2 DEF RxInv, RxOrder, Held

(* A byte enters an empty receiver after all others. *)
LEMMA RxSend == TypeOK /\ RxInv /\ HostSend => RxInv'
  <1> SUFFICES ASSUME TypeOK, RxInv, HostSend PROVE RxInv'
    OBVIOUS
  <1>1. UNCHANGED <<got, rxFifo, pc, lanes, sample>>
    BY DEF HostSend, program
  <1>2. sent \in Nat /\ sent' = sent + 1 /\ Past = sent
    BY DEF HostSend, TypeOK, Past, Nothing, Byte
  <1>3. rxShift' \in {Garbled, sent + 1}
    BY DEF HostSend
  <1>4. Past' \in {sent, sent + 1}
    BY <1>2 DEF Past
  <1>5. \A x \in Byte : x <= Past => x <= Past'
    BY <1>2, <1>4 DEF Byte
  <1>6. rxShift' \in Byte => rxShift' = sent'
    BY <1>2, <1>3 DEF Garbled, Byte
  <1>7. Held' <=> Held
    BY <1>1 DEF Held
  <1> QED BY <1>1, <1>5, <1>6, <1>7 DEF RxInv, RxOrder, Held

(* The FIFO takes the byte of the receiver, or the byte is lost. *)
LEMMA RxReceive == TypeOK /\ RxInv /\ RxDone => RxInv'
  <1> SUFFICES ASSUME TypeOK, RxInv, RxDone PROVE RxInv'
    OBVIOUS
  <1>1. UNCHANGED <<got, pc, lanes, sample, sent>> /\ rxShift' = Nothing
    BY DEF RxDone, program
  <1>2. sent \in Nat /\ Past' = sent /\ Past <= sent
    BY <1>1 DEF TypeOK, Past, Nothing, Byte
  <1>3. \A x \in Byte : x <= Past => x <= Past'
    BY <1>2 DEF Byte, Past
  <1>4. Held' <=> Held
    BY <1>1 DEF Held
  <1>5. CASE rxFifo' = rxFifo
    BY <1>1, <1>2, <1>3, <1>4, <1>5 DEF RxInv, RxOrder, Held, Nothing, Byte
  <1>6. CASE rxFifo' = Append(rxFifo, rxShift)
    <2> DEFINE n == Len(rxFifo) + 1
    <2>1. /\ Len(rxFifo') = n /\ rxFifo'[n] = rxShift /\ n \in Nat
          /\ \A i \in 1..Len(rxFifo) : rxFifo'[i] = rxFifo[i]
      BY <1>6, AppendProperties, LenProperties DEF TypeOK
    <2>2. \A i \in 1..n : i # n => i \in 1..Len(rxFifo)
      BY <2>1
    <2>3. rxShift \in Byte => rxShift = sent /\ Past = sent - 1
      BY DEF RxInv, Past
    <2>4. \A x \in Byte : rxShift \in Byte /\ x <= Past => x < rxShift
      BY <1>2, <2>3 DEF Byte
    <2> HIDE DEF n
    <2>5. \A i \in 1..n : rxFifo'[i] \in Byte => rxFifo'[i] <= Past'
      BY <1>2, <1>3, <2>1, <2>2, <2>3 DEF RxInv, Byte
    <2>6. \A i, j \in 1..n : i < j => i # n
      BY <2>1
    <2>7. \A i, j \in 1..n : i < j /\ rxFifo'[i] \in Byte /\ rxFifo'[j] \in Byte
                                => rxFifo'[i] < rxFifo'[j]
      BY <2>1, <2>2, <2>4, <2>6 DEF RxInv
    <2>8. \A i \in 1..n, j \in 1..Len(got) :
             rxFifo'[i] \in Byte /\ got[j] \in Byte => got[j] < rxFifo'[i]
      BY <2>1, <2>2, <2>4 DEF RxInv
    <2>9. Held => \A i \in 1..n : rxFifo'[i] \in Byte => sample.data < rxFifo'[i]
      BY <2>1, <2>2, <2>4 DEF RxInv, Held
    <2> QED BY <1>1, <1>3, <1>4, <2>1, <2>5, <2>7, <2>8, <2>9
            DEF RxInv, RxOrder, Held, Nothing, Byte
  <1> QED BY <1>5, <1>6 DEF RxDone, Receive

(* A read takes the first byte of the FIFO, whether it is then returned or *)
(* not.                                                                    *)
LEMMA RxRead == TypeOK /\ RxInv /\ DataLane => RxInv'
  <1> SUFFICES ASSUME TypeOK, RxInv, DataLane PROVE RxInv'
    OBVIOUS
  <1>1. UNCHANGED <<got, pc, sent, rxShift>> /\ ~Held
    BY DEF DataLane, program, Held
  <1>2. Past' = Past
    BY <1>1 DEF Past
  <1>3. CASE rxFifo = <<>>
    <2>1. rxFifo' = rxFifo /\ sample'.data = 0
      BY <1>3 DEF DataLane, TypeOK
    <2>2. ~Held'
      BY <2>1 DEF Held, Byte
    <2> QED BY <1>1, <1>2, <2>1, <2>2 DEF RxInv, RxOrder
  <1>4. CASE rxFifo # <<>>
    <2>1. rxFifo' = Tail(rxFifo) /\ sample'.data = Head(rxFifo)
      BY <1>4 DEF DataLane, TypeOK
    <2>2. /\ Len(rxFifo) \in Nat \ {0} /\ Len(rxFifo') = Len(rxFifo) - 1
          /\ sample'.data = rxFifo[1]
          /\ \A i \in 1..Len(rxFifo') : rxFifo'[i] = rxFifo[i + 1]
      BY <1>4, <2>1, HeadTailProperties, EmptySeq, LenProperties DEF TypeOK
    <2>3. /\ 1 \in 1..Len(rxFifo)
          /\ \A i \in 1..Len(rxFifo') : i + 1 \in 1..Len(rxFifo) /\ 1 < i + 1
      BY <2>2
    <2>4. \A i, j \in 1..Len(rxFifo') : i < j => i + 1 < j + 1
      OBVIOUS
    <2>5. \A i \in 1..Len(rxFifo') : rxFifo'[i] \in Byte =>
             /\ rxFifo'[i] <= Past
             /\ \A j \in 1..Len(rxFifo') :
                   i < j /\ rxFifo'[j] \in Byte => rxFifo'[i] < rxFifo'[j]
             /\ \A j \in 1..Len(got) : got[j] \in Byte => got[j] < rxFifo'[i]
      BY <2>2, <2>3, <2>4 DEF RxInv
    <2>6. sample'.data \in Byte =>
             /\ sample'.data <= Past
             /\ \A j \in 1..Len(got) : got[j] \in Byte => got[j] < sample'.data
             /\ \A i \in 1..Len(rxFifo') : rxFifo'[i] \in Byte => sample'.data < rxFifo'[i]
      BY <2>2, <2>3 DEF RxInv
    <2>7. Held' => sample'.data \in Byte
      BY DEF Held
    <2> QED BY <1>1, <1>2, <2>5, <2>6, <2>7 DEF RxInv, RxOrder
  <1> QED BY <1>3, <1>4

(* uart_getchar returns the byte it has read. *)
LEMMA RxReturn == TypeOK /\ RxInv /\ ReadData => RxInv'
  <1> SUFFICES ASSUME TypeOK, RxInv, ReadData PROVE RxInv'
    OBVIOUS
  <1>1. UNCHANGED <<rxFifo, sample, sent, rxShift>> /\ got' = Append(got, sample.data)
    BY DEF ReadData, rx
  <1>2. Past' = Past /\ ~Held'
    BY <1>1 DEF Past, Held, ReadData, Goto
  <1>3. sample.data \in Byte => Held
    BY DEF ReadData, Held
  <1> DEFINE n == Len(got) + 1
  <1>4. /\ Len(got') = n /\ got'[n] = sample.data /\ n \in Nat
        /\ \A i \in 1..Len(got) : got'[i] = got[i]
    BY <1>1, AppendProperties, LenProperties DEF TypeOK
  <1>5. \A i \in 1..n : i # n => i \in 1..Len(got)
    BY <1>4
  <1> HIDE DEF n
  <1>6. \A i, j \in 1..n : i < j => i # n
    BY <1>4
  <1>7. RxOrder'
    BY <1>3, <1>4, <1>5, <1>6 DEF RxInv, RxOrder
  <1>8. \A i \in 1..n : got'[i] \in Byte => got'[i] <= Past
    BY <1>3, <1>4, <1>5 DEF RxInv
  <1>9. \A i \in 1..Len(rxFifo) : rxFifo[i] \in Byte =>
           \A j \in 1..n : got'[j] \in Byte => got'[j] < rxFifo[i]
    BY <1>3, <1>4, <1>5 DEF RxInv
  <1> QED BY <1>1, <1>2, <1>4, <1>7, <1>8, <1>9 DEF RxInv

LEMMA RxStep == TypeOK /\ RxInv /\ [Next]_vars => RxInv'
  <1> SUFFICES ASSUME TypeOK, RxInv, [Next]_vars PROVE RxInv'
    OBVIOUS
  <1>1. CASE StatusLane
    <2>1. UNCHANGED <<got, rxFifo, pc, sent, rxShift>> /\ sample'.data = sample.data
          /\ ("data" \in lanes <=> "data" \in lanes')
      BY <1>1 DEF StatusLane, program, rx, TypeOK
    <2> QED BY <2>1 DEF RxInv, RxOrder, Held, Past
  <1>2. CASE Disable
    <2>1. rxShift' \in {Nothing, Garbled} /\ pc' # "read data"
          /\ UNCHANGED <<got, rxFifo, sent>>
      BY <1>2 DEF Disable, Goto
    <2>2. rxShift' \notin Byte
      <3>1. Nothing \notin Byte /\ Garbled \notin Byte
        BY DEF Nothing, Garbled, Byte
      <3> QED BY <2>1, <3>1
    <2>3. ~Held'
      BY <2>1 DEF Held
    <2>4. \A x \in Byte : x <= Past => x <= Past'
      <3>1. sent \in Nat /\ Past' = sent /\ Past \in {sent, sent - 1}
        BY <2>1, <2>2 DEF Past, TypeOK
      <3> QED BY <3>1 DEF Byte
    <2> QED BY <2>1, <2>2, <2>3, <2>4 DEF RxInv, RxOrder
  <1>3. CASE ResetFifos
    <2>1. rxFifo' = <<>> /\ pc' # "read data" /\ UNCHANGED <<got, rxShift, sent>>
      BY <1>3 DEF ResetFifos, Goto
    <2>2. 1..Len(rxFifo') = {}
      <3>1. Len(rxFifo') = 0
        BY <2>1
      <3> QED BY <3>1
    <2>3. ~Held'
      BY <2>1 DEF Held
    <2> QED BY <2>1, <2>2, <2>3 DEF RxInv, RxOrder, Past
  <1>4. CASE CallWrite \/ CallPutchar \/ CallGetchar \/ Enable \/ PollFull \/ WriteData
               \/ PollIdle \/ PollEmpty
    <2>1. UNCHANGED <<got, rxFifo, sent, rxShift>>
      BY <1>4 DEF CallWrite, CallPutchar, CallGetchar, Enable, PollFull, WriteData,
                  PollIdle, PollEmpty, rx
    <2>2. pc' = "read data" => "data" \in lanes'
      BY <1>4 DEF CallWrite, CallPutchar, CallGetchar, Enable, PollFull, WriteData,
                  PollIdle, PollEmpty, Goto, Reading
    <2> QED BY <2>1, <2>2 DEF RxInv, RxOrder, Held, Past
  <1>5. CASE TxLoad \/ TxDone \/ UNCHANGED vars
    BY <1>5 DEF TxLoad, TxDone, vars, rx, program, RxInv, RxOrder, Held, Past
  <1> QED
    BY <1>1, <1>2, <1>3, <1>4, <1>5, RxSend, RxReceive, RxRead, RxReturn DEF Next, Driver

(* uart_getchar returns the bytes of the host in the order they were sent, *)
(* none twice, whatever is lost on the way.                                *)
THEOREM ReceivedInOrder == Spec => []RxOrder
  <1>1. Spec => []RxInv
    BY RxInit, RxStep, UartTypeCorrect, PTL DEF Spec
  <1>2. RxInv => RxOrder
    BY DEF RxInv
  <1> QED BY <1>1, <1>2, PTL
===============================================================================
