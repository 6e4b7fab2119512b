--------------------------------- MODULE Uart ---------------------------------
(***************************************************************************)
(* The serial console of X-ALP: the C library's _write and _putchar, the   *)
(* UART driver below them, the UART (TX and RX FIFO, shift registers) and  *)
(* the host at the other end of the line.                                  *)
(*                                                                         *)
(* The program is one thread; each register access of the driver is a step *)
(* of its own, and the UART moves between any two of them.  STATUS and     *)
(* RDATA are the two halves of one 64-bit line of the peripheral bus, and  *)
(* a read accesses both halves (PeriphBus, Lanes), in either order.        *)
(* The bytes of each direction are numbered in the order they are sent.    *)
(***************************************************************************)
EXTENDS Integers, Sequences

CONSTANTS
    Nco,            \* the baud rate increments the program may ask for
    TxDepth,        \* entries of the TX FIFO
    RxDepth,        \* entries of the RX FIFO
    MaxSend,        \* bound: bytes the program sends
    MaxRecv         \* bound: bytes the host sends

ASSUME UartAssumption ==
    /\ Nco \subseteq Nat
    /\ TxDepth \in Nat \ {0}
    /\ RxDepth \in Nat \ {0}
    /\ MaxSend \in Nat
    /\ MaxRecv \in Nat

NcoWidth == 16

VARIABLES
    nco,        \* the increment in use: UART_NCO, or computed from the clock
    inited,     \* g_uart_initialized
    enabled,    \* CTRL.TX and CTRL.RX, always written together
    txFifo,     \* bytes written to WDATA
    txShift,    \* the byte in the transmitter, or Nothing
    wire,       \* history: the bytes transmitted completely
    rxShift,    \* what the host is sending, or Nothing
    rxFifo,     \* bytes received
    sent,       \* bytes the host has begun to send
    pc,         \* the next register access of the driver
    todo,       \* bytes left in uart_write
    lanes,      \* halves of the line still to access in the read under way
    sample,     \* what the read under way has returned
    written,    \* history: bytes written to WDATA
    got,        \* history: what uart_getchar returned
    accepted    \* history: the bytes the RX FIFO took and no reset flushed

program == <<pc, todo, inited, nco>>
tx == <<txFifo, txShift, wire, written>>
rx == <<rxShift, rxFifo, sent, accepted>>
vars == <<nco, inited, enabled, txFifo, txShift, wire, rxShift, rxFifo, sent,
          pc, todo, lanes, sample, written, got, accepted>>

Nothing == 0
Garbled == -1   \* a frame whose beginning the receiver missed, and the byte
                \* it may read into the rest
Byte == Nat \ {0}

Status == {"txfull", "txidle", "rxempty"}
Reading == {"poll full", "poll idle", "poll empty", "read data"}
Control == {"idle", "disable", "reset fifos", "enable", "write data"} \union Reading

Init ==
    /\ nco \in Nco
    /\ inited = FALSE
    /\ enabled = FALSE
    /\ txFifo = <<>> /\ txShift = Nothing /\ wire = <<>> /\ written = 0
    /\ rxFifo = <<>> /\ rxShift = Nothing /\ sent = 0 /\ accepted = <<>>
    /\ pc = "idle" /\ todo = 0
    /\ lanes = {} /\ sample = [status |-> {}, data |-> 0]
    /\ got = <<>>

-------------------------------------------------------------------------------
(***************************************************************************)
(* The UART.                                                               *)
(***************************************************************************)
TxLoad ==
    /\ enabled
    /\ txShift = Nothing
    /\ txFifo # <<>>
    /\ txShift' = Head(txFifo)
    /\ txFifo' = Tail(txFifo)
    /\ UNCHANGED <<program, enabled, wire, written, rx, lanes, sample, got>>

(* Ten ticks of the baud generator later; none comes if the increment is 0. *)
TxDone ==
    /\ enabled
    /\ nco > 0
    /\ txShift # Nothing
    /\ wire' = Append(wire, txShift)
    /\ txShift' = Nothing
    /\ UNCHANGED <<program, enabled, txFifo, written, rx, lanes, sample, got>>

(* A receiver that is off misses the start bit; so may one that an earlier *)
(* frame has put out of step.                                              *)
HostSend ==
    /\ sent < MaxRecv
    /\ rxShift = Nothing
    /\ sent' = sent + 1
    /\ rxShift' \in {Garbled} \union (IF enabled THEN {sent + 1} ELSE {})
    /\ UNCHANGED <<program, enabled, tx, rxFifo, accepted, lanes, sample, got>>

(* Mutant: a full FIFO takes one more byte. *)
ReceiveOverfull(byte) ==
    rxFifo' = Append(rxFifo, byte) /\ accepted' = Append(accepted, byte)

(* A full FIFO drops the byte. *)
Receive(byte) ==
    IF Len(rxFifo) < RxDepth
    THEN rxFifo' = Append(rxFifo, byte) /\ accepted' = Append(accepted, byte)
    ELSE UNCHANGED <<rxFifo, accepted>>

(* The frame ends.  The rest of a frame yields a frame error, or a byte    *)
(* nobody sent.                                                            *)
RxDone ==
    /\ rxShift # Nothing
    /\ rxShift' = Nothing
    /\ \/ enabled /\ nco > 0 /\ Receive(rxShift)
       \/ /\ rxShift = Garbled \/ ~enabled \/ nco = 0
          /\ UNCHANGED <<rxFifo, accepted>>
    /\ UNCHANGED <<program, enabled, tx, sent, lanes, sample, got>>

(* Mutant: TXIDLE looks at the FIFO and not at the transmitter. *)
StatusFifoOnly ==
    {s \in Status :
        \/ s = "txfull" /\ Len(txFifo) = TxDepth
        \/ s = "txidle" /\ txFifo = <<>>
        \/ s = "rxempty" /\ rxFifo = <<>>}

StatusNow ==
    {s \in Status :
        \/ s = "txfull" /\ Len(txFifo) = TxDepth
        \/ s = "txidle" /\ (enabled => txShift = Nothing) /\ txFifo = <<>>
        \/ s = "rxempty" /\ rxFifo = <<>>}

-------------------------------------------------------------------------------
(***************************************************************************)
(* A read of the line of STATUS and RDATA.  Reading RDATA pops the RX      *)
(* FIFO; an empty FIFO reads as 0.                                         *)
(***************************************************************************)
Goto(label) ==
    /\ pc' = label
    /\ lanes' = IF label \in Reading THEN {"status", "data"} ELSE {}

StatusLane ==
    /\ "status" \in lanes
    /\ lanes' = lanes \ {"status"}
    /\ sample' = [sample EXCEPT !.status = StatusNow]
    /\ UNCHANGED <<program, enabled, tx, rx, got>>

(* Mutant: the read leaves the byte in the FIFO. *)
DataLaneNoPop ==
    /\ "data" \in lanes
    /\ lanes' = lanes \ {"data"}
    /\ sample' = [sample EXCEPT !.data = IF rxFifo = <<>> THEN 0 ELSE Head(rxFifo)]
    /\ UNCHANGED <<program, enabled, tx, rx, got>>

DataLane ==
    /\ "data" \in lanes
    /\ lanes' = lanes \ {"data"}
    /\ IF rxFifo = <<>>
       THEN sample' = [sample EXCEPT !.data = 0] /\ UNCHANGED rxFifo
       ELSE sample' = [sample EXCEPT !.data = Head(rxFifo)] /\ rxFifo' = Tail(rxFifo)
    /\ UNCHANGED <<program, enabled, tx, rxShift, sent, accepted, got>>

-------------------------------------------------------------------------------
(***************************************************************************)
(* The calls of the program.                                               *)
(***************************************************************************)

(* uart_init refuses an increment that does not fit CTRL.NCO. *)
Fits == nco % 2^NcoWidth = nco

(* _write sets the UART up at every call, and returns -1 if it cannot. *)
CallWrite ==
    /\ pc = "idle"
    /\ \E n \in 1..(MaxSend - written) : todo' = IF Fits THEN n ELSE 0
    /\ Goto(IF Fits THEN "disable" ELSE "idle")
    /\ UNCHANGED <<inited, nco, enabled, tx, rx, sample, got>>

(* _putchar sets it up once, and drops the character if it cannot. *)
CallPutchar ==
    /\ pc = "idle"
    /\ written < MaxSend
    /\ inited' = (inited \/ Fits)
    /\ todo' = IF inited' THEN 1 ELSE 0
    /\ Goto(IF inited THEN "poll full" ELSE IF Fits THEN "disable" ELSE "idle")
    /\ UNCHANGED <<nco, enabled, tx, rx, sample, got>>

(* "Must be called before the first write to any of the UART registers". *)
CallGetchar ==
    /\ pc = "idle"
    /\ enabled
    /\ Len(got) < MaxRecv
    /\ Goto("poll empty")
    /\ UNCHANGED <<todo, inited, nco, enabled, tx, rx, sample, got>>

-------------------------------------------------------------------------------
(***************************************************************************)
(* uart_init: CTRL = 0, FIFO_CTRL = RXRST | TXRST, CTRL = NCO | TX | RX.   *)
(***************************************************************************)

(* A disabled transmitter forgets its byte; a disabled receiver misses the *)
(* frame it was in.                                                        *)
Disable ==
    /\ pc = "disable"
    /\ enabled' = FALSE
    /\ txShift' = Nothing
    /\ rxShift' = IF rxShift = Nothing THEN Nothing ELSE Garbled
    /\ Goto("reset fifos")
    /\ UNCHANGED <<todo, inited, nco, txFifo, wire, written, rxFifo, sent,
                   accepted, sample, got>>

ResetFifos ==
    /\ pc = "reset fifos"
    /\ txFifo' = <<>>
    /\ rxFifo' = <<>>
    /\ accepted' = got
    /\ Goto("enable")
    /\ UNCHANGED <<todo, inited, nco, enabled, txShift, wire, written, rxShift,
                   sent, sample, got>>

(* Mutant: CTRL is written back without the TX and RX bits. *)
EnableNothing ==
    /\ pc = "enable"
    /\ Goto("poll full")
    /\ UNCHANGED <<todo, inited, nco, enabled, tx, rx, sample, got>>

Enable ==
    /\ pc = "enable"
    /\ enabled' = TRUE
    /\ Goto("poll full")
    /\ UNCHANGED <<todo, inited, nco, tx, rx, sample, got>>

-------------------------------------------------------------------------------
(***************************************************************************)
(* uart_putchar, uart_write and uart_getchar.                              *)
(***************************************************************************)
PollFull ==
    /\ pc = "poll full"
    /\ lanes = {}
    /\ Goto(IF "txfull" \in sample.status THEN "poll full" ELSE "write data")
    /\ UNCHANGED <<todo, inited, nco, enabled, tx, rx, sample, got>>

(* A full TX FIFO drops the byte. *)
WriteData ==
    /\ pc = "write data"
    /\ written' = written + 1
    /\ txFifo' = IF Len(txFifo) < TxDepth THEN Append(txFifo, written') ELSE txFifo
    /\ Goto("poll idle")
    /\ UNCHANGED <<todo, inited, nco, enabled, txShift, wire, rx, sample, got>>

(* Mutant: uart_putchar returns once the byte is in the FIFO. *)
PollNotFull ==
    /\ pc = "poll idle"
    /\ lanes = {}
    /\ todo' = todo - 1
    /\ Goto(IF todo = 1 THEN "idle" ELSE "poll full")
    /\ UNCHANGED <<inited, nco, enabled, tx, rx, sample, got>>

PollIdle ==
    /\ pc = "poll idle"
    /\ lanes = {}
    /\ IF "txidle" \in sample.status
       THEN todo' = todo - 1 /\ Goto(IF todo = 1 THEN "idle" ELSE "poll full")
       ELSE todo' = todo /\ Goto("poll idle")
    /\ UNCHANGED <<inited, nco, enabled, tx, rx, sample, got>>

PollEmpty ==
    /\ pc = "poll empty"
    /\ lanes = {}
    /\ Goto(IF "rxempty" \in sample.status THEN "poll empty" ELSE "read data")
    /\ UNCHANGED <<todo, inited, nco, enabled, tx, rx, sample, got>>

ReadData ==
    /\ pc = "read data"
    /\ lanes = {}
    /\ got' = Append(got, sample.data)
    /\ Goto("idle")
    /\ UNCHANGED <<todo, inited, nco, enabled, tx, rx, sample>>

-------------------------------------------------------------------------------
Driver ==
    \/ StatusLane \/ DataLane
    \/ Disable \/ ResetFifos \/ Enable
    \/ PollFull \/ WriteData \/ PollIdle
    \/ PollEmpty \/ ReadData

Next ==
    \/ CallWrite \/ CallPutchar \/ CallGetchar
    \/ Driver
    \/ TxLoad \/ TxDone
    \/ HostSend \/ RxDone

Spec == Init /\ [][Next]_vars

(* The processor and the transmitter do not stop.  The host may. *)
Fairness ==
    /\ WF_vars(Driver)
    /\ WF_vars(TxLoad)
    /\ WF_vars(TxDone)

FairSpec == Spec /\ Fairness

-------------------------------------------------------------------------------
(* Every register and history holds a value it can hold. *)
TypeOK ==
    /\ nco \in Nco
    /\ inited \in BOOLEAN
    /\ enabled \in BOOLEAN
    /\ txFifo \in Seq(Byte) /\ Len(txFifo) <= TxDepth
    /\ txShift \in Byte \union {Nothing}
    /\ wire \in Seq(Byte)
    /\ rxShift \in Byte \union {Nothing, Garbled}
    /\ rxFifo \in Seq(Byte \union {Garbled}) /\ Len(rxFifo) <= RxDepth
    /\ sent \in Nat
    /\ pc \in Control
    /\ todo \in Nat
    /\ lanes \subseteq {"status", "data"}
    /\ sample \in [status : SUBSET Status, data : Byte \union {0, Garbled}]
    /\ written \in Nat
    /\ got \in Seq(Byte \union {0, Garbled})
    /\ accepted \in Seq(Byte \union {0, Garbled})

(* The bytes on their way: on the wire, in the transmitter, in the FIFO.   *)
InTransmitter == IF txShift = Nothing THEN <<>> ELSE <<txShift>>
Line == wire \o InTransmitter \o txFifo

(* Every byte the program writes goes out once and in order.  _write       *)
(* resets the UART, FIFOs and transmitter included, at every call, and the *)
(* previous call must have left nothing behind that the reset would lose.  *)
TxInOrder == Len(Line) = written /\ \A i \in 1..written : Line[i] = i

(* uart.h: "Writes the complete buffer to the UART and wait for            *)
(* transmision to complete."  Between calls nothing is left to transmit.   *)
WriteComplete == pc = "idle" => Len(wire) = written

(* Whatever uart_getchar returns, it returns no byte of the host twice and *)
(* no earlier byte after a later one: not across a reset of the FIFOs, nor *)
(* when the poll and the read take bytes from the same FIFO.               *)
RxOrder ==
    \A i, j \in 1..Len(got) :
        i < j /\ got[i] \in Byte /\ got[j] \in Byte => got[i] < got[j]

(* uart.c: "Read 1 byte from the RX FIFO."  The bytes the FIFO accepted    *)
(* are returned one by one: none is taken from it and thrown away.         *)
EveryByteReturned == pc = "idle" => got \o rxFifo = accepted

(* A call that transmits returns, unless the baud generator stands still.  *)
Transmitting == pc \notin {"idle", "poll empty", "read data"}
CallsReturn == nco # 0 => (Transmitting ~> pc = "idle")
===============================================================================
