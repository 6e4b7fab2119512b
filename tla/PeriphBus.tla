------------------------------- MODULE PeriphBus -------------------------------
(***************************************************************************)
(* The peripheral bus of X-ALP: the path of a transaction from the masters *)
(* of the AXI crossbar to the registers of the peripherals.                *)
(*                                                                         *)
(*   axi_xbar -> axi_to_detailed_mem -> mem_stream_to_banks_detailed       *)
(*            -> periph_to_reg (one per 32-bit lane) -> reg_mux            *)
(*            -> addr_decode -> reg_demux -> peripheral                    *)
(*                                                                         *)
(* A 64-bit AXI line is served by two 32-bit lanes ("banks").  Each action *)
(* is a valid/ready handshake of the synchronous circuit; handshakes that  *)
(* happen in one cycle appear in some order.  All transactions have one    *)
(* beat and a port holds one transaction at a time.                        *)
(***************************************************************************)
EXTENDS Integers, Sequences, FiniteSets

CONSTANTS
    Reader,         \* AR channels of the crossbar masters
    Writer,         \* AW/W channels of the crossbar masters
    NoPort,         \* marks "no port"
    NoReq,          \* marks "no transaction"
    Line,           \* the 64-bit lines accessed: their number within the bus
    ReadSize,       \* log2 of the bytes a read asks for: 2 or 3
    SlaveOf,        \* SlaveOf[l]: the slave that RegMap names for line l, or Unmapped
    Unmapped,       \* marks a line no rule of RegMap matches
    DefaultSlave,   \* the slave of index 0, selected for an unmapped line
    Dead,           \* slaves that never raise ready
    NoReg           \* pairs <<l, b>> where the selected slave holds no register

Bank == {0, 1}
BytesPerBank == 4
Port == Reader \union Writer

Write == "write"
Read == "read"
Dir(p) == IF p \in Writer THEN Write ELSE Read

(* A read names a size and the word it starts at; a write names, per lane, *)
(* whether its strobes are off, cover the register or cover part of it.    *)
Strobe == {"none", "part", "full"}
ReadReq  == [dir : {Read}, line : Line, word : Bank, size : ReadSize]
WriteReq == [dir : {Write}, line : Line, strb : [Bank -> Strobe]]
Request(p) ==
    IF p \in Writer THEN WriteReq
    ELSE {r \in ReadReq : r.size = 3 => r.word = 0}

ASSUME PortAssumption ==
    /\ Reader \cap Writer = {}
    /\ NoPort \notin Port
    /\ NoReq \notin ReadReq \union WriteReq

ASSUME MapAssumption ==
    /\ Line \subseteq Nat
    /\ ReadSize \subseteq {2, 3}
    /\ NoReg \subseteq Line \X Bank

(***************************************************************************)
(* Parameters the wrapper axi_to_reg_v2 gives the converter.               *)
(***************************************************************************)
MaxTransTwo == 2            \* mutant: one credit more than response slots
MaxTrans == 1               \* BufDepth: transactions in the banks at a time
MetaDepthOne == 1           \* mutant: BufDepth, without the 1
MetaDepth == 2              \* 1 + BufDepth

VARIABLES
    req,        \* req[p]: the transaction p waits for, or NoReq
    head,       \* head[d]: the port the crossbar has put on channel d, or NoPort
    metaSel,    \* meta_sel_q: the direction served last
    cur,        \* the port whose transaction the fork is handing on, or NoPort
    left,       \* the outputs of the fork that did not take it yet
    metaq,      \* i_meta_buf with i_sel_buf: transactions in order of acceptance
    cnt,        \* cnt_q: transactions in the banks
    bankReq,    \* bankReq[b]: the port in the request FIFO of lane b, or NoPort
    owner,      \* the lane whose access is on the register bus, or NoBank
    rr,         \* rr_q: the lane the register arbiter favours
    rvalid,     \* rvalid[b]: the response in the output register of lane b
    bankRsp,    \* bankRsp[b]: the response in the response FIFO of lane b
    hits,       \* history: accesses made on each lane by the current transaction
    ans         \* ans[p]: the last answer of p, "none" while it waits

fork == <<cur, left, metaSel>>
lanes == <<bankReq, owner, rr, rvalid, bankRsp, hits>>
vars == <<req, head, metaSel, cur, left, metaq, cnt, bankReq, owner, rr,
          rvalid, bankRsp, hits, ans>>

NoBank == -1
NoRsp == [port |-> NoPort, err |-> FALSE]
Response == [port : Port, err : BOOLEAN] \union {NoRsp}

Init ==
    /\ req = [p \in Port |-> NoReq]
    /\ head = [d \in {Read, Write} |-> NoPort]
    /\ metaSel = Read
    /\ cur = NoPort
    /\ left = {}
    /\ metaq = <<>>
    /\ cnt = 0
    /\ bankReq = [b \in Bank |-> NoPort]
    /\ owner = NoBank
    /\ rr = 0
    /\ rvalid = [b \in Bank |-> NoRsp]
    /\ bankRsp = [b \in Bank |-> NoRsp]
    /\ hits = [b \in Bank |-> 0]
    /\ ans = [p \in Port |-> "none"]

-------------------------------------------------------------------------------
(***************************************************************************)
(* Which accesses a transaction makes and which of them fail.              *)
(***************************************************************************)

(* A write lane without strobes is acknowledged before the register bus;   *)
(* a read accesses every lane, whatever part of the line it asks for.      *)
ZeroWrite(r, b) == r.dir = Write /\ r.strb[b] = "none"
Lanes(r) == {b \in Bank : ~ZeroWrite(r, b)}

Slave(l) == IF SlaveOf[l] = Unmapped THEN DefaultSlave ELSE SlaveOf[l]

(* addrmiss and wr_err of a register block. *)
Fault(r, b) ==
    \/ <<r.line, b>> \in NoReg
    \/ r.dir = Write /\ r.strb[b] = "part"

(* meta_buf_size_enable: `%` and `/` bind alike, `+` binds tighter than    *)
(* `<<`, so the offset is the line number within 64 bytes and the end of   *)
(* the access is (offset + 1) << size.                                     *)
SizeEnable(r, b) ==
    LET off == r.line % 8
    IN  /\ b * BytesPerBank + BytesPerBank > off
        /\ b * BytesPerBank < (off + 1) * 2^r.size

BankStrb(r, b) == r.strb[b] # "none"

(* Mutant: the errors of the upper lane are masked. *)
ErrLanesLow(r) ==
    {b \in {0} : IF r.dir = Write THEN BankStrb(r, b) ELSE SizeEnable(r, b)}

(* The lanes whose errors are reported. *)
ErrLanes(r) ==
    {b \in Bank : IF r.dir = Write THEN BankStrb(r, b) ELSE SizeEnable(r, b)}

-------------------------------------------------------------------------------
(***************************************************************************)
(* Masters and crossbar.                                                   *)
(***************************************************************************)
Ask(p) ==
    /\ req[p] = NoReq
    /\ \E r \in Request(p) : req' = [req EXCEPT ![p] = r]
    /\ ans' = [ans EXCEPT ![p] = "none"]
    /\ UNCHANGED <<head, fork, metaq, cnt, lanes>>

(* A port that waits and whose transaction was not taken by the fork yet. *)
InMeta(p) == \E i \in 1..Len(metaq) : metaq[i] = p
Waiting(p) ==
    /\ req[p] # NoReq
    /\ p # cur
    /\ ~InMeta(p)

(* The arbiter of axi_mux puts a waiting port on its channel and keeps it  *)
(* there until the converter takes the transaction.                        *)
Arbitrate(p) ==
    /\ head[Dir(p)] = NoPort
    /\ Waiting(p)
    /\ head' = [head EXCEPT ![Dir(p)] = p]
    /\ UNCHANGED <<req, fork, metaq, cnt, lanes, ans>>

-------------------------------------------------------------------------------
(***************************************************************************)
(* axi_to_detailed_mem: read/write arbitration and the fork.               *)
(***************************************************************************)

(* meta_sel_d: the only valid channel, or the one not served last; locked  *)
(* until the fork is through.                                              *)
Selected(d) ==
    /\ head[d] # NoPort
    /\ \A e \in {Read, Write} \ {d} : head[e] # NoPort => metaSel = e

Select(d) ==
    /\ cur = NoPort
    /\ Selected(d)
    /\ cur' = head[d]
    /\ metaSel' = d
    /\ left' = {"meta", "mem"}
    /\ UNCHANGED <<req, head, metaq, cnt, lanes, ans>>

(* The fork forgets a transaction, and its channel is free again, when the *)
(* last of its outputs has taken it.                                       *)
Taken(output) ==
    /\ left' = left \ {output}
    /\ IF left = {output}
       THEN /\ cur' = NoPort
            /\ head' = [head EXCEPT ![Dir(cur)] = NoPort]
       ELSE UNCHANGED <<cur, head>>

ForkMeta ==
    /\ cur # NoPort
    /\ "meta" \in left
    /\ Len(metaq) < MetaDepth
    /\ metaq' = Append(metaq, cur)
    /\ Taken("meta")
    /\ UNCHANGED <<req, metaSel, cnt, lanes, ans>>

(* Mutant: a request does not spend its credit. *)
ForkMemNoCredit ==
    /\ cur # NoPort
    /\ "mem" \in left
    /\ cnt < MaxTrans
    /\ \A b \in Bank : bankReq[b] = NoPort /\ bankRsp[b] = NoRsp
    /\ bankReq' = [b \in Bank |-> cur]
    /\ Taken("mem")
    /\ UNCHANGED <<req, metaSel, metaq, cnt, owner, rr, rvalid, bankRsp, hits, ans>>

(* mem_stream_to_banks_detailed takes a request when it has a credit and   *)
(* the FIFOs of all lanes have room.                                       *)
ForkMem ==
    /\ cur # NoPort
    /\ "mem" \in left
    /\ cnt < MaxTrans
    /\ \A b \in Bank : bankReq[b] = NoPort /\ bankRsp[b] = NoRsp
    /\ cnt' = cnt + 1
    /\ bankReq' = [b \in Bank |-> cur]
    /\ Taken("mem")
    /\ UNCHANGED <<req, metaSel, metaq, owner, rr, rvalid, bankRsp, hits, ans>>

-------------------------------------------------------------------------------
(***************************************************************************)
(* The lanes: periph_to_reg registers the response of a granted access and *)
(* presents it for one cycle.  The cycle is the step that empties rvalid;  *)
(* no access of the lane is granted before it.                             *)
(***************************************************************************)
Granted(b, err) ==
    /\ rvalid[b] = NoRsp
    /\ rvalid' = [rvalid EXCEPT ![b] = [port |-> bankReq[b], err |-> err]]
    /\ bankReq' = [bankReq EXCEPT ![b] = NoPort]

SkipZeroWrite(b) ==
    /\ bankReq[b] # NoPort
    /\ ZeroWrite(req[bankReq[b]], b)
    /\ Granted(b, FALSE)
    /\ UNCHANGED <<req, head, fork, metaq, cnt, owner, rr, bankRsp, hits, ans>>

Requests(b) == bankReq[b] # NoPort /\ ~ZeroWrite(req[bankReq[b]], b)

(* Mutant: the arbiter waits for the lane it favours. *)
RegIssueFavoured(b) ==
    /\ owner = NoBank
    /\ Requests(b)
    /\ b = rr
    /\ owner' = b
    /\ hits' = [hits EXCEPT ![b] = @ + 1]
    /\ UNCHANGED <<req, head, fork, metaq, cnt, bankReq, rr, rvalid, bankRsp, ans>>

(* reg_mux locks the bus to a lane, and the slave that addr_decode selects *)
(* performs the access.                                                    *)
RegIssue(b) ==
    /\ owner = NoBank
    /\ Requests(b)
    /\ b = rr \/ ~Requests(1 - b)
    /\ owner' = b
    /\ hits' = [hits EXCEPT ![b] = @ + 1]
    /\ UNCHANGED <<req, head, fork, metaq, cnt, bankReq, rr, rvalid, bankRsp, ans>>

(* The slave raises ready.  rr_q moves on to the other lane if it waits.   *)
RegReady(b) ==
    /\ owner = b
    /\ Slave(req[bankReq[b]].line) \notin Dead
    /\ Granted(b, Fault(req[bankReq[b]], b))
    /\ owner' = NoBank
    /\ rr' = IF Requests(1 - b) THEN 1 - b ELSE b
    /\ UNCHANGED <<req, head, fork, metaq, cnt, bankRsp, hits, ans>>

(* The response FIFO takes the registered response, or loses it if full:   *)
(* periph_to_reg cannot be held back.                                      *)
Collect(b) ==
    /\ rvalid[b] # NoRsp
    /\ rvalid' = [rvalid EXCEPT ![b] = NoRsp]
    /\ bankRsp' = [bankRsp EXCEPT ![b] = IF @ = NoRsp THEN rvalid[b] ELSE @]
    /\ UNCHANGED <<req, head, fork, metaq, cnt, bankReq, owner, rr, hits, ans>>

(* The responses of all lanes join with the oldest transaction, which      *)
(* answers on B or R.                                                      *)
Answer ==
    /\ metaq # <<>>
    /\ \A b \in Bank : bankRsp[b] # NoRsp
    /\ LET p == Head(metaq)
       IN  /\ ans' = [ans EXCEPT ![p] =
                        IF \E b \in ErrLanes(req[p]) : bankRsp[b].err
                        THEN "slverr" ELSE "okay"]
           /\ req' = [req EXCEPT ![p] = NoReq]
    /\ metaq' = Tail(metaq)
    /\ cnt' = cnt - 1
    /\ bankRsp' = [b \in Bank |-> NoRsp]
    /\ hits' = [b \in Bank |-> 0]
    /\ UNCHANGED <<head, fork, bankReq, owner, rr, rvalid>>

-------------------------------------------------------------------------------
BankStep(b) == SkipZeroWrite(b) \/ RegIssue(b) \/ RegReady(b) \/ Collect(b)

Next ==
    \/ \E p \in Port : Ask(p) \/ Arbitrate(p)
    \/ \E d \in {Read, Write} : Select(d)
    \/ ForkMeta
    \/ ForkMem
    \/ \E b \in Bank : BankStep(b)
    \/ Answer

Spec == Init /\ [][Next]_vars

(* Every handshake of the circuit that can happen does.  The arbiter of    *)
(* axi_mux is a round robin, so a port that waits is not passed over for   *)
(* ever.  Masters are free never to ask, and accept their answers.         *)
Fairness ==
    /\ \A p \in Port : SF_vars(Arbitrate(p))
    /\ \A d \in {Read, Write} : WF_vars(Select(d))
    /\ WF_vars(ForkMeta)
    /\ WF_vars(ForkMem)
    /\ \A b \in Bank : WF_vars(BankStep(b))
    /\ WF_vars(Answer)

FairSpec == Spec /\ Fairness

-------------------------------------------------------------------------------
(***************************************************************************)
(* Safety.                                                                 *)
(***************************************************************************)

(* Every register of the path holds a value it can hold.                   *)
TypeOK ==
    /\ req \in [Port -> ReadReq \union WriteReq \union {NoReq}]
    /\ \A p \in Port : req[p] # NoReq => req[p] \in Request(p)
    /\ head \in [{Read, Write} -> Port \union {NoPort}]
    /\ metaSel \in {Read, Write}
    /\ cur \in Port \union {NoPort}
    /\ left \subseteq {"meta", "mem"}
    /\ metaq \in Seq(Port)
    /\ cnt \in Nat
    /\ bankReq \in [Bank -> Port \union {NoPort}]
    /\ owner \in Bank \union {NoBank}
    /\ rr \in Bank
    /\ rvalid \in [Bank -> Response]
    /\ bankRsp \in [Bank -> Response]
    /\ hits \in [Bank -> Nat]
    /\ ans \in [Port -> {"none", "okay", "slverr"}]

(* The response of a lane cannot be held back, so the credit counter of    *)
(* mem_stream_to_banks_detailed has to guarantee room in the response FIFO *)
(* whenever one arrives.                                                   *)
NoResponseLost == \A b \in Bank : rvalid[b] # NoRsp => bankRsp[b] = NoRsp

(* Responses carry no tag: the join pairs them with the oldest transaction *)
(* of the meta buffer.  What it pairs must belong together, on all lanes.  *)
ResponsesMatch ==
    metaq # <<>> =>
        \A b \in Bank : bankRsp[b] # NoRsp => bankRsp[b].port = Head(metaq)

(* The meta buffer never holds up the fork: it has room for every          *)
(* transaction the fork can be handing on.                                 *)
MetaHasRoom == "meta" \in left => Len(metaq) < MetaDepth

-------------------------------------------------------------------------------
(***************************************************************************)
(* What a step may not do.                                                 *)
(***************************************************************************)
Answered(p) == req[p] # NoReq /\ req'[p] = NoReq

(* A write is answered with an error exactly when one of the lanes it      *)
(* strobes has no register or a register it only covers in part; the lane  *)
(* it leaves alone does not count.                                         *)
WriteErrorExact ==
    [][\A p \in Writer : Answered(p) =>
          (ans'[p] = "slverr" <=>
             \E b \in Bank : BankStrb(req[p], b) /\ Fault(req[p], b))]_vars

(* bus_subsystem.sv: "Non-matching addresses are directed to an error      *)
(* slave": a transaction that accesses a line no rule matches fails.       *)
UnmappedIsError ==
    [][\A p \in Port :
          Answered(p) /\ Lanes(req[p]) # {} /\ SlaveOf[req[p].line] = Unmapped
            => ans'[p] = "slverr"]_vars

(* axi_to_detailed_mem.sv: "Set active read banks based on size and        *)
(* address offset: (bank.end > addr) && (bank.start < addr+size)", "Ensure *)
(* only active banks are used": a read reports the errors of the words it  *)
(* asks for and of no others.                                              *)
ActiveBanks(r) ==
    {b \in Bank : /\ b * BytesPerBank + BytesPerBank > r.word * BytesPerBank
                  /\ b * BytesPerBank < r.word * BytesPerBank + 2^r.size}
ReadErrorExact ==
    [][\A p \in Reader : Answered(p) =>
          (ans'[p] = "slverr" <=> \E b \in ActiveBanks(req[p]) : Fault(req[p], b))]_vars

-------------------------------------------------------------------------------
(***************************************************************************)
(* Refinement.                                                             *)
(***************************************************************************)

(* The port whose transaction is in the lanes. *)
InService ==
    IF bankReq[0] # NoPort THEN bankReq[0]
    ELSE IF rvalid[0] # NoRsp THEN rvalid[0].port
    ELSE bankRsp[0].port

Flagged(r) == \E b \in ErrLanes(r) : ~ZeroWrite(r, b) /\ Fault(r, b)

Serial == INSTANCE SerialPort WITH serving <- InService

(* The pipeline of FIFOs, forks and joins is one transaction at a time:    *)
(* accesses of two transactions never interleave on the register bus, no   *)
(* access is made twice, and no answer overtakes an access it depends on.  *)
ImplementsSerialPort == Serial!SSpec

-------------------------------------------------------------------------------
(***************************************************************************)
(* Liveness.                                                               *)
(***************************************************************************)
TouchesDead == \E p \in Port : req[p] # NoReq /\ Slave(req[p].line) \in Dead

(* As long as nobody asks a slave that never raises ready, every           *)
(* transaction is answered: reads do not starve writes, lanes do not       *)
(* starve each other, and nobody waits for everybody.                      *)
EveryRequestAnswered ==
    [](~TouchesDead) => \A p \in Port : (req[p] # NoReq) ~> (req[p] = NoReq)
===============================================================================
