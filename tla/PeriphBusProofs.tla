---------------------------- MODULE PeriphBusProofs ----------------------------
(***************************************************************************)
(* Proofs about PeriphBus, for any set of ports, lines and slaves: its     *)
(* safety, and that it implements SerialPort.                              *)
(*                                                                         *)
(* NoResponseLost and ResponsesMatch are not inductive: that a response    *)
(* finds room in its FIFO follows from the credit having been taken when   *)
(* the lanes were empty, and that it meets the right transaction from the  *)
(* meta buffer and the lanes being filled in the same order although the   *)
(* fork may serve them in either.  FlowInv states both.                    *)
(***************************************************************************)
EXTENDS PeriphBus, SequenceTheorems, TLAPS

(* Nothing is in lane b. *)
Idle(b) == bankReq[b] = NoPort /\ rvalid[b] = NoRsp /\ bankRsp[b] = NoRsp

(* The access of p is in exactly one place of lane b. *)
Holds(b, p) ==
    \/ bankReq[b] = p /\ rvalid[b] = NoRsp /\ bankRsp[b] = NoRsp
    \/ bankReq[b] = NoPort /\ rvalid[b].port = p /\ bankRsp[b] = NoRsp
    \/ bankReq[b] = NoPort /\ rvalid[b] = NoRsp /\ bankRsp[b].port = p

(* One credit: either the lanes are empty, or they all hold the oldest     *)
(* transaction, which is the one the fork handed to the lanes alone if the *)
(* meta buffer does not have it yet.                                       *)
CreditInv ==
    /\ cnt \in {0, 1}
    /\ cnt = 0 => \A b \in Bank : Idle(b)
    /\ cnt = 1 /\ metaq # <<>> => \A b \in Bank : Holds(b, metaq[1])
    /\ cnt = 1 /\ metaq = <<>> => left = {"meta"} /\ \A b \in Bank : Holds(b, cur)

(* The meta buffer holds the transaction in the lanes, and the one the     *)
(* fork has handed to the meta buffer alone.                               *)
QueueInv ==
    \/ left = {} /\ cur = NoPort /\ Len(metaq) = cnt
    \/ left = {"meta", "mem"} /\ cur \in Port /\ Len(metaq) = cnt
    \/ left = {"mem"} /\ cur \in Port /\ Len(metaq) = cnt + 1 /\ metaq[cnt + 1] = cur
    \/ left = {"meta"} /\ cur \in Port /\ cnt = 1 /\ metaq = <<>>

(* A port keeps its transaction from the channel to the answer; the one in *)
(* the lanes has left its channel, so no channel can ask for it again.     *)
LifeInv ==
    /\ \A d \in {Read, Write} : head[d] # NoPort =>
          Dir(head[d]) = d /\ req[head[d]] # NoReq
    /\ cur # NoPort => head[Dir(cur)] = cur
    /\ metaq # <<>> => req[metaq[1]] # NoReq
    /\ cnt = 1 /\ metaq # <<>> => \A d \in {Read, Write} : head[d] # metaq[1]

(* The lane that owns the register bus still has its access.               *)
OwnerInv == owner \in Bank => Requests(owner)

FlowInv == TypeOK /\ CreditInv /\ QueueInv /\ LifeInv /\ OwnerInv

-------------------------------------------------------------------------------
(* The transactions of a port are reads or writes, never the mark NoReq.   *)
LEMMA RequestType ==
    ASSUME NEW p \in Port
    PROVE  /\ Request(p) \subseteq ReadReq \union WriteReq
           /\ NoReq \notin Request(p)
BY PortAssumption DEF Request

(* The channels of the crossbar.                                           *)
LEMMA DirType == ASSUME NEW p \in Port PROVE Dir(p) \in {Read, Write}
BY DEF Dir

(* Forking off an output keeps the registers of the fork well typed.       *)
LEMMA TakenType ==
    ASSUME TypeOK, cur # NoPort, NEW output, Taken(output)
    PROVE  /\ left' \subseteq {"meta", "mem"}
           /\ cur' \in Port \union {NoPort}
           /\ head' \in [{Read, Write} -> Port \union {NoPort}]
<1>1. cur \in Port
  BY DEF TypeOK
<1>2. Dir(cur) \in {Read, Write}
  BY <1>1, DirType
<1> QED
  BY <1>1, <1>2 DEF Taken, TypeOK

(* A grant moves the access of a lane to its response register.            *)
LEMMA GrantedType ==
    ASSUME TypeOK, NEW b \in Bank, NEW err \in BOOLEAN,
           bankReq[b] # NoPort, Granted(b, err)
    PROVE  /\ bankReq' \in [Bank -> Port \union {NoPort}]
           /\ rvalid' \in [Bank -> Response]
BY DEF Granted, TypeOK, Response

(* A transaction the fork holds, or that is in a lane, still waits for its *)
(* answer.                                                                 *)
LEMMA CurWaits ==
    ASSUME FlowInv, cur # NoPort
    PROVE  cur \in Port /\ Dir(cur) \in {Read, Write} /\ req[cur] # NoReq
<1>1. cur \in Port
  BY DEF FlowInv, TypeOK
<1>2. Dir(cur) \in {Read, Write}
  BY <1>1, DirType
<1> QED
  BY <1>1, <1>2 DEF FlowInv, LifeInv

LEMMA BankWaits ==
    ASSUME FlowInv, NEW b \in Bank, bankReq[b] # NoPort
    PROVE  bankReq[b] \in Port /\ req[bankReq[b]] # NoReq
<1>1. bankReq[b] \in Port
  BY DEF FlowInv, TypeOK
<1>2. cnt = 1
  BY DEF FlowInv, CreditInv, Idle
<1>3. CASE metaq # <<>>
  <2>1. bankReq[b] = metaq[1]
    BY <1>2, <1>3 DEF FlowInv, CreditInv, Holds
  <2> QED
    BY <1>1, <1>3, <2>1 DEF FlowInv, LifeInv
<1>4. CASE metaq = <<>>
  <2>1. bankReq[b] = cur
    BY <1>2, <1>4 DEF FlowInv, CreditInv, Holds
  <2> QED
    BY <1>1, <2>1, CurWaits
<1> QED
  BY <1>3, <1>4

(* The meta buffer is a sequence of ports of length at most two.           *)
LEMMA MetaShape ==
    ASSUME FlowInv
    PROVE  /\ metaq \in Seq(Port)
           /\ Len(metaq) \in 0..2
           /\ Len(metaq) = 0 <=> metaq = <<>>
           /\ metaq # <<>> => metaq[1] \in Port /\ Head(metaq) = metaq[1]
<1>1. metaq \in Seq(Port)
  BY DEF FlowInv, TypeOK
<1>2. Len(metaq) \in 0..2
  <2>1. cnt = 0 \/ cnt = 1
    BY DEF FlowInv, CreditInv
  <2>2. Len(metaq) = cnt \/ Len(metaq) = cnt + 1 \/ metaq = <<>>
    BY DEF FlowInv, QueueInv
  <2>3. metaq = <<>> => Len(metaq) = 0
    BY <1>1, EmptySeq
  <2>4. CASE cnt = 0
    BY <2>2, <2>3, <2>4
  <2>5. CASE cnt = 1
    BY <2>2, <2>3, <2>5
  <2> QED
    BY <2>1, <2>4, <2>5
<1>3. Len(metaq) = 0 <=> metaq = <<>>
  BY <1>1, EmptySeq
<1>4. metaq # <<>> => metaq[1] \in Port /\ Head(metaq) = metaq[1]
  BY <1>1, <1>3
<1> QED
  BY <1>1, <1>2, <1>3, <1>4

-------------------------------------------------------------------------------
(* One lemma per action: the step preserves FlowInv.                       *)

LEMMA InitFlow == ASSUME Init PROVE FlowInv
<1>1. TypeOK
  <2>1. req \in [Port -> ReadReq \union WriteReq \union {NoReq}]
    BY DEF Init
  <2>2. \A p \in Port : req[p] # NoReq => req[p] \in Request(p)
    BY DEF Init
  <2>3. metaq \in Seq(Port)
    BY DEF Init
  <2> QED
    BY <2>1, <2>2, <2>3 DEF Init, TypeOK, Response, Bank, Read, Write
<1>2. CreditInv
  BY DEF Init, CreditInv, Idle
<1>3. QueueInv
  BY DEF Init, QueueInv
<1>4. LifeInv
  BY DEF Init, LifeInv
<1>5. OwnerInv
  BY DEF Init, OwnerInv, NoBank, Bank
<1> QED
  BY <1>1, <1>2, <1>3, <1>4, <1>5 DEF FlowInv

(* A port asks: it had no transaction, so nobody on the way is disturbed.  *)
LEMMA AskFlow == ASSUME FlowInv, NEW p \in Port, Ask(p) PROVE FlowInv'
<1> USE DEF fork, lanes
<1>0. PICK r \in Request(p) : req' = [req EXCEPT ![p] = r]
  BY DEF Ask
<1>1. UNCHANGED <<head, fork, metaq, cnt, lanes>> /\ req[p] = NoReq
  BY DEF Ask
<1>2. TypeOK
  BY DEF FlowInv
<1>3. r \in ReadReq \union WriteReq /\ r # NoReq
  BY RequestType
<1>4. \A q \in Port : req[q] # NoReq => req'[q] = req[q]
  BY <1>0, <1>1, <1>2 DEF TypeOK
<1>5. TypeOK'
  <2>1. req' \in [Port -> ReadReq \union WriteReq \union {NoReq}]
    BY <1>0, <1>2, <1>3 DEF TypeOK
  <2>2. \A q \in Port : req'[q] # NoReq => req'[q] \in Request(q)
    BY <1>0, <1>2 DEF TypeOK
  <2>3. ans' \in [Port -> {"none", "okay", "slverr"}]
    BY <1>2 DEF Ask, TypeOK
  <2> QED
    BY <1>1, <1>2, <2>1, <2>2, <2>3 DEF TypeOK
<1>6. CreditInv' /\ QueueInv'
  BY <1>1 DEF FlowInv, CreditInv, QueueInv, Idle, Holds
<1>7. LifeInv'
  <2>1. \A d \in {Read, Write} : head[d] \in Port \union {NoPort}
    BY <1>2 DEF TypeOK
  <2> QED
    BY <1>1, <1>4, <2>1, MetaShape DEF FlowInv, LifeInv
<1>8. OwnerInv'
  <2>1. ASSUME owner \in Bank PROVE Requests(owner)'
    <3>1. bankReq[owner] # NoPort /\ Requests(owner)
      BY <2>1 DEF FlowInv, OwnerInv, Requests
    <3>2. req'[bankReq[owner]] = req[bankReq[owner]]
      BY <1>4, <2>1, <3>1, BankWaits
    <3> QED
      BY <1>1, <3>1, <3>2 DEF Requests, ZeroWrite
  <2> QED
    BY <1>1, <2>1 DEF OwnerInv
<1> QED
  BY <1>5, <1>6, <1>7, <1>8 DEF FlowInv

(* The crossbar puts a port on a channel: one that is nowhere on the way.  *)
LEMMA ArbitrateFlow ==
    ASSUME FlowInv, NEW p \in Port, Arbitrate(p) PROVE FlowInv'
<1> USE DEF fork, lanes
<1>1. UNCHANGED <<req, fork, metaq, cnt, lanes, ans>>
  BY DEF Arbitrate
<1>2. TypeOK' /\ TypeOK
  BY DirType DEF Arbitrate, FlowInv, TypeOK
<1>3. CreditInv' /\ QueueInv'
  BY <1>1 DEF FlowInv, CreditInv, QueueInv, Idle, Holds
<1>4. LifeInv'
  <2>1. head' = [head EXCEPT ![Dir(p)] = p] /\ head[Dir(p)] = NoPort
    BY DEF Arbitrate
  <2>2. Dir(p) \in {Read, Write} /\ p # NoPort
    BY DirType, PortAssumption
  <2>3. req[p] # NoReq /\ (metaq # <<>> => p # metaq[1])
    BY MetaShape DEF Arbitrate, Waiting, InMeta
  <2>4. cur # NoPort => Dir(cur) \in {Read, Write} /\ head[Dir(cur)] = cur
    BY CurWaits DEF FlowInv, LifeInv
  <2>5. cur # NoPort => head'[Dir(cur)] = cur
    BY <1>2, <2>1, <2>2, <2>4 DEF TypeOK
  <2> QED
    BY <1>1, <1>2, <2>1, <2>2, <2>3, <2>5 DEF FlowInv, LifeInv, TypeOK
<1>5. OwnerInv'
  BY <1>1 DEF FlowInv, OwnerInv, Requests, ZeroWrite
<1> QED
  BY <1>2, <1>3, <1>4, <1>5 DEF FlowInv

(* The fork starts on a channel.                                           *)
LEMMA SelectFlow ==
    ASSUME FlowInv, NEW d \in {Read, Write}, Select(d) PROVE FlowInv'
<1> USE DEF fork, lanes
<1>1. /\ cur = NoPort /\ cur' = head[d] /\ head[d] # NoPort
      /\ left' = {"meta", "mem"}
      /\ UNCHANGED <<req, head, metaq, cnt, lanes, ans>>
  BY DEF Select, Selected
<1>2. TypeOK' /\ TypeOK
  BY DEF Select, FlowInv, TypeOK
<1>3. left = {} /\ Len(metaq) = cnt
  BY <1>1, PortAssumption DEF FlowInv, QueueInv
<1>4. cur' \in Port
  BY <1>1, <1>2 DEF TypeOK
<1>5. CreditInv'
  <2>1. cnt = 1 => metaq # <<>>
    BY <1>3, MetaShape
  <2> QED
    BY <1>1, <2>1 DEF FlowInv, CreditInv, Idle, Holds
<1>6. QueueInv'
  BY <1>1, <1>3, <1>4 DEF QueueInv
<1>7. LifeInv'
  BY <1>1 DEF FlowInv, LifeInv
<1>8. OwnerInv'
  BY <1>1 DEF FlowInv, OwnerInv, Requests, ZeroWrite
<1> QED
  BY <1>2, <1>5, <1>6, <1>7, <1>8 DEF FlowInv

(* When the fork is through, the channel is free; other channels are not   *)
(* touched and never held the same port.                                   *)
LEMMA TakenHead ==
    ASSUME FlowInv, cur # NoPort, NEW output, Taken(output), left = {output}
    PROVE  /\ \A d \in {Read, Write} : head'[d] # cur
           /\ \A d \in {Read, Write} : head'[d] \in {head[d], NoPort}
           /\ left' = {} /\ cur' = NoPort
<1>1. head' = [head EXCEPT ![Dir(cur)] = NoPort] /\ cur' = NoPort /\ left' = {}
  BY DEF Taken
<1>2. \A d \in {Read, Write} : head[d] = cur => d = Dir(cur)
  BY DEF FlowInv, LifeInv
<1>3. head \in [{Read, Write} -> Port \union {NoPort}]
  BY DEF FlowInv, TypeOK
<1> QED
  BY <1>1, <1>2, <1>3

(* The states of the fork are told apart by what is left to hand over.     *)
LEMMA ForkStates ==
    /\ {"meta", "mem"} # {} /\ {"meta"} # {} /\ {"mem"} # {}
    /\ {"meta", "mem"} # {"meta"} /\ {"meta", "mem"} # {"mem"}
    /\ {"meta"} # {"mem"}
<1>1. "meta" # "mem"
  OBVIOUS
<1> QED
  BY <1>1

(* An output that is not the last leaves the fork and the channels alone.  *)
LEMMA TakenKeeps ==
    ASSUME NEW output, Taken(output), left # {output}
    PROVE  cur' = cur /\ head' = head /\ left' = left \ {output}
BY DEF Taken

(* The meta buffer takes the transaction of the fork: before the lanes do, *)
(* or after them, when it becomes the oldest of an empty buffer.           *)
LEMMA ForkMetaFlow == ASSUME FlowInv, ForkMeta PROVE FlowInv'
<1> USE DEF lanes
<1>1. /\ cur # NoPort /\ "meta" \in left /\ Taken("meta")
      /\ metaq' = Append(metaq, cur)
      /\ UNCHANGED <<req, metaSel, cnt, lanes, ans>>
  BY DEF ForkMeta
<1>2. /\ TypeOK /\ metaq \in Seq(Port) /\ cur \in Port
      /\ Dir(cur) \in {Read, Write} /\ req[cur] # NoReq
  BY <1>1, CurWaits DEF FlowInv, TypeOK
<1>3. /\ metaq' \in Seq(Port)
      /\ Len(metaq') = Len(metaq) + 1
      /\ metaq'[Len(metaq) + 1] = cur
      /\ metaq' # <<>>
      /\ metaq # <<>> => metaq'[1] = metaq[1]
  BY <1>1, <1>2, AppendProperties, EmptySeq
<1>4. /\ left' \subseteq {"meta", "mem"}
      /\ cur' \in Port \union {NoPort}
      /\ head' \in [{Read, Write} -> Port \union {NoPort}]
  BY <1>1, <1>2, TakenType
<1>5. TypeOK'
  BY <1>1, <1>2, <1>3, <1>4 DEF TypeOK
<1>6. OwnerInv'
  BY <1>1 DEF FlowInv, OwnerInv, Requests, ZeroWrite
<1>7. CASE left = {"meta", "mem"}
  <2>1. left' = {"mem"} /\ cur' = cur /\ head' = head
    BY <1>1, <1>7, TakenKeeps
  <2>2. Len(metaq) = cnt
    BY <1>7, ForkStates DEF FlowInv, QueueInv
  <2>3. QueueInv'
    BY <1>1, <1>2, <1>3, <2>1, <2>2 DEF QueueInv
  <2>4. cnt = 1 => metaq # <<>>
    BY <2>2, EmptySeq
  <2>5. cnt = 0 => metaq'[1] = cur
    BY <1>3, <2>2
  <2>6. CreditInv'
    BY <1>1, <1>3, <2>4 DEF FlowInv, CreditInv, Idle, Holds
  <2>7. LifeInv'
    BY <1>1, <1>2, <1>3, <2>1, <2>4, <2>5 DEF FlowInv, LifeInv, CreditInv
  <2> QED
    BY <1>5, <1>6, <2>3, <2>6, <2>7 DEF FlowInv
<1>8. CASE left = {"meta"}
  <2>1. /\ left' = {} /\ cur' = NoPort
        /\ \A d \in {Read, Write} : head'[d] # cur
        /\ \A d \in {Read, Write} : head'[d] \in {head[d], NoPort}
    BY <1>1, <1>8, TakenHead
  <2>2. cnt = 1 /\ metaq = <<>>
    BY <1>8, ForkStates DEF FlowInv, QueueInv
  <2>3. Len(metaq') = 1 /\ metaq'[1] = cur
    BY <1>3, <2>2, EmptySeq
  <2>4. QueueInv'
    BY <1>1, <2>1, <2>2, <2>3 DEF QueueInv
  <2>5. CreditInv'
    BY <1>1, <1>3, <2>2, <2>3 DEF FlowInv, CreditInv, Idle, Holds
  <2>6. LifeInv'
    BY <1>1, <1>2, <1>3, <2>1, <2>3 DEF FlowInv, LifeInv
  <2> QED
    BY <1>5, <1>6, <2>4, <2>5, <2>6 DEF FlowInv
<1> QED
  BY <1>1, <1>7, <1>8 DEF FlowInv, QueueInv

(* The lanes take the transaction of the fork: the credit says that they   *)
(* are empty.                                                              *)
LEMMA ForkMemFlow == ASSUME FlowInv, ForkMem PROVE FlowInv'
<1>1. /\ cur # NoPort /\ "mem" \in left /\ Taken("mem")
      /\ cnt < MaxTrans /\ cnt' = cnt + 1
      /\ bankReq' = [b \in Bank |-> cur]
      /\ UNCHANGED <<req, metaSel, metaq, owner, rr, rvalid, bankRsp, hits, ans>>
  BY DEF ForkMem
<1>2. /\ TypeOK /\ metaq \in Seq(Port) /\ cur \in Port
      /\ Dir(cur) \in {Read, Write} /\ req[cur] # NoReq
  BY <1>1, CurWaits DEF FlowInv, TypeOK
<1>3. cnt = 0 /\ cnt' = 1 /\ \A b \in Bank : Idle(b)
  BY <1>1 DEF FlowInv, CreditInv, MaxTrans
<1>4. ASSUME NEW b \in Bank, NEW p, p = cur PROVE Holds(b, p)'
  BY <1>1, <1>3, <1>4 DEF Idle, Holds
<1>5. /\ left' \subseteq {"meta", "mem"}
      /\ cur' \in Port \union {NoPort}
      /\ head' \in [{Read, Write} -> Port \union {NoPort}]
  BY <1>1, <1>2, TakenType
<1>6. TypeOK'
  <2>1. bankReq' \in [Bank -> Port \union {NoPort}]
    BY <1>1, <1>2
  <2> QED
    BY <1>1, <1>2, <1>3, <1>5, <2>1 DEF TypeOK
<1>7. OwnerInv'
  <2>1. owner \notin Bank
    BY <1>3 DEF FlowInv, OwnerInv, Requests, Idle
  <2> QED
    BY <1>1, <2>1 DEF OwnerInv
<1>8. CASE left = {"meta", "mem"}
  <2>1. left' = {"meta"} /\ cur' = cur /\ head' = head
    BY <1>1, <1>8, TakenKeeps
  <2>2. Len(metaq) = 0
    BY <1>3, <1>8, ForkStates DEF FlowInv, QueueInv
  <2>3. metaq = <<>>
    BY <1>2, <2>2, EmptySeq
  <2>4. QueueInv'
    BY <1>1, <1>2, <1>3, <2>1, <2>3 DEF QueueInv
  <2>5. CreditInv'
    BY <1>1, <1>3, <1>4, <2>1, <2>3 DEF CreditInv, Holds
  <2>6. LifeInv'
    BY <1>1, <2>1, <2>3 DEF FlowInv, LifeInv
  <2> QED
    BY <1>6, <1>7, <2>4, <2>5, <2>6 DEF FlowInv
<1>9. CASE left = {"mem"}
  <2>1. /\ left' = {} /\ cur' = NoPort
        /\ \A d \in {Read, Write} : head'[d] # cur
        /\ \A d \in {Read, Write} : head'[d] \in {head[d], NoPort}
    BY <1>1, <1>9, TakenHead
  <2>2. Len(metaq) = 1 /\ metaq[1] = cur
    BY <1>3, <1>9, ForkStates DEF FlowInv, QueueInv
  <2>3. metaq # <<>>
    BY <1>2, <2>2, EmptySeq
  <2>4. QueueInv'
    BY <1>1, <1>3, <2>1, <2>2 DEF QueueInv
  <2>5. CreditInv'
    BY <1>1, <1>3, <1>4, <2>2, <2>3 DEF CreditInv, Holds
  <2>6. LifeInv'
    BY <1>1, <1>2, <2>1, <2>2 DEF FlowInv, LifeInv
  <2> QED
    BY <1>6, <1>7, <2>4, <2>5, <2>6 DEF FlowInv
<1> QED
  BY <1>1, <1>8, <1>9 DEF FlowInv, QueueInv

-------------------------------------------------------------------------------
(* An access moves within its lane: the request, the register, the FIFO.   *)

LEMMA GrantedHolds ==
    ASSUME FlowInv, NEW b \in Bank, bankReq[b] # NoPort, NEW err \in BOOLEAN,
           Granted(b, err), bankRsp' = bankRsp, NEW c \in Bank, NEW p \in Port
    PROVE  Holds(c, p) => Holds(c, p)'
<1>1. TypeOK
  BY DEF FlowInv
<1> QED
  BY <1>1, PortAssumption DEF Granted, Holds, TypeOK, NoRsp

(* A lane moves its access on, the rest of the path stands still: what is  *)
(* left to show is that the places of the lane are well typed.             *)
LEMMA LaneFlow ==
    ASSUME FlowInv, NEW b \in Bank, ~Idle(b),
           UNCHANGED <<req, head, fork, metaq, cnt, ans>>,
           \A c \in Bank, p \in Port : Holds(c, p) => Holds(c, p)'
    PROVE  CreditInv' /\ QueueInv' /\ LifeInv'
<1> USE DEF fork
<1>1. cnt = 1
  BY DEF FlowInv, CreditInv
<1>2. metaq # <<>> => metaq[1] \in Port
  BY MetaShape
<1>3. metaq = <<>> => cur \in Port
  BY <1>1, EmptySeq DEF FlowInv, QueueInv
<1>4. CreditInv'
  BY <1>1, <1>2, <1>3 DEF FlowInv, CreditInv
<1>5. QueueInv' /\ LifeInv'
  BY DEF FlowInv, QueueInv, LifeInv
<1> QED
  BY <1>4, <1>5

(* A write lane without strobes is acknowledged at once.                   *)
LEMMA SkipFlow ==
    ASSUME FlowInv, NEW b \in Bank, SkipZeroWrite(b) PROVE FlowInv'
<1>1. /\ Granted(b, FALSE) /\ bankReq[b] # NoPort /\ ZeroWrite(req[bankReq[b]], b)
      /\ UNCHANGED <<req, head, fork, metaq, cnt, owner, rr, bankRsp, hits, ans>>
  BY DEF SkipZeroWrite
<1>2. TypeOK
  BY DEF FlowInv
<1>3. TypeOK'
  BY <1>1, <1>2, GrantedType DEF TypeOK, fork
<1>4. CreditInv' /\ QueueInv' /\ LifeInv'
  <2>1. bankRsp' = bankRsp
    BY <1>1
  <2>2. ASSUME NEW c \in Bank, NEW p \in Port, Holds(c, p) PROVE Holds(c, p)'
    BY <1>1, <2>1, <2>2, GrantedHolds
  <2>3. ~Idle(b)
    BY <1>1 DEF Idle
  <2> QED
    BY <1>1, <2>2, <2>3, LaneFlow
<1>5. OwnerInv'
  <2>1. owner # b
    BY <1>1 DEF FlowInv, OwnerInv, Requests
  <2>2. \A c \in Bank \ {b} : bankReq'[c] = bankReq[c]
    BY <1>1, <1>2 DEF Granted, TypeOK
  <2> QED
    BY <1>1, <2>1, <2>2 DEF FlowInv, OwnerInv, Requests, ZeroWrite
<1> QED
  BY <1>3, <1>4, <1>5 DEF FlowInv

(* The register bus is given to a lane that requests it.                   *)
LEMMA IssueFlow ==
    ASSUME FlowInv, NEW b \in Bank, RegIssue(b) PROVE FlowInv'
<1> USE DEF fork
<1>1. /\ owner' = b /\ Requests(b)
      /\ UNCHANGED <<req, head, fork, metaq, cnt, bankReq, rr, rvalid, bankRsp, ans>>
  BY DEF RegIssue
<1>2. TypeOK'
  BY DEF RegIssue, FlowInv, TypeOK
<1>3. CreditInv' /\ QueueInv' /\ LifeInv'
  BY <1>1 DEF FlowInv, CreditInv, QueueInv, LifeInv, Idle, Holds
<1>4. OwnerInv'
  BY <1>1 DEF OwnerInv, Requests, ZeroWrite
<1> QED
  BY <1>2, <1>3, <1>4 DEF FlowInv

(* The slave answers the access on the register bus.                       *)
LEMMA ReadyFlow ==
    ASSUME FlowInv, NEW b \in Bank, RegReady(b) PROVE FlowInv'
<1>1. /\ owner = b /\ owner' = NoBank
      /\ Granted(b, Fault(req[bankReq[b]], b))
      /\ UNCHANGED <<req, head, fork, metaq, cnt, bankRsp, hits, ans>>
  BY DEF RegReady
<1>2. TypeOK
  BY DEF FlowInv
<1>3. bankReq[b] # NoPort
  BY <1>1 DEF FlowInv, OwnerInv, Requests
<1>4. Fault(req[bankReq[b]], b) \in BOOLEAN
  BY DEF Fault
<1>5. TypeOK'
  <2>1. 1 - b \in Bank
    BY DEF Bank
  <2>2. rr' \in Bank
    BY <2>1 DEF RegReady
  <2> QED
    BY <1>1, <1>2, <1>3, <1>4, <2>2, GrantedType DEF TypeOK, fork
<1>6. CreditInv' /\ QueueInv' /\ LifeInv'
  <2>1. bankRsp' = bankRsp
    BY <1>1
  <2>2. ASSUME NEW c \in Bank, NEW p \in Port, Holds(c, p) PROVE Holds(c, p)'
    BY <1>1, <1>3, <1>4, <2>1, <2>2, GrantedHolds
  <2>3. ~Idle(b)
    BY <1>3 DEF Idle
  <2> QED
    BY <1>1, <2>2, <2>3, LaneFlow
<1>7. OwnerInv'
  BY <1>1 DEF OwnerInv, NoBank, Bank
<1> QED
  BY <1>5, <1>6, <1>7 DEF FlowInv

(* The response FIFO takes the response: it is empty, because the lane     *)
(* holds one access only.                                                  *)
LEMMA CollectFlow ==
    ASSUME FlowInv, NEW b \in Bank, Collect(b) PROVE FlowInv'
<1>1. /\ rvalid[b] # NoRsp
      /\ rvalid' = [rvalid EXCEPT ![b] = NoRsp]
      /\ bankRsp' = [bankRsp EXCEPT ![b] = IF @ = NoRsp THEN rvalid[b] ELSE @]
      /\ UNCHANGED <<req, head, fork, metaq, cnt, bankReq, owner, rr, hits, ans>>
  BY DEF Collect
<1>2. TypeOK
  BY DEF FlowInv
<1>3. TypeOK'
  BY <1>1, <1>2 DEF TypeOK, Response, fork
<1>4. ASSUME NEW c \in Bank, NEW p \in Port, Holds(c, p) PROVE Holds(c, p)'
  BY <1>1, <1>2, <1>4, PortAssumption DEF TypeOK, Holds, NoRsp
<1>5. ~Idle(b)
  BY <1>1 DEF Idle
<1>6. CreditInv' /\ QueueInv' /\ LifeInv'
  BY <1>1, <1>4, <1>5, LaneFlow
<1>7. OwnerInv'
  BY <1>1 DEF FlowInv, OwnerInv, Requests, ZeroWrite
<1> QED
  BY <1>3, <1>6, <1>7 DEF FlowInv

(* The responses of all lanes meet the oldest transaction; lanes and       *)
(* credit are free again, and what the meta buffer still holds is the      *)
(* transaction the fork has on its hands.                                  *)
LEMMA AnswerFlow == ASSUME FlowInv, Answer PROVE FlowInv'
<1> USE DEF fork
<1> DEFINE p == metaq[1]
<1>1. /\ metaq # <<>>
      /\ \A b \in Bank : bankRsp[b] # NoRsp
      /\ metaq' = Tail(metaq) /\ cnt' = cnt - 1
      /\ bankRsp' = [b \in Bank |-> NoRsp]
      /\ hits' = [b \in Bank |-> 0]
      /\ UNCHANGED <<head, fork, bankReq, owner, rr, rvalid>>
  BY DEF Answer
<1>2. TypeOK /\ metaq \in Seq(Port) /\ p \in Port /\ p = Head(metaq)
  BY <1>1, MetaShape DEF FlowInv
<1>3. /\ req' = [req EXCEPT ![p] = NoReq]
      /\ ans' \in [Port -> {"none", "okay", "slverr"}]
  BY <1>1, <1>2 DEF Answer, TypeOK
<1>4. cnt = 1 /\ cnt' = 0
  BY <1>1 DEF FlowInv, CreditInv, Idle, Bank
<1>5. \A b \in Bank : bankReq[b] = NoPort /\ rvalid[b] = NoRsp
  <2>1. \A b \in Bank : Holds(b, p)
    BY <1>1, <1>4 DEF FlowInv, CreditInv
  <2> QED
    BY <1>1, <2>1 DEF Holds
<1>6. TypeOK'
  <2>1. req' \in [Port -> ReadReq \union WriteReq \union {NoReq}]
    BY <1>2, <1>3 DEF TypeOK
  <2>2. \A q \in Port : req'[q] # NoReq => req'[q] \in Request(q)
    BY <1>2, <1>3 DEF TypeOK
  <2>3. metaq' \in Seq(Port)
    BY <1>1, <1>2, HeadTailProperties
  <2>4. cnt' \in Nat /\ bankRsp' \in [Bank -> Response] /\ hits' \in [Bank -> Nat]
    BY <1>1, <1>4 DEF Response
  <2> QED
    BY <1>1, <1>2, <1>3, <2>1, <2>2, <2>3, <2>4 DEF TypeOK
<1>7. CreditInv'
  BY <1>1, <1>4, <1>5 DEF CreditInv, Idle
<1>8. \/ left \in {{}, {"meta", "mem"}} /\ Len(metaq) = 1
      \/ left = {"mem"} /\ Len(metaq) = 2 /\ metaq[2] = cur /\ cur \in Port
  BY <1>1, <1>4 DEF FlowInv, QueueInv
<1>9. Len(metaq') = Len(metaq) - 1 /\ (Len(metaq) = 2 => metaq'[1] = metaq[2])
  BY <1>1, <1>2, HeadTailProperties
<1>10. Len(metaq') = 0 => metaq' = <<>>
  BY <1>6, EmptySeq DEF TypeOK
<1>11. QueueInv'
  <2>1. CASE left \in {{}, {"meta", "mem"}} /\ Len(metaq) = 1
    BY <1>1, <1>4, <1>9, <2>1, ForkStates DEF FlowInv, QueueInv
  <2>2. CASE left = {"mem"} /\ Len(metaq) = 2 /\ metaq[2] = cur /\ cur \in Port
    BY <1>1, <1>4, <1>9, <2>2 DEF QueueInv
  <2> QED
    BY <1>8, <2>1, <2>2
<1>12. LifeInv'
  <2>1. \A q \in Port : q # p => req'[q] = req[q]
    BY <1>2, <1>3 DEF TypeOK
  <2>2. \A d \in {Read, Write} : head[d] # p
    BY <1>1, <1>4 DEF FlowInv, LifeInv
  <2>3. \A d \in {Read, Write} : head[d] # NoPort => req'[head[d]] = req[head[d]]
    BY <1>2, <2>1, <2>2 DEF TypeOK
  <2>4. ASSUME metaq' # <<>> PROVE req'[metaq'[1]] # NoReq
    <3>1. metaq'[1] = cur /\ cur \in Port
      BY <1>8, <1>9, <1>10, <2>4
    <3>2. cur # NoPort /\ Dir(cur) \in {Read, Write} /\ req[cur] # NoReq
      BY <3>1, CurWaits, PortAssumption
    <3>3. cur # p
      BY <2>2, <3>2 DEF FlowInv, LifeInv
    <3> QED
      BY <2>1, <3>1, <3>2, <3>3
  <2> QED
    BY <1>1, <1>4, <2>3, <2>4 DEF FlowInv, LifeInv
<1>13. OwnerInv'
  BY <1>1, <1>5 DEF FlowInv, OwnerInv, Requests
<1> QED
  BY <1>6, <1>7, <1>11, <1>12, <1>13 DEF FlowInv

-------------------------------------------------------------------------------
(***************************************************************************)
(* The theorems.                                                           *)
(***************************************************************************)

(* FlowInv is inductive.                                                   *)
LEMMA FlowStep == FlowInv /\ [Next]_vars => FlowInv'
<1> SUFFICES ASSUME FlowInv, [Next]_vars PROVE FlowInv'
  OBVIOUS
<1>1. ASSUME NEW p \in Port, Ask(p) \/ Arbitrate(p) PROVE FlowInv'
  BY <1>1, AskFlow, ArbitrateFlow
<1>2. ASSUME NEW d \in {Read, Write}, Select(d) PROVE FlowInv'
  BY <1>2, SelectFlow
<1>3. CASE ForkMeta
  BY <1>3, ForkMetaFlow
<1>4. CASE ForkMem
  BY <1>4, ForkMemFlow
<1>5. ASSUME NEW b \in Bank, BankStep(b) PROVE FlowInv'
  BY <1>5, SkipFlow, IssueFlow, ReadyFlow, CollectFlow DEF BankStep
<1>6. CASE Answer
  BY <1>6, AnswerFlow
<1>7. CASE UNCHANGED vars
  BY <1>7 DEF vars, FlowInv, TypeOK, CreditInv, QueueInv, LifeInv, OwnerInv,
              Idle, Holds, Requests, ZeroWrite
<1> QED
  BY <1>1, <1>2, <1>3, <1>4, <1>5, <1>6, <1>7 DEF Next

(* Credits, meta buffer and channels agree about who is where.             *)
THEOREM FlowCorrect == Spec => []FlowInv
BY InitFlow, FlowStep, PTL DEF Spec

(* Every register of the path holds a value of its type.                   *)
THEOREM TypeCorrect == Spec => []TypeOK
<1>1. FlowInv => TypeOK
  BY DEF FlowInv
<1> QED
  BY <1>1, FlowCorrect, PTL

(* No response of a lane, which nothing can hold back, finds its FIFO full.*)
THEOREM NoLoss == Spec => []NoResponseLost
<1>1. FlowInv => NoResponseLost
  <2> SUFFICES ASSUME FlowInv, NEW b \in Bank, rvalid[b] # NoRsp
               PROVE  bankRsp[b] = NoRsp
    BY DEF NoResponseLost
  <2>1. cnt = 1
    BY DEF FlowInv, CreditInv, Idle
  <2>2. PICK p : Holds(b, p)
    BY <2>1 DEF FlowInv, CreditInv
  <2> QED
    BY <2>2 DEF Holds
<1> QED
  BY <1>1, FlowCorrect, PTL

(* The join pairs a response with the transaction it belongs to.           *)
THEOREM Match == Spec => []ResponsesMatch
<1>1. FlowInv => ResponsesMatch
  <2> SUFFICES ASSUME FlowInv, metaq # <<>>, NEW b \in Bank, bankRsp[b] # NoRsp
               PROVE  bankRsp[b].port = Head(metaq)
    BY DEF ResponsesMatch
  <2>1. cnt = 1
    BY DEF FlowInv, CreditInv, Idle
  <2>2. Holds(b, metaq[1]) /\ Head(metaq) = metaq[1]
    BY <2>1, MetaShape DEF FlowInv, CreditInv
  <2> QED
    BY <2>2 DEF Holds
<1> QED
  BY <1>1, FlowCorrect, PTL

(* A meta buffer of two entries never holds up the fork.                   *)
THEOREM Room == Spec => []MetaHasRoom
<1>1. FlowInv => MetaHasRoom
  <2> SUFFICES ASSUME FlowInv, "meta" \in left PROVE Len(metaq) < MetaDepth
    BY DEF MetaHasRoom
  <2>1. Len(metaq) = cnt \/ metaq = <<>>
    BY DEF FlowInv, QueueInv
  <2>2. cnt \in {0, 1} /\ (metaq = <<>> => Len(metaq) = 0)
    BY EmptySeq DEF FlowInv, CreditInv
  <2> QED
    BY <2>1, <2>2 DEF MetaDepth
<1> QED
  BY <1>1, FlowCorrect, PTL

-------------------------------------------------------------------------------
(***************************************************************************)
(* PeriphBus implements SerialPort and answers writes exactly.  FlowInv    *)
(* says where the transaction is; AccessInv adds what was done for it:     *)
(* which lanes have made their access, and what their responses report.    *)
(***************************************************************************)
(* The response of lane b to transaction r reports an error.               *)
Failed(r, b) == ~ZeroWrite(r, b) /\ Fault(r, b)

Served == req[InService]

(* A lane that makes no access, or still has to, was not hit; the others   *)
(* were hit once.                                                          *)
HitsInv ==
    /\ cnt = 0 => \A b \in Bank : hits[b] = 0
    /\ cnt = 1 => \A b \in Bank :
          hits[b] = IF ZeroWrite(Served, b) \/ (bankReq[b] # NoPort /\ owner # b)
                    THEN 0 ELSE 1

(* A response reports what became of the access of its own transaction.    *)
ErrInv ==
    \A b \in Bank :
        /\ rvalid[b] # NoRsp => (rvalid[b].err <=> Failed(Served, b))
        /\ bankRsp[b] # NoRsp => (bankRsp[b].err <=> Failed(Served, b))

AccessInv == FlowInv /\ HitsInv /\ ErrInv

-------------------------------------------------------------------------------
(* The port in service is the one all lanes hold.                          *)
LEMMA HoldsService ==
    ASSUME NEW p \in Port
    PROVE  /\ Holds(0, p) => InService = p
           /\ Holds(0, p)' => InService' = p
BY PortAssumption DEF Holds, InService, NoRsp

LEMMA IdleService == (\A b \in Bank : Idle(b)) => InService = NoPort
BY DEF Idle, InService, NoRsp, Bank

LEMMA ServiceShape ==
    ASSUME FlowInv
    PROVE  \/ cnt = 0 /\ InService = NoPort /\ \A b \in Bank : Idle(b)
           \/ /\ cnt = 1 /\ InService \in Port /\ Served # NoReq
              /\ \A b \in Bank : Holds(b, InService)
              /\ metaq # <<>> => InService = metaq[1]
<1>1. CASE cnt = 0
  BY <1>1, IdleService DEF FlowInv, CreditInv
<1>2. CASE cnt = 1 /\ metaq # <<>>
  <2>1. metaq[1] \in Port /\ \A b \in Bank : Holds(b, metaq[1])
    BY <1>2, MetaShape DEF FlowInv, CreditInv
  <2>2. InService = metaq[1]
    BY <2>1, HoldsService DEF Bank
  <2> QED
    BY <1>2, <2>1, <2>2 DEF FlowInv, LifeInv, Served
<1>3. CASE cnt = 1 /\ metaq = <<>>
  <2>1. cur \in Port /\ req[cur] # NoReq /\ \A b \in Bank : Holds(b, cur)
    <3>1. left = {"meta"} /\ \A b \in Bank : Holds(b, cur)
      BY <1>3 DEF FlowInv, CreditInv
    <3>2. cur \in Port
      BY <3>1, ForkStates DEF FlowInv, QueueInv
    <3> QED
      BY <3>1, <3>2, CurWaits, PortAssumption
  <2>2. InService = cur
    BY <2>1, HoldsService DEF Bank
  <2> QED
    BY <1>3, <2>1, <2>2 DEF Served
<1> QED
  BY <1>1, <1>2, <1>3 DEF FlowInv, CreditInv

(* While a lane moves its access on, the port in service stays the same.   *)
LEMMA LaneService ==
    ASSUME FlowInv, cnt = 1, req' = req, cnt' = cnt,
           \A c \in Bank, p \in Port : Holds(c, p) => Holds(c, p)'
    PROVE  InService' = InService /\ Served' = Served
<1>1. InService \in Port /\ Holds(0, InService)
  BY ServiceShape DEF Bank
<1>2. PICK p \in Port : p = InService
  BY <1>1
<1>3. Holds(0, p)
  BY <1>1, <1>2
<1>4. Holds(0, p)'
  BY <1>3 DEF Bank
<1>5. InService' = p
  BY <1>4, HoldsService
<1> QED
  BY <1>2, <1>5 DEF Served

-------------------------------------------------------------------------------
(* Steps that leave the lanes alone and the transaction in service waiting.*)
LEMMA LanesAlone ==
    ASSUME AccessInv, UNCHANGED <<cnt, lanes>>,
           \A p \in Port : req[p] # NoReq => req'[p] = req[p]
    PROVE  HitsInv' /\ ErrInv' /\ InService' = InService
<1> USE DEF lanes
<1>1. InService' = InService
  BY DEF InService
<1>2. cnt = 1 => Served' = Served
  BY <1>1, ServiceShape DEF AccessInv, Served
<1>3. cnt = 1 \/ \A b \in Bank : rvalid[b] = NoRsp /\ bankRsp[b] = NoRsp
  BY ServiceShape DEF AccessInv, Idle
<1>4. HitsInv'
  <2>1. cnt = 1 => \A b \in Bank : ZeroWrite(Served, b)' = ZeroWrite(Served, b)
    BY <1>2 DEF ZeroWrite
  <2> QED
    BY <2>1 DEF AccessInv, HitsInv
<1>5. ErrInv'
  <2>1. cnt = 1 => \A b \in Bank : Failed(Served, b)' = Failed(Served, b)
    BY <1>2 DEF Failed, ZeroWrite, Fault
  <2> QED
    BY <1>3, <2>1 DEF AccessInv, ErrInv
<1> QED
  BY <1>1, <1>4, <1>5

(* The lanes are filled: a new transaction is in service, untouched.       *)
LEMMA ForkMemAccess ==
    ASSUME AccessInv, ForkMem
    PROVE  /\ HitsInv' /\ ErrInv'
           /\ InService = NoPort /\ InService' = cur
           /\ cur \in Port /\ req[cur] # NoReq
<1>1. /\ cur # NoPort /\ cnt < MaxTrans /\ cnt' = cnt + 1
      /\ bankReq' = [b \in Bank |-> cur]
      /\ UNCHANGED <<req, owner, rvalid, bankRsp, hits>>
  BY DEF ForkMem
<1>2. cnt = 0 /\ InService = NoPort /\ \A b \in Bank : Idle(b)
  BY <1>1, ServiceShape DEF AccessInv, MaxTrans
<1>3. cur \in Port /\ req[cur] # NoReq
  BY <1>1, CurWaits DEF AccessInv
<1>4. InService' = cur
  BY <1>1 DEF InService, Bank
<1>5. owner \notin Bank
  BY <1>2 DEF AccessInv, FlowInv, OwnerInv, Requests, Idle
<1>6. HitsInv'
  BY <1>1, <1>2, <1>5 DEF AccessInv, HitsInv
<1>7. ErrInv'
  BY <1>1, <1>2 DEF ErrInv, Idle
<1> QED
  BY <1>2, <1>3, <1>4, <1>6, <1>7

(* A granted access leaves the request FIFO with the error of its lane.    *)
LEMMA GrantedAccess ==
    ASSUME AccessInv, NEW b \in Bank, bankReq[b] # NoPort,
           NEW err \in BOOLEAN, Granted(b, err), err <=> Failed(Served, b),
           UNCHANGED <<req, cnt, bankRsp, hits>>,
           ZeroWrite(Served, b) \/ owner = b,
           \A c \in Bank \ {b} : owner' = c <=> owner = c
    PROVE  HitsInv' /\ ErrInv' /\ InService' = InService
<1>1. TypeOK /\ FlowInv
  BY DEF AccessInv, FlowInv
<1>2. cnt = 1 /\ \A c \in Bank : Holds(c, InService)
  BY <1>1, ServiceShape DEF Idle
<1>3. ASSUME NEW c \in Bank, NEW p \in Port, Holds(c, p) PROVE Holds(c, p)'
  BY <1>1, <1>3, GrantedHolds
<1>4. InService' = InService /\ Served' = Served
  BY <1>1, <1>2, <1>3, LaneService
<1>5. /\ bankReq' = [bankReq EXCEPT ![b] = NoPort]
      /\ rvalid' = [rvalid EXCEPT ![b] = [port |-> bankReq[b], err |-> err]]
  BY DEF Granted
<1>6. \A c \in Bank : /\ ZeroWrite(Served, c)' = ZeroWrite(Served, c)
                      /\ Failed(Served, c)' = Failed(Served, c)
  BY <1>4 DEF ZeroWrite, Failed, Fault
<1>7. HitsInv'
  <2>1. ASSUME NEW c \in Bank
        PROVE  hits[c] = IF ZeroWrite(Served, c) \/ (bankReq'[c] # NoPort /\ owner' # c)
                         THEN 0 ELSE 1
    <3>1. hits[c] = IF ZeroWrite(Served, c) \/ (bankReq[c] # NoPort /\ owner # c)
                    THEN 0 ELSE 1
      BY <1>2 DEF AccessInv, HitsInv
    <3>2. CASE c = b
      BY <1>1, <1>5, <3>1, <3>2 DEF TypeOK
    <3>3. CASE c # b
      BY <1>1, <1>5, <3>1, <3>3 DEF TypeOK
    <3> QED
      BY <3>2, <3>3
  <2> QED
    BY <1>2, <1>6, <2>1 DEF HitsInv
<1>8. ErrInv'
  BY <1>1, <1>5, <1>6 DEF AccessInv, ErrInv, TypeOK
<1> QED
  BY <1>4, <1>7, <1>8

LEMMA SkipAccess ==
    ASSUME AccessInv, NEW b \in Bank, SkipZeroWrite(b)
    PROVE  HitsInv' /\ ErrInv' /\ InService' = InService
<1>1. /\ Granted(b, FALSE) /\ bankReq[b] # NoPort /\ ZeroWrite(req[bankReq[b]], b)
      /\ UNCHANGED <<req, cnt, owner, bankRsp, hits>>
  BY DEF SkipZeroWrite
<1>2. bankReq[b] = InService
  BY <1>1, ServiceShape DEF AccessInv, Idle, Holds
<1>3. ZeroWrite(Served, b) /\ ~Failed(Served, b)
  BY <1>1, <1>2 DEF Served, Failed
<1> QED
  BY <1>1, <1>3, GrantedAccess

LEMMA ReadyAccess ==
    ASSUME AccessInv, NEW b \in Bank, RegReady(b)
    PROVE  HitsInv' /\ ErrInv' /\ InService' = InService
<1>1. /\ owner = b /\ owner' = NoBank
      /\ Granted(b, Fault(req[bankReq[b]], b))
      /\ UNCHANGED <<req, cnt, bankRsp, hits>>
  BY DEF RegReady
<1>2. Requests(b) /\ bankReq[b] # NoPort
  BY <1>1 DEF AccessInv, FlowInv, OwnerInv, Requests
<1>3. bankReq[b] = InService
  BY <1>2, ServiceShape DEF AccessInv, Idle, Holds
<1>4. Fault(req[bankReq[b]], b) <=> Failed(Served, b)
  BY <1>2, <1>3 DEF Served, Failed, Requests
<1>5. Fault(req[bankReq[b]], b) \in BOOLEAN
  BY DEF Fault
<1>6. \A c \in Bank \ {b} : owner' = c <=> owner = c
  BY <1>1 DEF NoBank, Bank
<1> QED
  BY <1>1, <1>2, <1>4, <1>5, <1>6, GrantedAccess

(* An access: the lane had none, and now has one.                          *)
LEMMA IssueAccess ==
    ASSUME AccessInv, NEW b \in Bank, RegIssue(b)
    PROVE  /\ HitsInv' /\ ErrInv' /\ InService' = InService
           /\ InService \in Port /\ ~ZeroWrite(Served, b)
           /\ hits[b] = 0 /\ hits' = [hits EXCEPT ![b] = 1]
<1>1. /\ owner = NoBank /\ Requests(b) /\ owner' = b
      /\ hits' = [hits EXCEPT ![b] = @ + 1]
      /\ UNCHANGED <<req, cnt, bankReq, rvalid, bankRsp>>
  BY DEF RegIssue
<1>2. bankReq[b] # NoPort
  BY <1>1 DEF Requests
<1>3. cnt = 1 /\ InService \in Port /\ bankReq[b] = InService
  BY <1>2, ServiceShape DEF AccessInv, Idle, Holds
<1>4. ~ZeroWrite(Served, b)
  BY <1>1, <1>3 DEF Requests, Served
<1>5. InService' = InService /\ Served' = Served
  BY <1>1 DEF InService, Served
<1>6. owner # b
  BY <1>1 DEF NoBank, Bank
<1>7. hits[b] = 0 /\ hits' = [hits EXCEPT ![b] = 1]
  <2>1. hits[b] = 0
    BY <1>2, <1>3, <1>6 DEF AccessInv, HitsInv
  <2> QED
    BY <1>1, <2>1
<1>8. \A c \in Bank : /\ ZeroWrite(Served, c)' = ZeroWrite(Served, c)
                      /\ Failed(Served, c)' = Failed(Served, c)
  BY <1>5 DEF ZeroWrite, Failed, Fault
<1>9. HitsInv'
  <2>1. hits \in [Bank -> Nat]
    BY DEF AccessInv, FlowInv, TypeOK
  <2>2. \A c \in Bank \ {b} : owner # c /\ owner' # c
    BY <1>1 DEF NoBank, Bank
  <2> QED
    BY <1>1, <1>3, <1>4, <1>7, <1>8, <2>1, <2>2 DEF AccessInv, HitsInv
<1>10. ErrInv'
  BY <1>1, <1>8 DEF AccessInv, ErrInv
<1> QED
  BY <1>3, <1>4, <1>5, <1>7, <1>9, <1>10

LEMMA CollectAccess ==
    ASSUME AccessInv, NEW b \in Bank, Collect(b)
    PROVE  HitsInv' /\ ErrInv' /\ InService' = InService
<1>1. /\ rvalid[b] # NoRsp
      /\ rvalid' = [rvalid EXCEPT ![b] = NoRsp]
      /\ bankRsp' = [bankRsp EXCEPT ![b] = IF @ = NoRsp THEN rvalid[b] ELSE @]
      /\ UNCHANGED <<req, cnt, bankReq, owner, hits>>
  BY DEF Collect
<1>2. TypeOK /\ FlowInv
  BY DEF AccessInv, FlowInv
<1>3. cnt = 1
  BY <1>1, <1>2, ServiceShape DEF Idle
<1>4. ASSUME NEW c \in Bank, NEW p \in Port, Holds(c, p) PROVE Holds(c, p)'
  BY <1>1, <1>2, <1>4, PortAssumption DEF TypeOK, Holds, NoRsp
<1>5. InService' = InService /\ Served' = Served
  BY <1>1, <1>2, <1>3, <1>4, LaneService
<1>6. \A c \in Bank : /\ ZeroWrite(Served, c)' = ZeroWrite(Served, c)
                      /\ Failed(Served, c)' = Failed(Served, c)
  BY <1>5 DEF ZeroWrite, Failed, Fault
<1>7. HitsInv'
  BY <1>1, <1>6 DEF AccessInv, HitsInv
<1>8. ErrInv'
  BY <1>1, <1>2, <1>6 DEF AccessInv, ErrInv, TypeOK
<1> QED
  BY <1>5, <1>7, <1>8

(* The answer: every lane made its access and the answer says how they     *)
(* ended.                                                                  *)
LEMMA AnswerAccess ==
    ASSUME AccessInv, Answer
    PROVE  /\ HitsInv' /\ ErrInv' /\ InService' = NoPort
           /\ InService \in Port /\ Served # NoReq
           /\ \A b \in Bank : ~ZeroWrite(Served, b) => hits[b] = 1
           /\ req' = [req EXCEPT ![InService] = NoReq]
           /\ ans' = [ans EXCEPT ![InService] =
                        IF Flagged(Served) THEN "slverr" ELSE "okay"]
           /\ hits' = [b \in Bank |-> 0]
<1>1. /\ metaq # <<>>
      /\ \A b \in Bank : bankRsp[b] # NoRsp
      /\ cnt' = cnt - 1
      /\ bankRsp' = [b \in Bank |-> NoRsp]
      /\ hits' = [b \in Bank |-> 0]
      /\ UNCHANGED <<bankReq, owner, rvalid>>
  BY DEF Answer
<1>2. FlowInv
  BY DEF AccessInv
<1>3. /\ cnt = 1 /\ InService \in Port /\ Served # NoReq
      /\ \A b \in Bank : Holds(b, InService)
      /\ InService = Head(metaq)
  BY <1>1, <1>2, ServiceShape, MetaShape DEF Idle, Bank
<1>4. \A b \in Bank : bankReq[b] = NoPort /\ rvalid[b] = NoRsp
  BY <1>1, <1>3 DEF Holds
<1>5. InService' = NoPort
  BY <1>1, <1>4 DEF InService, NoRsp, Bank
<1>6. \A b \in Bank : ~ZeroWrite(Served, b) => hits[b] = 1
  BY <1>3, <1>4 DEF AccessInv, HitsInv
<1>7. ErrLanes(Served) \subseteq Bank
  BY DEF ErrLanes
<1>8. (\E b \in ErrLanes(Served) : bankRsp[b].err) <=> Flagged(Served)
  BY <1>1, <1>7 DEF AccessInv, ErrInv, Failed, Flagged
<1>9. /\ req' = [req EXCEPT ![InService] = NoReq]
      /\ ans' = [ans EXCEPT ![InService] =
                   IF \E b \in ErrLanes(Served) : bankRsp[b].err
                   THEN "slverr" ELSE "okay"]
  BY <1>3 DEF Answer, Served
<1>10. HitsInv'
  BY <1>1, <1>3 DEF HitsInv
<1>11. ErrInv'
  BY <1>1, <1>4 DEF ErrInv
<1> QED
  BY <1>1, <1>3, <1>5, <1>6, <1>8, <1>9, <1>10, <1>11

-------------------------------------------------------------------------------
(***************************************************************************)
(* AccessInv is inductive, and every step is one of SerialPort.            *)
(***************************************************************************)
LEMMA AccessInit == Init => AccessInv
<1> SUFFICES ASSUME Init PROVE AccessInv
  OBVIOUS
<1>1. FlowInv
  BY InitFlow
<1>2. HitsInv /\ ErrInv
  BY DEF Init, HitsInv, ErrInv
<1> QED
  BY <1>1, <1>2 DEF AccessInv

LEMMA AccessStep == AccessInv /\ [Next]_vars => AccessInv'
<1> SUFFICES ASSUME AccessInv, [Next]_vars PROVE AccessInv'
  OBVIOUS
<1>0. FlowInv'
  BY FlowStep DEF AccessInv
<1>1. ASSUME NEW p \in Port, Ask(p) PROVE HitsInv' /\ ErrInv'
  <2>1. TypeOK /\ req[p] = NoReq /\ UNCHANGED <<cnt, lanes>>
    BY <1>1 DEF Ask, AccessInv, FlowInv
  <2>2. \A q \in Port : req[q] # NoReq => req'[q] = req[q]
    BY <1>1, <2>1 DEF Ask, TypeOK
  <2> QED
    BY <2>1, <2>2, LanesAlone
<1>2. ASSUME NEW p \in Port, Arbitrate(p) PROVE HitsInv' /\ ErrInv'
  BY <1>2, LanesAlone DEF Arbitrate
<1>3. ASSUME NEW d \in {Read, Write}, Select(d) PROVE HitsInv' /\ ErrInv'
  BY <1>3, LanesAlone DEF Select
<1>4. CASE ForkMeta
  BY <1>0, <1>4, LanesAlone DEF ForkMeta, AccessInv
<1>5. CASE ForkMem
  BY <1>0, <1>5, ForkMemAccess DEF AccessInv
<1>6. ASSUME NEW b \in Bank, BankStep(b) PROVE HitsInv' /\ ErrInv'
  BY <1>6, SkipAccess, IssueAccess, ReadyAccess, CollectAccess DEF BankStep
<1>7. CASE Answer
  BY <1>0, <1>7, AnswerAccess DEF AccessInv
<1>8. CASE UNCHANGED vars
  BY <1>0, <1>8, LanesAlone DEF vars, lanes, AccessInv
<1> QED
  BY <1>0, <1>1, <1>2, <1>3, <1>4, <1>5, <1>6, <1>7, <1>8 DEF Next, AccessInv

LEMMA SerialStep == AccessInv /\ [Next]_vars => [Serial!SNext]_(Serial!svars)
<1> SUFFICES ASSUME AccessInv, [Next]_vars PROVE [Serial!SNext]_(Serial!svars)
  OBVIOUS
<1> USE DEF Serial!svars, Serial!SNext
<1>1. ASSUME NEW p \in Port, Ask(p) PROVE Serial!SAsk(p)
  <2>1. TypeOK /\ req[p] = NoReq /\ UNCHANGED <<cnt, lanes>>
    BY <1>1 DEF Ask, AccessInv, FlowInv
  <2>2. InService' = InService /\ hits' = hits
    BY <2>1 DEF InService, lanes
  <2> QED
    BY <1>1, <2>2 DEF Ask, Serial!SAsk
<1>2. ASSUME NEW p \in Port, Arbitrate(p) PROVE UNCHANGED Serial!svars
  BY <1>2 DEF Arbitrate, lanes, InService
<1>3. ASSUME NEW d \in {Read, Write}, Select(d) PROVE UNCHANGED Serial!svars
  BY <1>3 DEF Select, lanes, InService
<1>4. CASE ForkMeta
  BY <1>4 DEF ForkMeta, lanes, InService
<1>5. ASSUME ForkMem PROVE cur \in Port /\ Serial!SServe(cur)
  BY <1>5, ForkMemAccess DEF ForkMem, Serial!SServe
<1>6. ASSUME NEW b \in Bank, SkipZeroWrite(b) \/ RegReady(b) \/ Collect(b)
      PROVE  UNCHANGED Serial!svars
  BY <1>6, SkipAccess, ReadyAccess, CollectAccess DEF SkipZeroWrite, RegReady, Collect
<1>7. ASSUME NEW b \in Bank, RegIssue(b) PROVE Serial!SAccess(b)
  <2>1. UNCHANGED <<req, ans>>
    BY <1>7 DEF RegIssue
  <2>2. b \in Lanes(req[InService])
    BY <1>7, IssueAccess DEF Lanes, Served
  <2> QED
    BY <1>7, <2>1, <2>2, IssueAccess, PortAssumption DEF Serial!SAccess
<1>8. CASE Answer
  <2>1. \A b \in Lanes(req[InService]) : hits[b] = 1
    BY <1>8, AnswerAccess DEF Lanes, Served
  <2>2. InService # NoPort
    BY <1>8, AnswerAccess, PortAssumption
  <2> QED
    BY <1>8, <2>1, <2>2, AnswerAccess
    DEF Serial!SAnswer, Serial!Untouched, Served
<1>9. CASE UNCHANGED vars
  BY <1>9 DEF vars, InService
<1> QED
  BY <1>1, <1>2, <1>3, <1>4, <1>5, <1>6, <1>7, <1>8, <1>9 DEF Next, BankStep

(* The lanes have made the accesses they have to have made, once each.     *)
THEOREM AccessCorrect == Spec => []AccessInv
BY AccessInit, AccessStep, PTL DEF Spec

(* The pipeline serves one transaction at a time, makes each access once,  *)
(* and answers after the last with the errors of that transaction.         *)
THEOREM Implements == Spec => ImplementsSerialPort
<1>1. Init => Serial!SInit
  BY IdleService DEF Init, Serial!SInit, Serial!Untouched, Idle
<1> QED
  BY <1>1, AccessCorrect, SerialStep, PTL DEF Spec, ImplementsSerialPort, Serial!SSpec

(* The answer to a write is an error exactly when a lane it strobes fails. *)
THEOREM WriteExact == Spec => WriteErrorExact
<1> DEFINE Exact(p) == ans'[p] = "slverr" <=>
             \E b \in Bank : BankStrb(req[p], b) /\ Fault(req[p], b)
<1>1. ASSUME AccessInv, [Next]_vars, NEW p \in Writer, Answered(p) PROVE Exact(p)
  <2>1. TypeOK /\ p \in Port /\ req[p] # NoReq /\ req'[p] = NoReq
    BY <1>1 DEF AccessInv, FlowInv, Port, Answered
  <2>2. Answer
    <3>1. \A q \in Port : ~Ask(q)
      BY <2>1, RequestType DEF Ask, TypeOK
    <3> QED
      BY <1>1, <2>1, <3>1 DEF Next, vars, Arbitrate, Select, ForkMeta, ForkMem,
         BankStep, SkipZeroWrite, RegIssue, RegReady, Collect
  <2>3. p = InService
    BY <1>1, <2>1, <2>2, AnswerAccess DEF TypeOK
  <2>4. ans'[p] = IF Flagged(req[p]) THEN "slverr" ELSE "okay"
    BY <1>1, <2>1, <2>2, <2>3, AnswerAccess DEF TypeOK, Served
  <2>5. req[p].dir = Write
    BY <1>1, <2>1 DEF TypeOK, Request, WriteReq
  <2>6. Flagged(req[p]) <=> \E b \in Bank : BankStrb(req[p], b) /\ Fault(req[p], b)
    BY <2>5 DEF Flagged, ErrLanes, BankStrb, ZeroWrite
  <2> QED
    BY <2>4, <2>6
<1>2. AccessInv /\ [Next]_vars =>
         [\A p \in Writer : Answered(p) => Exact(p)]_vars
  BY <1>1
<1> QED
  BY <1>2, AccessCorrect, PTL DEF Spec, WriteErrorExact
===============================================================================
