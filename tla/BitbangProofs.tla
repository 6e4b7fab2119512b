----------------------------- MODULE BitbangProofs ----------------------------
(***************************************************************************)
(* Proofs about Bitbang, for any number of debuggers, any characters and   *)
(* any number of them.                                                     *)
(***************************************************************************)
EXTENDS Bitbang, SequenceTheorems, TLAPS

(* A connection that waits is waited for once, and nothing of it has been  *)
(* executed.                                                               *)
WaitingInv ==
    /\ \A i \in 1 .. Len(backlog) :
         /\ backlog[i] # client
         /\ link[backlog[i]] # "new"
         /\ count[backlog[i]] = 0
    /\ \A i, j \in 1 .. Len(backlog) : backlog[i] = backlog[j] => i = j
    /\ \A c \in Clients : link[c] = "new" => c # client /\ count[c] = 0

(* A command meets pins the simulation has seen, and the TDO it shows.     *)
TickInv ==
    /\ ~init => client = NoClient /\ pc \in {"idle", "aborted"}
    /\ init /\ pc \in {"idle", "reading"} => wires = pins
    /\ pc = "reading" => tdo = line

ServerInv == TypeOK /\ TickInv
BitbangInv == ServerInv /\ WaitingInv /\ QuitEndsConnections

-------------------------------------------------------------------------------
LEMMA BitbangInit == Init => BitbangInv
  <1> SUFFICES ASSUME Init PROVE BitbangInv
    OBVIOUS
  <1> USE DEF Init
  <1>1. \A S : <<>> \in Seq(S) /\ Len(<<>>) = 0
    OBVIOUS
  <1>2. TypeOK
    BY <1>1 DEF TypeOK, Pins, Bit
  <1>3. TickInv
    BY DEF TickInv
  <1>4. WaitingInv
    <2>1. 1 .. Len(backlog) = {}
      BY <1>1
    <2> QED
      BY <2>1, ClientsAssumption DEF WaitingInv
  <1> QED
    BY <1>2, <1>3, <1>4 DEF BitbangInv, ServerInv, QuitEndsConnections

LEMMA PinsOfType ==
    ASSUME NEW cmd, IsPinCommand(cmd)
    PROVE  PinsOf(cmd) \in Pins
  <1> DEFINE i == CHOOSE i \in 1 .. 8 : PinCommands[i] = cmd
  <1>1. i \in 1 .. 8
    BY DEF IsPinCommand
  <1> HIDE DEF i
  <1>2. /\ (i - 1) \div 4 \in Bit
        /\ ((i - 1) \div 2) % 2 \in Bit
        /\ (i - 1) % 2 \in Bit
    BY <1>1 DEF Bit
  <1>3. PinsOf(cmd) = <<(i - 1) \div 4, ((i - 1) \div 2) % 2, (i - 1) % 2>>
    BY DEF PinsOf, i
  <1> QED
    BY <1>2, <1>3 DEF Pins

-------------------------------------------------------------------------------
(* The network changes its own variables only. *)
LEMMA NetworkTypes ==
    ASSUME ServerInv, NEW c \in Clients,
           Connect(c) \/ Receive(c) \/ HangUp(c) \/ Break(c)
             \/ \E cmd \in Commands : Send(c, cmd)
    PROVE  ServerInv'
  <1> USE DEF ServerInv
  <1>1. UNCHANGED <<server, line>>
    BY DEF Connect, Receive, HangUp, Break, Send
  <1>2. backlog' \in Seq(Clients)
    <2>1. Append(backlog, c) \in Seq(Clients)
      BY AppendProperties DEF TypeOK
    <2> QED
      BY <2>1 DEF TypeOK, Connect, Receive, HangUp, Break, Send
  <1>3. link' \in [Clients -> {"new", "open", "closed", "reset"}]
    BY DEF TypeOK, Connect, Receive, HangUp, Break, Send
  <1>4. inbox' \in [Clients -> Seq(Commands)]
    <2>1. <<>> \in Seq(Commands)
      OBVIOUS
    <2>2. \A cmd \in Commands : Append(inbox[c], cmd) \in Seq(Commands)
      BY AppendProperties DEF TypeOK
    <2> QED
      BY <2>1, <2>2 DEF TypeOK, Connect, Receive, HangUp, Break, Send
  <1>5. replies' \in [Clients -> Seq(Bit)]
    <2>1. replies[c] # <<>> => Tail(replies[c]) \in Seq(Bit)
      BY HeadTailProperties DEF TypeOK
    <2> QED
      BY <2>1 DEF TypeOK, Connect, Receive, HangUp, Break, Send
  <1>6. sent' \in [Clients -> Nat]
    BY DEF TypeOK, Connect, Receive, HangUp, Break, Send
  <1>7. TypeOK'
    BY <1>1, <1>2, <1>3, <1>4, <1>5, <1>6 DEF TypeOK, server
  <1>8. TickInv'
    BY <1>1 DEF TickInv, server
  <1> QED
    BY <1>7, <1>8

LEMMA ExecuteTypes == ServerInv /\ Execute => ServerInv'
  <1> SUFFICES ASSUME ServerInv, Execute PROVE ServerInv'
    OBVIOUS
  <1> USE DEF ServerInv
  <1> DEFINE cmd == Head(inbox[client])
  <1>1. client \in Clients /\ inbox[client] # <<>> /\ pc = "reading"
    BY DEF Execute, TypeOK
  <1>2. inbox[client] \in Seq(Commands) /\ replies[client] \in Seq(Bit)
    BY <1>1 DEF TypeOK
  <1>3. Tail(inbox[client]) \in Seq(Commands)
    BY <1>1, <1>2, HeadTailProperties
  <1>4. Append(replies[client], tdo) \in Seq(Bit)
    BY <1>2, AppendProperties DEF TypeOK
  <1>5. inbox' \in [Clients -> Seq(Commands)]
    BY <1>3 DEF Execute, TypeOK
  <1>6. replies' \in [Clients -> Seq(Bit)]
    BY <1>4 DEF Execute, TypeOK
  <1>7. pins' \in Pins
    BY PinsOfType DEF Execute, TypeOK
  <1>8. quit' \in Bit /\ client' \in Clients \union {NoClient}
    BY DEF Execute, TypeOK, Bit
  <1>9. count' \in [Clients -> Nat]
    BY <1>1 DEF Execute, TypeOK
  <1>10. TypeOK'
    BY <1>5, <1>6, <1>7, <1>8, <1>9 DEF Execute, TypeOK
  <1>11. TickInv'
    BY <1>1 DEF Execute, TickInv
  <1> QED
    BY <1>10, <1>11

LEMMA AcceptTypes == ServerInv /\ Accept => ServerInv'
  <1> SUFFICES ASSUME ServerInv, Accept PROVE ServerInv'
    OBVIOUS
  <1> USE DEF ServerInv
  <1>1. Head(backlog) \in Clients /\ Tail(backlog) \in Seq(Clients)
    BY HeadTailProperties DEF Accept, TypeOK
  <1>2. TypeOK'
    BY <1>1 DEF Accept, TypeOK
  <1>3. TickInv'
    BY DEF Accept, TickInv
  <1> QED
    BY <1>2, <1>3

LEMMA ServerStep == ServerInv /\ [Next]_vars => ServerInv'
  <1> SUFFICES ASSUME ServerInv, [Next]_vars PROVE ServerInv'
    OBVIOUS
  <1> USE DEF ServerInv
  <1>1. CASE Tick
    <2>1. TypeOK'
      BY <1>1 DEF Tick, TypeOK, Pins, Bit, network
    <2> QED
      BY <1>1, <2>1 DEF Tick, TickInv, TypeOK
  <1>2. CASE InitFails \/ AcceptFails \/ ReadFails \/ ReplyFails
    <2>1. Abort
      BY <1>2 DEF InitFails, AcceptFails, ReadFails, ReplyFails
    <2>2. pc \in {"idle", "accepting", "reading"}
      BY <1>2 DEF InitFails, AcceptFails, ReadFails, ReplyFails
    <2> QED
      BY <2>1, <2>2 DEF Abort, TypeOK, TickInv, network
  <1>3. CASE ReadEnd
    BY <1>3 DEF ReadEnd, TypeOK, TickInv, network
  <1>4. CASE Return
    BY <1>4 DEF Return, TypeOK, TickInv, network
  <1>5. CASE Simulate
    BY <1>5 DEF Simulate, TypeOK, TickInv, Bit, server, network
  <1>6. CASE UNCHANGED vars
    BY <1>6 DEF vars, TypeOK, TickInv, server, network
  <1> QED
    BY <1>1, <1>2, <1>3, <1>4, <1>5, <1>6, ExecuteTypes, AcceptTypes, NetworkTypes
       DEF Next, Server

-------------------------------------------------------------------------------
(* A new connection is waited for at the end of the backlog. *)
LEMMA ConnectWaits ==
    ASSUME BitbangInv, NEW c \in Clients, Connect(c)
    PROVE  WaitingInv'
  <1> USE DEF BitbangInv, ServerInv
  <1>1. backlog \in Seq(Clients) /\ Len(backlog) \in Nat
    BY DEF TypeOK
  <1>2. /\ Len(backlog') = Len(backlog) + 1
        /\ backlog'[Len(backlog) + 1] = c
        /\ \A i \in 1 .. Len(backlog) : backlog'[i] = backlog[i]
    BY <1>1, AppendProperties DEF Connect
  <1>3. link[c] = "new" /\ count[c] = 0 /\ c # client /\ count' = count /\ client' = client
    BY DEF Connect, WaitingInv, server
  <1>4. \A i \in 1 .. Len(backlog) : backlog[i] \in Clients /\ backlog[i] # c
    BY <1>1, <1>3 DEF WaitingInv
  <1>5. link' = [link EXCEPT ![c] = "open"] /\ link \in [Clients -> {"new", "open", "closed", "reset"}]
    BY DEF Connect, TypeOK
  <1>6. \A i \in 1 .. Len(backlog') : i \in 1 .. Len(backlog) \/ i = Len(backlog) + 1
    BY <1>1, <1>2
  <1>7. \A i \in 1 .. Len(backlog') :
          backlog'[i] # client' /\ link'[backlog'[i]] # "new" /\ count'[backlog'[i]] = 0
    BY <1>2, <1>3, <1>4, <1>5, <1>6 DEF WaitingInv
  <1>8. \A i, j \in 1 .. Len(backlog') : backlog'[i] = backlog'[j] => i = j
    BY <1>2, <1>4, <1>6 DEF WaitingInv
  <1>9. \A d \in Clients : link'[d] = "new" => d # client' /\ count'[d] = 0
    BY <1>3, <1>5 DEF WaitingInv
  <1> QED
    BY <1>7, <1>8, <1>9 DEF WaitingInv

(* The connection that is accepted waits no longer. *)
LEMMA AcceptWaits == BitbangInv /\ Accept => WaitingInv' /\ QuitEndsConnections'
  <1> SUFFICES ASSUME BitbangInv, Accept PROVE WaitingInv' /\ QuitEndsConnections'
    OBVIOUS
  <1> USE DEF BitbangInv, ServerInv
  <1>1. backlog \in Seq(Clients) /\ backlog # <<>> /\ Len(backlog) \in Nat
    BY DEF TypeOK, Accept
  <1>2. /\ client' = backlog[1] /\ 1 \in 1 .. Len(backlog)
        /\ Len(backlog') = Len(backlog) - 1
        /\ \A i \in 1 .. Len(backlog') : backlog'[i] = backlog[i + 1]
    BY <1>1, HeadTailProperties DEF Accept
  <1>3. \A i \in 1 .. Len(backlog') : i + 1 \in 1 .. Len(backlog) /\ i + 1 # 1
    BY <1>1, <1>2
  <1>4. count' = count /\ link' = link
    BY DEF Accept
  <1>5. count[client'] = 0 /\ link[client'] # "new"
    BY <1>2 DEF WaitingInv
  <1>6. \A i \in 1 .. Len(backlog') :
          backlog'[i] # client' /\ link'[backlog'[i]] # "new" /\ count'[backlog'[i]] = 0
    BY <1>2, <1>3, <1>4 DEF WaitingInv
  <1>7. \A i, j \in 1 .. Len(backlog') : backlog'[i] = backlog'[j] => i = j
    <2> SUFFICES ASSUME NEW i \in 1 .. Len(backlog'), NEW j \in 1 .. Len(backlog'),
                        backlog'[i] = backlog'[j]
                 PROVE  i = j
      OBVIOUS
    <2>1. backlog[i + 1] = backlog[j + 1]
      BY <1>2
    <2>2. i + 1 = j + 1
      BY <2>1, <1>3 DEF WaitingInv
    <2> QED
      BY <2>2
  <1>8. \A d \in Clients : link'[d] = "new" => d # client' /\ count'[d] = 0
    BY <1>4, <1>5 DEF WaitingInv
  <1> QED
    BY <1>4, <1>5, <1>6, <1>7, <1>8 DEF WaitingInv, QuitEndsConnections

(* The connection that is served does not wait; after Q none is served on. *)
LEMMA ExecuteWaits == BitbangInv /\ Execute => WaitingInv' /\ QuitEndsConnections'
  <1> SUFFICES ASSUME BitbangInv, Execute PROVE WaitingInv' /\ QuitEndsConnections'
    OBVIOUS
  <1> USE DEF BitbangInv, ServerInv
  <1>1. client \in Clients /\ client # NoClient
    BY DEF Execute, TypeOK
  <1>2. backlog' = backlog /\ link' = link /\ client' \in {client, NoClient}
    BY DEF Execute
  <1>3. count' = [count EXCEPT ![client] = @ + 1] /\ count \in [Clients -> Nat]
    BY DEF Execute, TypeOK
  <1>4. \A i \in 1 .. Len(backlog) : backlog[i] \in Clients
    BY DEF TypeOK
  <1>5. \A d \in Clients : d # client => count'[d] = count[d]
    BY <1>3
  <1>6. \A i \in 1 .. Len(backlog') :
          backlog'[i] # client' /\ link'[backlog'[i]] # "new" /\ count'[backlog'[i]] = 0
    BY <1>2, <1>4, <1>5, ClientsAssumption DEF WaitingInv
  <1>7. \A d \in Clients : link'[d] = "new" => d # client' /\ count'[d] = 0
    BY <1>2, <1>5, ClientsAssumption DEF WaitingInv
  <1>8. quit' = 1 => client' = NoClient
    BY DEF Execute
  <1> QED
    BY <1>2, <1>6, <1>7, <1>8 DEF WaitingInv, QuitEndsConnections

LEMMA BitbangStep == BitbangInv /\ [Next]_vars => BitbangInv'
  <1> SUFFICES ASSUME BitbangInv, [Next]_vars PROVE BitbangInv'
    OBVIOUS
  <1> USE DEF BitbangInv
  <1>1. ServerInv'
    BY ServerStep
  <1>2. CASE Tick \/ InitFails \/ AcceptFails \/ ReadEnd \/ ReadFails \/ ReplyFails
               \/ Return \/ Simulate \/ UNCHANGED vars
    <2>1. UNCHANGED <<client, count, network>> /\ quit' = quit
      BY <1>2 DEF Tick, InitFails, AcceptFails, ReadEnd, ReadFails, ReplyFails, Return,
                  Simulate, vars, server, Abort
    <2>2. WaitingInv'
      BY <2>1 DEF WaitingInv, network
    <2>3. pc' # "aborted" => pc # "aborted"
      BY <1>2 DEF Tick, InitFails, AcceptFails, ReadEnd, ReadFails, ReplyFails, Return,
                  Simulate, vars, server, Abort
    <2> QED
      BY <1>1, <2>1, <2>2, <2>3 DEF QuitEndsConnections
  <1>3. CASE Accept
    BY <1>1, <1>3, AcceptWaits
  <1>4. CASE Execute
    BY <1>1, <1>4, ExecuteWaits
  <1>5. ASSUME NEW c \in Clients, Connect(c) PROVE BitbangInv'
    <2>1. QuitEndsConnections'
      BY <1>5 DEF QuitEndsConnections, Connect, server
    <2> QED
      BY <1>1, <1>5, <2>1, ConnectWaits
  <1>6. ASSUME NEW c \in Clients,
               Receive(c) \/ HangUp(c) \/ Break(c) \/ \E cmd \in Commands : Send(c, cmd)
        PROVE  BitbangInv'
    <2>1. UNCHANGED <<server, backlog>>
      BY <1>6 DEF Receive, HangUp, Break, Send
    <2>2. \A d \in Clients : link'[d] = "new" <=> link[d] = "new"
      BY <1>6 DEF Receive, HangUp, Break, Send, ServerInv, TypeOK
    <2>3. \A i \in 1 .. Len(backlog) : backlog[i] \in Clients
      BY DEF ServerInv, TypeOK
    <2>4. WaitingInv'
      BY <2>1, <2>2, <2>3 DEF WaitingInv, server
    <2> QED
      BY <1>1, <2>1, <2>4 DEF QuitEndsConnections, server
  <1> QED
    BY <1>2, <1>3, <1>4, <1>5, <1>6 DEF Next, Server

LEMMA BitbangInvariant == Spec => []BitbangInv
  BY BitbangInit, BitbangStep, PTL DEF Spec

-------------------------------------------------------------------------------
(* Every variable of the server and the network holds a value of its type. *)
THEOREM BitbangTypeCorrect == Spec => []TypeOK
  <1>1. BitbangInv => TypeOK
    BY DEF BitbangInv, ServerInv
  <1> QED
    BY <1>1, BitbangInvariant, PTL

(* After Q, a connection is closed with its first command.                 *)
THEOREM QuitIsForGood == Spec => []QuitEndsConnections
  <1>1. BitbangInv => QuitEndsConnections
    BY DEF BitbangInv
  <1> QED
    BY <1>1, BitbangInvariant, PTL

(* The pins change at most once between two ticks the simulation sees.     *)
THEOREM NoEdgeIsLost == Spec => EveryEdgeSeen
  <1>1. BitbangInv /\ [Next]_vars => (init /\ pins' # pins => wires = pins)
    <2> SUFFICES ASSUME BitbangInv, [Next]_vars, init, pins' # pins PROVE wires = pins
      OBVIOUS
    <2>1. CASE Tick
      BY <2>1 DEF Tick
    <2>2. CASE Execute
      BY <2>2 DEF Execute, BitbangInv, ServerInv, TickInv
    <2> QED
      BY <2>1, <2>2 DEF Next, Server, InitFails, Accept, AcceptFails, ReadEnd, ReadFails,
                        ReplyFails, Return, Abort, Simulate, Connect, Receive, HangUp,
                        Break, Send, vars, server
  <1> QED
    BY <1>1, BitbangInvariant, PTL DEF EveryEdgeSeen, Spec

(* What a debugger reads is the TDO of the tick it is answered in.         *)
THEOREM ReplyIsFresh == Spec => ReplyIsCurrent
  <1>1. BitbangInv /\ [Next]_vars =>
          \A c \in Clients : Len(replies'[c]) > Len(replies[c]) =>
              replies'[c] = Append(replies[c], line)
    <2> SUFFICES ASSUME BitbangInv, [Next]_vars, NEW c \in Clients,
                        Len(replies'[c]) > Len(replies[c])
                 PROVE  replies'[c] = Append(replies[c], line)
      OBVIOUS
    <2>1. replies \in [Clients -> Seq(Bit)] /\ Len(replies[c]) \in Nat /\ replies[c] \in Seq(Bit)
      BY DEF BitbangInv, ServerInv, TypeOK
    <2>2. replies' # replies
      BY <2>1
    <2>3. CASE Execute
      <3>1. client \in Clients /\ tdo = line
        BY <2>3 DEF Execute, BitbangInv, ServerInv, TypeOK, TickInv
      <3>2. replies' = [replies EXCEPT ![client] = Append(@, tdo)]
        BY <2>2, <2>3 DEF Execute
      <3>3. c = client
        BY <2>1, <3>1, <3>2
      <3> QED
        BY <2>1, <3>1, <3>2, <3>3
    <2>4. ASSUME NEW d \in Clients, Receive(d) PROVE FALSE
      <3>1. replies' = [replies EXCEPT ![d] = Tail(@)] /\ replies[d] # <<>>
        BY <2>4 DEF Receive
      <3>2. Len(Tail(replies[d])) = Len(replies[d]) - 1
        BY <2>1, <3>1, HeadTailProperties
      <3>3. c = d
        BY <2>1, <3>1
      <3> QED
        BY <2>1, <3>1, <3>2, <3>3
    <2> QED
      BY <2>2, <2>3, <2>4
         DEF Next, Server, Tick, InitFails, Accept, AcceptFails, ReadEnd, ReadFails,
             ReplyFails, Return, Abort, Simulate, Connect, HangUp, Break, Send, vars, network
  <1> QED
    BY <1>1, BitbangInvariant, PTL DEF ReplyIsCurrent, Spec

(* A debugger that hangs up without Q is the server's client for good.     *)
THEOREM HangUpStarvesOthers == Spec => HangUpKeepsServer
  <1>1. BitbangInv /\ [Next]_vars =>
          \A c \in Clients :
            client = c /\ link[c] \in {"closed", "reset"} /\ inbox[c] = <<>> => client' = c
    <2> SUFFICES ASSUME BitbangInv, [Next]_vars, NEW c \in Clients,
                        client = c, inbox[c] = <<>>
                 PROVE  client' = c
      OBVIOUS
    <2>1. CASE Accept
      BY <2>1, ClientsAssumption DEF Accept, BitbangInv, ServerInv, TypeOK
    <2>2. CASE Execute
      BY <2>2 DEF Execute
    <2> QED
      BY <2>1, <2>2 DEF Next, Server, Tick, InitFails, AcceptFails, ReadEnd, ReadFails,
                        ReplyFails, Return, Abort, Simulate, Connect, Receive, HangUp,
                        Break, Send, vars, server
  <1> QED
    BY <1>1, BitbangInvariant, PTL DEF HangUpKeepsServer, Spec
===============================================================================
