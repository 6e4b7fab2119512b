------------------------------- MODULE Bitbang --------------------------------
(***************************************************************************)
(* The JTAG server of the simulation: remote_bitbang.c serves one debugger *)
(* at a time over a socket and drives the JTAG pins, one command for every *)
(* call of jtag_tick (sim_jtag.c).  The simulation stands still while a    *)
(* tick runs.                                                              *)
(***************************************************************************)
EXTENDS Integers, Sequences

CONSTANTS
    Clients,        \* connections of debuggers
    Commands,       \* the characters they send
    NoClient,       \* client_fd = 0
    SendCap,        \* bound: characters a client sends
    ReplyCap        \* replies that fit the socket's send buffer

ASSUME ClientsAssumption == NoClient \notin Clients
ASSUME CapsAssumption == SendCap \in Nat /\ ReplyCap \in Nat

PinCommands == <<"0", "1", "2", "3", "4", "5", "6", "7">>
Bit == {0, 1}
Pins == Bit \X Bit \X Bit      \* tck, tms, tdi; trstn is always 1

VARIABLES
    init,           \* rbs_init is done
    pins, quit, client,
    pc,             \* where jtag_tick is
    tdo,            \* the sample the tick was called with
    wires,          \* the pins the simulation sees
    exit,           \* the value jtag_tick returned last
    line,           \* the TDO of the simulated debug module
    backlog,        \* connections not accepted yet
    link,           \* state of each connection
    inbox, replies, \* characters under way to and from the server
    sent,           \* number of characters a client has sent
    count           \* history: commands executed for a connection

server == <<init, pins, quit, client, pc, tdo, wires, exit, count>>
network == <<backlog, link, inbox, replies, sent>>
vars == <<server, line, network>>

Init ==
    /\ init = FALSE
    /\ pins = <<0, 0, 0>> /\ wires = <<0, 0, 0>> /\ quit = 0 /\ client = NoClient
    /\ pc = "idle" /\ tdo = 0 /\ exit = 0 /\ line = 0
    /\ backlog = <<>>
    /\ link = [c \in Clients |-> "new"]
    /\ inbox = [c \in Clients |-> <<>>] /\ replies = [c \in Clients |-> <<>>]
    /\ sent = [c \in Clients |-> 0] /\ count = [c \in Clients |-> 0]

-------------------------------------------------------------------------------
(* The debuggers and the network. *)
Connect(c) ==
    /\ init /\ link[c] = "new"
    /\ link' = [link EXCEPT ![c] = "open"]
    /\ backlog' = Append(backlog, c)
    /\ UNCHANGED <<server, line, inbox, replies, sent>>

Send(c, cmd) ==
    /\ link[c] = "open" /\ sent[c] < SendCap
    /\ inbox' = [inbox EXCEPT ![c] = Append(@, cmd)]
    /\ sent' = [sent EXCEPT ![c] = @ + 1]
    /\ UNCHANGED <<server, line, backlog, link, replies>>

Receive(c) ==
    /\ link[c] = "open" /\ replies[c] # <<>>
    /\ replies' = [replies EXCEPT ![c] = Tail(@)]
    /\ UNCHANGED <<server, line, backlog, link, inbox, sent>>

HangUp(c) ==
    /\ link[c] = "open"
    /\ link' = [link EXCEPT ![c] = "closed"]
    /\ UNCHANGED <<server, line, backlog, inbox, replies, sent>>

(* The connection breaks: the next call on it fails. *)
Break(c) ==
    /\ link[c] \in {"open", "closed"}
    /\ link' = [link EXCEPT ![c] = "reset"]
    /\ inbox' = [inbox EXCEPT ![c] = <<>>]
    /\ UNCHANGED <<server, line, backlog, replies, sent>>

(* The simulated hardware, between two ticks. *)
Simulate ==
    /\ pc = "idle"
    /\ line' = 1 - line
    /\ UNCHANGED <<server, network>>

-------------------------------------------------------------------------------
(* The server: jtag_tick. *)
Abort ==
    /\ pc' = "aborted"
    /\ UNCHANGED <<init, pins, quit, client, tdo, wires, exit, count, line, network>>

(* Mutant: TDO is taken when the client is accepted. *)
TickStale ==
    /\ pc = "idle"
    /\ init' = TRUE
    /\ pins' = IF init THEN pins ELSE <<1, 1, 1>>
    /\ tdo' = IF client # NoClient THEN tdo ELSE line
    /\ pc' = IF client # NoClient THEN "reading" ELSE "accepting"
    /\ UNCHANGED <<quit, client, wires, exit, count, line, network>>

(* Mutant: whether there is a client is not looked at. *)
TickReads ==
    /\ pc = "idle"
    /\ init' = TRUE
    /\ pins' = IF init THEN pins ELSE <<1, 1, 1>>
    /\ tdo' = line
    /\ pc' = "reading"
    /\ UNCHANGED <<quit, client, wires, exit, count, line, network>>

(* The first tick opens the socket. *)
Tick ==
    /\ pc = "idle"
    /\ init' = TRUE
    /\ pins' = IF init THEN pins ELSE <<1, 1, 1>>
    /\ tdo' = IF client # NoClient THEN line ELSE tdo
    /\ pc' = IF client # NoClient THEN "reading" ELSE "accepting"
    /\ UNCHANGED <<quit, client, wires, exit, count, line, network>>

(* The port is not in the range, or a call on the socket fails. *)
InitFails == pc = "idle" /\ ~init /\ Abort

(* rbs_accept calls accept until there is a client. *)
Accept ==
    /\ pc = "accepting" /\ backlog # <<>> /\ link[Head(backlog)] # "reset"
    /\ client' = Head(backlog)
    /\ backlog' = Tail(backlog)
    /\ pc' = "returning"
    /\ UNCHANGED <<init, pins, quit, tdo, wires, exit, count, line, link, inbox, replies, sent>>

AcceptFails ==
    pc = "accepting" /\ backlog # <<>> /\ link[Head(backlog)] = "reset" /\ Abort

(* Mutant: a client that hung up is let go. *)
ReadEndCloses ==
    /\ pc = "reading" /\ link[client] = "closed" /\ inbox[client] = <<>>
    /\ pc' = "returning"
    /\ client' = NoClient
    /\ UNCHANGED <<init, pins, quit, tdo, wires, exit, count, line, network>>

(* Mutant: the end of a connection is seen before what it sent is read. *)
ReadEndEarly ==
    /\ pc = "reading" /\ link[client] = "closed"
    /\ pc' = "returning"
    /\ UNCHANGED <<init, pins, quit, client, tdo, wires, exit, count, line, network>>

(* The peer has closed: the tick ends and the client stays. *)
ReadEnd ==
    /\ pc = "reading" /\ link[client] = "closed" /\ inbox[client] = <<>>
    /\ pc' = "returning"
    /\ UNCHANGED <<init, pins, quit, client, tdo, wires, exit, count, line, network>>

ReadFails == pc = "reading" /\ link[client] = "reset" /\ Abort

(* A reply that does not fit the socket's buffer stops the program. *)
ReplyFails ==
    /\ pc = "reading" /\ inbox[client] # <<>> /\ Head(inbox[client]) = "R"
    /\ Len(replies[client]) >= ReplyCap
    /\ Abort

PinsOf(cmd) == LET i == CHOOSE i \in 1 .. 8 : PinCommands[i] = cmd
               IN  <<(i - 1) \div 4, ((i - 1) \div 2) % 2, (i - 1) % 2>>

IsPinCommand(cmd) == \E i \in 1 .. 8 : PinCommands[i] = cmd

(* Mutant: commands are executed as long as there are any. *)
ExecuteMany ==
    /\ pc = "reading" /\ inbox[client] # <<>>
    /\ Head(inbox[client]) = "R" => Len(replies[client]) < ReplyCap
    /\ LET cmd == Head(inbox[client])
       IN  /\ inbox' = [inbox EXCEPT ![client] = Tail(@)]
           /\ pins' = IF IsPinCommand(cmd) THEN PinsOf(cmd) ELSE pins
           /\ replies' = IF cmd = "R" THEN [replies EXCEPT ![client] = Append(@, tdo)]
                         ELSE replies
           /\ quit' = IF cmd = "Q" THEN 1 ELSE quit
    /\ count' = [count EXCEPT ![client] = @ + 1]
    /\ client' = IF quit' = 1 THEN NoClient ELSE client
    /\ pc' = IF quit' = 0 /\ inbox'[client] # <<>> THEN "reading" ELSE "returning"
    /\ UNCHANGED <<init, tdo, wires, exit, line, backlog, link, sent>>

(* Mutant: only Q itself closes the connection. *)
ExecuteKeeps ==
    /\ pc = "reading" /\ inbox[client] # <<>>
    /\ Head(inbox[client]) = "R" => Len(replies[client]) < ReplyCap
    /\ LET cmd == Head(inbox[client])
       IN  /\ inbox' = [inbox EXCEPT ![client] = Tail(@)]
           /\ pins' = IF IsPinCommand(cmd) THEN PinsOf(cmd) ELSE pins
           /\ replies' = IF cmd = "R" THEN [replies EXCEPT ![client] = Append(@, tdo)]
                         ELSE replies
           /\ quit' = IF cmd = "Q" THEN 1 ELSE quit
           /\ client' = IF cmd = "Q" THEN NoClient ELSE client
    /\ count' = [count EXCEPT ![client] = @ + 1]
    /\ pc' = "returning"
    /\ UNCHANGED <<init, tdo, wires, exit, line, backlog, link, sent>>

(* rbs_execute_command reads until there is a command and executes it.     *)
(* The other commands (B, b, r, s, t, u and unknown ones) do nothing.      *)
Execute ==
    /\ pc = "reading" /\ inbox[client] # <<>>
    /\ Head(inbox[client]) = "R" => Len(replies[client]) < ReplyCap
    /\ LET cmd == Head(inbox[client])
       IN  /\ inbox' = [inbox EXCEPT ![client] = Tail(@)]
           /\ pins' = IF IsPinCommand(cmd) THEN PinsOf(cmd) ELSE pins
           /\ replies' = IF cmd = "R" THEN [replies EXCEPT ![client] = Append(@, tdo)]
                         ELSE replies
           /\ quit' = IF cmd = "Q" THEN 1 ELSE quit
    /\ count' = [count EXCEPT ![client] = @ + 1]
    /\ client' = IF quit' = 1 THEN NoClient ELSE client
    /\ pc' = "returning"
    /\ UNCHANGED <<init, tdo, wires, exit, line, backlog, link, sent>>

(* rbs_err is never set. *)
Return ==
    /\ pc = "returning"
    /\ wires' = pins
    /\ exit' = quit
    /\ pc' = "idle"
    /\ UNCHANGED <<init, pins, quit, client, tdo, count, line, network>>

Server == \/ Tick \/ InitFails \/ Accept \/ AcceptFails
          \/ ReadEnd \/ ReadFails \/ ReplyFails \/ Execute \/ Return

Next ==
    \/ Server \/ Simulate
    \/ \E c \in Clients :
         \/ Connect(c) \/ Receive(c) \/ HangUp(c) \/ Break(c)
         \/ \E cmd \in Commands : Send(c, cmd)

(* The simulation goes on calling jtag_tick; debuggers may do nothing. *)
Spec == Init /\ [][Next]_vars /\ WF_vars(Server)

-------------------------------------------------------------------------------
TypeOK ==
    /\ init \in BOOLEAN
    /\ pins \in Pins /\ wires \in Pins
    /\ quit \in Bit /\ tdo \in Bit /\ exit \in Bit /\ line \in Bit
    /\ client \in Clients \union {NoClient}
    /\ pc \in {"idle", "accepting", "reading", "returning", "aborted"}
    /\ pc = "reading" => client # NoClient
    /\ pc = "accepting" => client = NoClient
    /\ backlog \in Seq(Clients)
    /\ link \in [Clients -> {"new", "open", "closed", "reset"}]
    /\ inbox \in [Clients -> Seq(Commands)]
    /\ replies \in [Clients -> Seq(Bit)]
    /\ sent \in [Clients -> Nat] /\ count \in [Clients -> Nat]

(* The simulated debug module sees every value of the pins: they change    *)
(* only when it has seen the last one ("we only execute 1 because we need  *)
(* time for the simulation to run", remote_bitbang.h).                     *)
EveryEdgeSeen == [][init /\ pins' # pins => wires = pins]_vars

(* A reply is the TDO the simulation shows when it is sent, not one of an  *)
(* earlier tick: the debugger shifts out what it has just shifted to       *)
(* (rbs_tick, rbs_execute_command).                                        *)
ReplyIsCurrent ==
    [][\A c \in Clients : Len(replies'[c]) > Len(replies[c]) =>
            replies'[c] = Append(replies[c], line)]_vars

(* quit is never taken back: after it every connection ends with its first *)
(* command, so that none has had one executed when it is waited for.       *)
QuitEndsConnections ==
    quit = 1 /\ client # NoClient /\ pc # "aborted" => count[client] = 0

(* A debugger that hangs up without Q keeps the server: no other           *)
(* connection is ever served.                                              *)
HangUpKeepsServer ==
    [][\A c \in Clients :
            client = c /\ link[c] \in {"closed", "reset"} /\ inbox[c] = <<>> => client' = c]_vars

(* What the connected debugger has sent is executed, unless the connection *)
(* or the program ends first.                                              *)
CommandsExecuted ==
    \A c \in Clients :
        (client = c /\ inbox[c] # <<>>) ~> (inbox[c] = <<>> \/ client # c \/ pc = "aborted")

(* A tick ends once a debugger connects, sends or leaves.  Until then it   *)
(* does not: rbs_accept and rbs_execute_command wait in loops for what the *)
(* comments put off to the next call (remote_bitbang.c:138,                *)
(* remote_bitbang.h:39), and the simulation stands still.                  *)
TickEnds ==
    (\/ pc = "accepting" /\ backlog # <<>>
     \/ pc = "reading" /\ (inbox[client] # <<>> \/ link[client] # "open"))
        ~> (pc \in {"idle", "aborted"})

(* A debugger that does its part is served (rbs_accept,                    *)
(* rbs_execute_command).                                                   *)
DebuggersServed == CommandsExecuted /\ TickEnds
===============================================================================
