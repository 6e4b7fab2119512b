------------------------------ MODULE SerialPort ------------------------------
(***************************************************************************)
(* What the peripheral bus promises its masters, without saying how: it    *)
(* serves one transaction at a time; serving a transaction means making    *)
(* every register access of its lanes exactly once; the transaction is     *)
(* answered once, after its last access; and the answer flags a fault as a *)
(* function of the faults of those accesses.                               *)
(***************************************************************************)
EXTENDS Naturals

CONSTANTS
    Port,           \* the channels of the masters that can hold a request
    Request(_),     \* the transactions a port may issue
    NoReq,          \* marks a port without a transaction
    NoPort,         \* marks an idle bus
    Bank,           \* the lanes of the data bus
    Lanes(_),       \* the lanes on which a transaction accesses a register
    Flagged(_)      \* whether the answer to a transaction reports an error

VARIABLES
    req,            \* req[p]: the transaction p waits for, or NoReq
    serving,        \* the port whose transaction is being served, or NoPort
    hits,           \* hits[b]: accesses made on lane b for that transaction
    ans             \* ans[p]: the last answer of p, "none" while it waits

svars == <<req, serving, hits, ans>>

Untouched == [b \in Bank |-> 0]

SInit ==
    /\ req = [p \in Port |-> NoReq]
    /\ serving = NoPort
    /\ hits = Untouched
    /\ ans = [p \in Port |-> "none"]

(* A master puts a transaction on a port that has none. *)
SAsk(p) ==
    /\ req[p] = NoReq
    /\ \E r \in Request(p) : req' = [req EXCEPT ![p] = r]
    /\ ans' = [ans EXCEPT ![p] = "none"]
    /\ UNCHANGED <<serving, hits>>

(* The idle bus commits itself to one of the transactions that wait. *)
SServe(p) ==
    /\ serving = NoPort
    /\ req[p] # NoReq
    /\ serving' = p
    /\ UNCHANGED <<req, hits, ans>>

(* A register access, on a lane of the transaction that had none so far. *)
SAccess(b) ==
    /\ serving # NoPort
    /\ b \in Lanes(req[serving])
    /\ hits[b] = 0
    /\ hits' = [hits EXCEPT ![b] = 1]
    /\ UNCHANGED <<req, serving, ans>>

(* All accesses made: the transaction is answered and the bus is idle. *)
SAnswer ==
    /\ serving # NoPort
    /\ \A b \in Lanes(req[serving]) : hits[b] = 1
    /\ ans' = [ans EXCEPT ![serving] =
                 IF Flagged(req[serving]) THEN "slverr" ELSE "okay"]
    /\ req' = [req EXCEPT ![serving] = NoReq]
    /\ serving' = NoPort
    /\ hits' = Untouched

SNext ==
    \/ \E p \in Port : SAsk(p) \/ SServe(p)
    \/ \E b \in Bank : SAccess(b)
    \/ SAnswer

SSpec == SInit /\ [][SNext]_svars
===============================================================================
