----------------------------- MODULE FastIntrCtrl -----------------------------
(***************************************************************************)
(* The fast interrupt controller, its driver and the peripherals behind    *)
(* its lines.                                                              *)
(*                                                                         *)
(* Every action is one clock cycle: the controller updates its registers,  *)
(* the peripherals move their lines, and the processor does at most one    *)
(* thing.  A peripheral raises its line and either holds it until its      *)
(* handler serves it, or lowers it after one cycle.                        *)
(***************************************************************************)
EXTENDS Integers

CONSTANTS
    Source,         \* the lines of the controller
    Pulse,          \* those of peripherals that raise it for one cycle only
    ResetEnable,    \* FAST_INTR_ENABLE after reset
    MaxRaise        \* bound: how often a peripheral raises its line

NoSource == "none"
Nothing == {"nothing"}

ASSUME SourceAssumption ==
    /\ NoSource \notin Source
    /\ Nothing \notin SUBSET Source
    /\ Pulse \subseteq Source
    /\ ResetEnable \subseteq Source
    /\ MaxRaise \in Nat

VARIABLES
    irq,        \* fast_intr_i: the lines raised
    pending,    \* FAST_INTR_PENDING, and the interrupts the processor sees
    clear,      \* FAST_INTR_CLEAR
    enable,     \* FAST_INTR_ENABLE
    copy,       \* the value enable_fast_interrupt has read, or Nothing
    cause,      \* the source whose handler runs, or NoSource
    cleared,    \* whether that handler has written FAST_INTR_CLEAR
    raised,     \* history: how often each line was raised
    runs        \* history: how often each handler was entered

vars == <<irq, pending, clear, enable, copy, cause, cleared, raised, runs>>

Init ==
    /\ irq = {}
    /\ pending = {}
    /\ clear = {}
    /\ enable = ResetEnable
    /\ copy = Nothing
    /\ cause = NoSource
    /\ cleared = FALSE
    /\ raised = [s \in Source |-> 0]
    /\ runs = [s \in Source |-> 0]

-------------------------------------------------------------------------------
(***************************************************************************)
(* The hardware's part of a cycle.                                         *)
(***************************************************************************)

(* Mutant: the mask lets the disabled lines through. *)
PendingInverted ==
    IF clear # {} \/ irq # {} THEN (irq \ clear) \ enable ELSE pending

(* FAST_INTR_PENDING has one write enable for all its bits: whatever line moves *)
(* or is cleared, all of them are loaded.                                  *)
NextPending ==
    IF clear # {} \/ irq # {} THEN (irq \ clear) \cap enable ELSE pending

(* A cycle in which the processor writes w to FAST_INTR_CLEAR ({}: does    *)
(* not write it), after which the lines in low are down.                   *)
Clock(w, low) ==
    /\ pending' = NextPending
    /\ clear' = w
    /\ \E up \in SUBSET {s \in Source \ irq : raised[s] < MaxRaise} :
          /\ irq' = (irq \ (Pulse \union low)) \union up
          /\ raised' = [s \in Source |-> raised[s] + IF s \in up THEN 1 ELSE 0]

-------------------------------------------------------------------------------
(***************************************************************************)
(* The processor's part.                                                   *)
(***************************************************************************)
Pass ==
    /\ Clock({}, {})
    /\ UNCHANGED <<enable, copy, cause, cleared, runs>>

(* A pending interrupt enters handler_irq_fast_<s>; handlers do not nest.  *)
TakeInterrupt(s) ==
    /\ cause = NoSource
    /\ s \in pending
    /\ cause' = s
    /\ cleared' = FALSE
    /\ runs' = [runs EXCEPT ![s] = @ + 1]
    /\ Clock({}, {})
    /\ UNCHANGED <<enable, copy>>

(* Mutant: FAST_INTR_CLEAR is written with every bit set. *)
ClearAllInterrupts ==
    /\ cause # NoSource
    /\ ~cleared
    /\ cleared' = TRUE
    /\ Clock(Source, {})
    /\ UNCHANGED <<enable, copy, cause, runs>>

(* Mutant: the handler does not write FAST_INTR_CLEAR. *)
ClearNoInterrupt ==
    /\ cause # NoSource
    /\ ~cleared
    /\ cleared' = TRUE
    /\ Clock({}, {})
    /\ UNCHANGED <<enable, copy, cause, runs>>

(* The handler clears its interrupt first ... *)
ClearFastInterrupt ==
    /\ cause # NoSource
    /\ ~cleared
    /\ cleared' = TRUE
    /\ Clock({cause}, {})
    /\ UNCHANGED <<enable, copy, cause, runs>>

(* ... then calls fic_irq_<s>, which serves the peripheral, and returns. *)
Serve ==
    /\ cause # NoSource
    /\ cleared
    /\ cause' = NoSource
    /\ cleared' = FALSE
    /\ Clock({}, {cause})
    /\ UNCHANGED <<enable, copy, runs>>

(* enable_fast_interrupt reads the register and writes it back changed. *)
ReadEnable ==
    /\ cause = NoSource
    /\ copy = Nothing
    /\ copy' = enable
    /\ Clock({}, {})
    /\ UNCHANGED <<enable, cause, cleared, runs>>

WriteEnable ==
    /\ cause = NoSource
    /\ copy # Nothing
    /\ \E s \in Source : enable' \in {copy \union {s}, copy \ {s}}
    /\ copy' = Nothing
    /\ Clock({}, {})
    /\ UNCHANGED <<cause, cleared, runs>>

EnableAllFastInterrupts ==
    /\ cause = NoSource
    /\ copy = Nothing
    /\ enable' \in {Source, {}}
    /\ Clock({}, {})
    /\ UNCHANGED <<copy, cause, cleared, runs>>

-------------------------------------------------------------------------------
Handler == (\E s \in Source : TakeInterrupt(s)) \/ ClearFastInterrupt \/ Serve

Next ==
    \/ Pass
    \/ Handler
    \/ ReadEnable \/ WriteEnable \/ EnableAllFastInterrupts

Spec == Init /\ [][Next]_vars

(* The clock runs, and the processor runs its handlers. *)
Fairness == WF_vars(Pass) /\ WF_vars(Handler)

FairSpec == Spec /\ Fairness

-------------------------------------------------------------------------------
(* The registers hold sets of lines; the driver clears one line at a time. *)
TypeOK ==
    /\ irq \subseteq Source
    /\ pending \subseteq Source
    /\ clear \in {{}} \union {{s} : s \in Source}
    /\ enable \subseteq Source
    /\ copy \in {Nothing} \union SUBSET Source
    /\ cause \in {NoSource} \union Source
    /\ cleared \in BOOLEAN
    /\ raised \in [Source -> 0..MaxRaise]
    /\ runs \in [Source -> Nat]

(* A handler clears before it serves, so a line that is held sets the bit  *)
(* again and the handler runs a second time for nothing.  It does so once, *)
(* whatever the other lines and handlers do meanwhile.                     *)
AtMostTwoRuns == \A s \in Source : runs[s] <= 2 * raised[s]

(* A line that is held and stays enabled is served, however the clearing   *)
(* of other lines falls between: the controller loads all bits at once and *)
(* must not drop this one.                                                 *)
HeldLineServed ==
    \A s \in Source \ Pulse : s \in irq ~> (s \notin irq \/ s \notin enable)

(* fast_intr_ctrl.h: "clean the bit inside FAST_INTR_PENDING register for  *)
(* the requested peripheral": the other bits stay.                         *)
ClearsOnlyItsBit ==
    [][clear # {} => \A s \in pending \ clear : s \in pending']_vars
===============================================================================
