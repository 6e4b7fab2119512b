-------------------------- MODULE FastIntrCtrlProofs --------------------------
(***************************************************************************)
(* Proofs about FastIntrCtrl, for every set of lines, held or pulsed, and  *)
(* every bound on how often they are raised.                               *)
(***************************************************************************)
EXTENDS FastIntrCtrl, TLAPS

(* A clear bit is set only while the handler that wrote it runs. *)
ClearInv == \A s \in clear : cause = s /\ cleared

(* The runs of the handler of s that what is raised or pending can still   *)
(* cause: a line that is up can be seen before and after the handler       *)
(* clears its bit; a bit alone is seen once, unless it is being cleared or *)
(* about to be.                                                            *)
Owed(s) ==
    IF s \in irq THEN IF cause = s THEN 1 ELSE 2
    ELSE IF s \in pending /\ s \notin clear /\ (cause # s \/ cleared) THEN 1 ELSE 0

RunsInv == \A s \in Source : runs[s] + Owed(s) <= 2 * raised[s]

HandlerInv == TypeOK /\ ClearInv /\ RunsInv

-------------------------------------------------------------------------------
(* What a cycle leaves behind, whatever the processor does in it.          *)
LEMMA ClockTypes ==
    ASSUME TypeOK, NEW w \in {{}} \union {{s} : s \in Source}, NEW low, Clock(w, low)
    PROVE  /\ irq' \subseteq Source
           /\ pending' \subseteq Source
           /\ clear' = w
           /\ raised' \in [Source -> 0..MaxRaise]
  <1>1. pending' \subseteq Source /\ clear' = w
    BY DEF Clock, NextPending, TypeOK
  <1>2. PICK up \in SUBSET {s \in Source \ irq : raised[s] < MaxRaise} :
          /\ irq' = (irq \ (Pulse \union low)) \union up
          /\ raised' = [s \in Source |-> raised[s] + IF s \in up THEN 1 ELSE 0]
    BY DEF Clock
  <1>3. \A s \in Source : raised[s] + (IF s \in up THEN 1 ELSE 0) \in 0..MaxRaise
    <2>1. ASSUME NEW s \in Source
          PROVE  raised[s] + (IF s \in up THEN 1 ELSE 0) \in 0..MaxRaise
      <3>1. raised[s] \in 0..MaxRaise /\ MaxRaise \in Nat
        BY SourceAssumption DEF TypeOK
      <3>2. CASE s \in up
        BY <3>1, <3>2, <1>2
      <3>3. CASE s \notin up
        BY <3>1, <3>3
      <3> QED BY <3>2, <3>3
    <2> QED BY <2>1
  <1> QED BY <1>1, <1>2, <1>3 DEF TypeOK

(* A line that goes up has been counted, and one that was up or pending    *)
(* gives no more than a pending bit when it goes down.                     *)
LEMMA ClockLine ==
    ASSUME TypeOK, NEW w, NEW low, Clock(w, low), NEW s \in Source
    PROVE  /\ raised'[s] = raised[s] \/ raised'[s] = raised[s] + 1
           /\ s \in irq' /\ s \notin irq => raised'[s] = raised[s] + 1
           /\ s \in irq /\ s \in low => s \notin irq'
           /\ s \in pending' => s \in irq \/ s \in pending
           /\ s \in clear => s \notin pending'
    BY SourceAssumption DEF Clock, NextPending, TypeOK

(* Nothing is raised or owed after reset. *)
LEMMA HandlerInit == Init => HandlerInv
  <1> SUFFICES ASSUME Init PROVE HandlerInv
    OBVIOUS
  <1>1. raised \in [Source -> 0..MaxRaise] /\ runs \in [Source -> Nat]
    BY SourceAssumption DEF Init
  <1>2. TypeOK
    BY <1>1, SourceAssumption DEF Init, TypeOK
  <1>3. \A s \in Source : runs[s] = 0 /\ raised[s] = 0
    BY DEF Init
  <1>4. RunsInv
    <2> SUFFICES ASSUME NEW s \in Source PROVE runs[s] + Owed(s) <= 2 * raised[s]
      BY DEF RunsInv
    <2>1. Owed(s) = 0
      BY DEF Owed, Init
    <2> QED BY <1>3, <2>1
  <1>5. ClearInv
    BY DEF Init, ClearInv
  <1> QED BY <1>2, <1>4, <1>5 DEF HandlerInv

(* The steps of the processor, by what they do to the handler.             *)
LEMMA HandlerStep == HandlerInv /\ [Next]_vars => HandlerInv'
  <1> SUFFICES ASSUME HandlerInv, [Next]_vars PROVE HandlerInv'
    OBVIOUS
  <1> USE DEF HandlerInv
  <1>1. CASE Pass \/ ReadEnable \/ WriteEnable \/ EnableAllFastInterrupts
    <2>1. Clock({}, {}) /\ UNCHANGED <<cause, cleared, runs>>
      BY <1>1 DEF Pass, ReadEnable, WriteEnable, EnableAllFastInterrupts
    <2>2. enable' \subseteq Source /\ copy' \in {Nothing} \union SUBSET Source
      BY <1>1 DEF Pass, ReadEnable, WriteEnable, EnableAllFastInterrupts, TypeOK
    <2>3. TypeOK'
      BY <2>1, <2>2, ClockTypes DEF TypeOK
    <2>4. clear' = {}
      BY <2>1 DEF Clock
    <2>5. RunsInv'
      <3> SUFFICES ASSUME NEW s \in Source PROVE (runs[s] + Owed(s) <= 2 * raised[s])'
        BY DEF RunsInv
      <3>1. runs[s] + Owed(s) <= 2 * raised[s] /\ runs[s] \in Nat /\ raised[s] \in Nat
        BY DEF RunsInv, TypeOK
      <3>2. runs'[s] = runs[s] /\ cause' = cause /\ cleared' = cleared
        BY <2>1
      <3> QED
        BY <2>1, <2>4, <3>1, <3>2, ClockLine DEF Owed, ClearInv
    <2> QED BY <2>3, <2>4, <2>5 DEF ClearInv
  <1>2. ASSUME NEW t \in Source, TakeInterrupt(t) PROVE HandlerInv'
    <2>1. Clock({}, {}) /\ cause = NoSource /\ t \in pending /\ cause' = t
          /\ cleared' = FALSE /\ runs' = [runs EXCEPT ![t] = @ + 1]
          /\ enable' = enable /\ copy' = copy
      BY <1>2 DEF TakeInterrupt
    <2>2. TypeOK'
      <3>1. runs' \in [Source -> Nat]
        BY <2>1 DEF TypeOK
      <3>2. {} \in {{}} \union {{s} : s \in Source}
        OBVIOUS
      <3>3. irq' \subseteq Source /\ pending' \subseteq Source /\ clear' = {}
            /\ raised' \in [Source -> 0..MaxRaise]
        BY <2>1, <3>2, ClockTypes
      <3> QED BY <2>1, <3>1, <3>3 DEF TypeOK
    <2>3. clear = {} /\ clear' = {}
      <3>1. clear' = {}
        BY <2>1 DEF Clock
      <3>2. \A s \in clear : s \in Source /\ cause = s
        BY DEF ClearInv, TypeOK
      <3> QED BY <2>1, <3>1, <3>2, SourceAssumption
    <2>4. RunsInv'
      <3>1. ASSUME NEW s \in Source PROVE (runs[s] + Owed(s) <= 2 * raised[s])'
        <4>1. runs[s] + Owed(s) <= 2 * raised[s] /\ runs[s] \in Nat /\ raised[s] \in Nat
          BY DEF RunsInv, TypeOK
        <4>2. cause # s
          BY <2>1, SourceAssumption
        <4>3. CASE s = t
          <5>1. runs'[s] = runs[s] + 1
            BY <2>1, <4>3 DEF TypeOK
          <5> QED
            BY <2>1, <2>3, <4>1, <4>2, <4>3, <5>1, ClockLine DEF Owed
        <4>4. CASE s # t
          <5>1. runs'[s] = runs[s]
            BY <2>1, <4>4 DEF TypeOK
          <5> QED
            BY <2>1, <2>3, <4>1, <4>2, <4>4, <5>1, ClockLine DEF Owed
        <4> QED BY <4>3, <4>4
      <3> QED BY <3>1 DEF RunsInv
    <2> QED BY <2>2, <2>3, <2>4 DEF ClearInv
  <1>3. CASE ClearFastInterrupt
    <2>1. Clock({cause}, {}) /\ cause # NoSource /\ ~cleared /\ cleared' = TRUE
          /\ UNCHANGED <<enable, copy, cause, runs>>
      BY <1>3 DEF ClearFastInterrupt
    <2>2. TypeOK'
      BY <2>1, ClockTypes DEF TypeOK
    <2>3. clear = {} /\ clear' = {cause}
      BY <2>1 DEF Clock, ClearInv, TypeOK
    <2>4. RunsInv'
      <3>1. ASSUME NEW s \in Source PROVE (runs[s] + Owed(s) <= 2 * raised[s])'
        <4>1. runs[s] + Owed(s) <= 2 * raised[s] /\ runs[s] \in Nat /\ raised[s] \in Nat
          BY DEF RunsInv, TypeOK
        <4> QED
          BY <2>1, <2>3, <4>1, ClockLine DEF Owed
      <3> QED BY <3>1 DEF RunsInv
    <2> QED BY <2>1, <2>2, <2>3, <2>4 DEF ClearInv
  <1>4. CASE Serve
    <2>1. Clock({}, {cause}) /\ cause # NoSource /\ cleared /\ cause' = NoSource
          /\ cleared' = FALSE /\ UNCHANGED <<enable, copy, runs>>
      BY <1>4 DEF Serve
    <2>2. TypeOK'
      BY <2>1, ClockTypes DEF TypeOK
    <2>3. clear' = {}
      BY <2>1 DEF Clock
    <2>4. RunsInv'
      <3>1. ASSUME NEW s \in Source PROVE (runs[s] + Owed(s) <= 2 * raised[s])'
        <4>1. runs[s] + Owed(s) <= 2 * raised[s] /\ runs[s] \in Nat /\ raised[s] \in Nat
          BY DEF RunsInv, TypeOK
        <4>2. cause' # s /\ runs'[s] = runs[s]
          BY <2>1, SourceAssumption
        <4> QED
          BY <2>1, <2>3, <4>1, <4>2, ClockLine DEF Owed, ClearInv
      <3> QED BY <3>1 DEF RunsInv
    <2> QED BY <2>2, <2>3, <2>4 DEF ClearInv
  <1>5. CASE UNCHANGED vars
    BY <1>5 DEF vars, TypeOK, ClearInv, RunsInv, Owed
  <1> QED
    BY <1>1, <1>2, <1>3, <1>4, <1>5 DEF Next, Handler

(* The handler's part of the controller, in every reachable state.         *)
THEOREM HandlerCorrect == Spec => []HandlerInv
    BY HandlerInit, HandlerStep, PTL DEF Spec

(* The registers keep their types: the driver clears one line at a time.   *)
THEOREM FicTypeCorrect == Spec => []TypeOK
  <1>1. HandlerInv => TypeOK
    BY DEF HandlerInv
  <1> QED BY <1>1, HandlerCorrect, PTL

(* No line, held or pulsed, runs its handler more than twice for each time *)
(* it was raised.                                                          *)
THEOREM TwoRuns == Spec => []AtMostTwoRuns
  <1>1. HandlerInv => AtMostTwoRuns
    <2> SUFFICES ASSUME HandlerInv, NEW s \in Source
                 PROVE  runs[s] <= 2 * raised[s]
      BY DEF AtMostTwoRuns
    <2>1. runs[s] + Owed(s) <= 2 * raised[s] /\ runs[s] \in Nat /\ raised[s] \in Nat
      BY DEF HandlerInv, RunsInv, TypeOK
    <2> QED BY <2>1 DEF Owed
  <1> QED BY <1>1, HandlerCorrect, PTL
===============================================================================
