----------------------------- MODULE SocBootProofs ----------------------------
(***************************************************************************)
(* Proofs about SocBoot, for every set of command lines, exit codes and    *)
(* traps, every length of a slice and of a clock cycle, and every width of *)
(* the time limit.                                                         *)
(***************************************************************************)
EXTENDS SocBoot, TLAPS

Released == {"release", "force", "force_wait", "run"}

(* Before its reset the CPU is off, and after it the registers are known.  *)
ResetInv ==
    /\ rst = TRUE <=> phase = "reset"
    /\ phase \in {"parse", "done"} => left = 0
    /\ phase \in {"parse", "init", "load"} => cpu = "off"
    /\ phase = "reset" =>
          \/ left = 10 /\ cpu = "off"
          \/ left < 10 /\ cpu = "wait_loop" /\ exitLoop = 0 /\ exitValid = 0 /\ force = FALSE

(* Who lets the CPU out of the boot loop. *)
LaunchInv ==
    /\ LaunchedByBench
    /\ phase \in Released /\ (force = TRUE \/ exitLoop = 1) => mode = FORCE
    /\ phase \in {"load", "reset"} \union Released /\ mode = FORCE => image # "empty"

(* What lies behind the CPU where it is. *)
ExitInv ==
    /\ cpu \in {"whole", "main", "handler", "exit_value", "exit_valid", "wfi"} => image = "whole"
    /\ cpu \in {"exit_value", "exit_valid", "wfi"} => code # None
    /\ cpu \in {"exit_valid", "wfi"} => exitValue = code
    /\ cpu = "stray" => image = "torn"
    /\ phase \in Released /\ exitValid = 1 => cpu \in {"wfi", "stray"}
    /\ said # "nobody" => cpu = "handler"

SafeInv == TypeOK /\ ResetInv /\ LaunchInv /\ ExitInv /\ PassIsEarned

-------------------------------------------------------------------------------
(* A time asked for in a known unit is a number of picoseconds. *)
LEMMA AskedType ==
    ASSUME NEW line \in Argvs, CmdOption(line, "+MAX_CYCLES") # <<>>, LimitStatus(line) = None
    PROVE  LET arg == CmdOption(line, "+MAX_CYCLES")
           IN  arg[1] * Worth[arg[2]] \in Nat
  <1> DEFINE arg == CmdOption(line, "+MAX_CYCLES")
  <1>1. arg \in (Nat \union {None}) \X STRING
    BY ArgvsAssumption
  <1>2. arg[1] \in Nat /\ arg[2] \in DOMAIN Worth
    BY <1>1 DEF LimitStatus, None, Killed
  <1>3. Thousand \in Nat /\ Period \in Nat
    BY SocBootAssumption
  <1>4. \A m, n \in Nat : m * n \in Nat
    OBVIOUS
  <1> DEFINE T2 == Thousand * Thousand
             T3 == Thousand * Thousand * Thousand
             T4 == Thousand * Thousand * Thousand * Thousand
  <1>5. T2 \in Nat
    BY <1>3, <1>4
  <1>6. T3 \in Nat
    BY <1>3, <1>4, <1>5
  <1>7. T4 \in Nat
    BY <1>3, <1>4, <1>6
  <1>8. Worth = [ps |-> 1, ns |-> Thousand, us |-> T2, ms |-> T3, s |-> T4, cycle |-> Period]
    BY DEF Worth
  <1> HIDE DEF arg, T2, T3, T4
  <1>9. Worth[arg[2]] \in Nat
    BY <1>2, <1>3, <1>5, <1>6, <1>7, <1>8
  <1> QED
    BY <1>2, <1>4, <1>9 DEF arg

LEMMA LimitType ==
    ASSUME NEW line \in Argvs, LimitStatus(line) = None
    PROVE  Limit(line) \in Nat \union {None}
  <1> DEFINE arg == CmdOption(line, "+MAX_CYCLES")
             asked == arg[1] * Worth[arg[2]]
  <1>1. CASE arg = <<>>
    BY <1>1 DEF Limit
  <1>2. CASE arg # <<>>
    <2>1. asked \in Nat
      BY <1>2, AskedType
    <2>2. Limit(line) = asked % TimeMod
      BY <1>2 DEF Limit
    <2>3. TimeMod \in Nat \ {0}
      BY SocBootAssumption
    <2> QED
      BY <2>1, <2>2, <2>3
  <1> QED
    BY <1>1, <1>2

LEMMA SafeInit == Init => SafeInv
  <1> SUFFICES ASSUME Init PROVE SafeInv
    OBVIOUS
  <1> USE DEF Init
  <1>1. TypeOK
    BY DEF TypeOK, Phases, PASSIVE, None
  <1>2. ResetInv /\ LaunchInv /\ ExitInv
    BY DEF ResetInv, LaunchInv, LaunchedByBench, ExitInv, Released
  <1>3. PassIsEarned
    BY DEF PassIsEarned, Ran
  <1> QED
    BY <1>1, <1>2, <1>3 DEF SafeInv

-------------------------------------------------------------------------------
(* What a clock cycle leaves alone.  There is one only while the test      *)
(* bench waits, which it does neither before nor after the simulation.     *)
LEMMA TickFacts ==
    ASSUME SafeInv, Tick
    PROVE  /\ phase \notin {"parse", "done"} /\ left > 0 /\ left' = left - 1
           /\ left' \in Nat /\ now' \in Nat
           /\ UNCHANGED <<argv, mode, limit, noErr, phase, status, rst, image>>
           /\ PassIsEarned'
  <1>1. phase \notin {"parse", "done"} /\ left \in Nat /\ now \in Nat
    BY DEF SafeInv, TypeOK, ResetInv, Tick
  <1>2. phase' = phase
    BY DEF Tick
  <1>3. now' \in Nat
    BY <1>1, SocBootAssumption DEF Tick
  <1> QED
    BY <1>1, <1>2, <1>3 DEF Tick, bench, PassIsEarned, Ran

LEMMA ResetStep == SafeInv /\ CycleReset => SafeInv'
  <1> SUFFICES ASSUME SafeInv, CycleReset PROVE SafeInv'
    OBVIOUS
  <1>1. Tick /\ ResetChip
    BY DEF CycleReset
  <1>2. phase = "reset" /\ cpu \in {"off", "wait_loop"} /\ said = "nobody"
    BY <1>1 DEF ResetChip, SafeInv, ResetInv, ExitInv
  <1>3. left <= 10 /\ left \in Nat
    BY <1>2 DEF SafeInv, ResetInv, TypeOK
  <1>4. TypeOK'
    BY <1>1, TickFacts DEF ResetChip, SafeInv, TypeOK
  <1>5. ResetInv'
    <2>1. cpu' = "wait_loop" /\ exitLoop' = 0 /\ exitValid' = 0 /\ force' = FALSE
      BY <1>1 DEF ResetChip
    <2>2. phase' = "reset" /\ left' < 10 /\ (rst' = TRUE <=> rst = TRUE)
      BY <1>1, <1>2, <1>3, TickFacts
    <2>3. rst = TRUE
      BY <1>2 DEF SafeInv, ResetInv
    <2> QED
      BY <2>1, <2>2, <2>3 DEF ResetInv
  <1>6. LaunchInv'
    BY <1>1, <1>2, TickFacts DEF ResetChip, SafeInv, LaunchInv, LaunchedByBench, Released
  <1>7. ExitInv'
    BY <1>1, <1>2, TickFacts DEF ResetChip, SafeInv, ExitInv, Released
  <1> QED
    BY <1>1, <1>4, <1>5, <1>6, <1>7, TickFacts DEF SafeInv

(* A step of the CPU that has left the boot loop, or leaves it. *)
LEMMA RunningFacts ==
    ASSUME SafeInv, Tick, rst = FALSE, Forced, force' = force,
           cpu = "wait_loop" => exitLoop = 1, cpu # "off"
    PROVE  /\ phase \in Released /\ mode = FORCE /\ image # "empty"
           /\ exitLoop' \in {0, 1} /\ ResetInv'
           /\ exitLoop' = 1 => force = TRUE \/ exitLoop = 1
  <1>1. phase \notin {"parse", "init", "load", "reset", "done"}
    BY TickFacts DEF SafeInv, ResetInv, TypeOK
  <1>2. phase \in Released
    BY <1>1 DEF SafeInv, TypeOK, Phases, Released
  <1>3. mode = FORCE /\ image # "empty"
    BY <1>2 DEF SafeInv, LaunchInv, LaunchedByBench
  <1>4. ResetInv'
    BY <1>2, TickFacts DEF SafeInv, ResetInv, Released
  <1> QED
    BY <1>2, <1>3, <1>4 DEF Forced, SafeInv, TypeOK

LEMMA SystemStep == SafeInv /\ CycleSystem => SafeInv'
  <1> SUFFICES ASSUME SafeInv, CycleSystem PROVE SafeInv'
    OBVIOUS
  <1>1. Tick /\ System /\ Forced /\ force' = force /\ rst = FALSE
    BY DEF CycleSystem, SafeInv, TypeOK
  <1>2. cpu # "off" /\ (cpu = "wait_loop" => exitLoop = 1)
    BY <1>1 DEF System, BootLoop, BootJump, Crt0, ExitWrites
  <1>3. /\ phase \in Released /\ mode = FORCE /\ image # "empty"
        /\ exitLoop' \in {0, 1} /\ ResetInv'
        /\ exitLoop' = 1 => force = TRUE \/ exitLoop = 1
    BY <1>1, <1>2, RunningFacts
  <1>4. UNCHANGED <<phase, mode, image, status, code, said>>
    BY <1>1, TickFacts DEF System, BootLoop, BootJump, Crt0, ExitWrites
  <1>5. LaunchInv'
    BY <1>1, <1>3, <1>4, TickFacts DEF SafeInv, LaunchInv, LaunchedByBench
  <1>6. ExitInv'
    <2>1. CASE BootLoop
      BY <1>4, <2>1 DEF BootLoop, SafeInv, ExitInv
    <2>2. CASE BootJump
      BY <1>3, <1>4, <2>2 DEF BootJump, SafeInv, TypeOK, ExitInv
    <2>3. CASE Crt0
      BY <1>4, <2>3 DEF Crt0, SafeInv, ExitInv
    <2>4. CASE ExitWrites
      BY <1>3, <1>4, <2>4 DEF ExitWrites, SafeInv, ExitInv
    <2> QED
      BY <1>1, <2>1, <2>2, <2>3, <2>4 DEF System
  <1>7. TypeOK'
    <2>1. exitValid' \in {0, 1} /\ exitValue' \in Nat
      BY <1>1, SocBootAssumption
         DEF System, BootLoop, BootJump, Crt0, ExitWrites, SafeInv, TypeOK, ExitInv
    <2>2. cpu' \in {"boot", "whole", "bare", "stray", "main", "exit_valid", "wfi"}
      BY <1>1 DEF System, BootLoop, BootJump, Crt0, ExitWrites
    <2> QED
      BY <1>1, <1>3, <1>4, <2>1, <2>2, TickFacts DEF SafeInv, TypeOK
  <1> QED
    BY <1>1, <1>3, <1>5, <1>6, <1>7, TickFacts DEF SafeInv

LEMMA ProgramStep == SafeInv /\ CycleProgram => SafeInv'
  <1> SUFFICES ASSUME SafeInv, CycleProgram PROVE SafeInv'
    OBVIOUS
  <1>1. Tick /\ Program /\ Forced /\ force' = force /\ rst = FALSE
    BY DEF CycleProgram, SafeInv, TypeOK
  <1>2. cpu \in {"main", "bare", "stray"}
    BY <1>1 DEF Program, MainReturns, RomExit, Stray, Trap
  <1>3. /\ phase \in Released /\ mode = FORCE /\ image # "empty"
        /\ exitLoop' \in {0, 1} /\ ResetInv'
        /\ exitLoop' = 1 => force = TRUE \/ exitLoop = 1
    BY <1>1, <1>2, RunningFacts
  <1>4. UNCHANGED <<phase, mode, image, status>> /\ said = "nobody"
        /\ (~Stray => exitValid' = exitValid /\ exitValid # 1)
    BY <1>1, <1>2, <1>3, TickFacts
       DEF Program, MainReturns, RomExit, Stray, Trap, SafeInv, ExitInv
  <1>5. LaunchInv'
    BY <1>1, <1>3, <1>4, TickFacts DEF SafeInv, LaunchInv, LaunchedByBench
  <1>6. code' \in Codes \union {None} /\ exitValue' \in Nat
    <2>1. exitValue \in Nat /\ code \in Codes \union {None} /\ Codes \subseteq Nat
      BY SocBootAssumption DEF SafeInv, TypeOK
    <2>2. CASE Stray
      BY <2>1, <2>2 DEF Stray
    <2>3. CASE MainReturns
      BY <2>1, <2>3 DEF MainReturns
    <2>4. CASE RomExit
      BY <2>1, <2>4 DEF RomExit
    <2>5. CASE Trap
      BY <2>1, <2>5 DEF Trap
    <2> QED
      BY <1>1, <2>2, <2>3, <2>4, <2>5 DEF Program
  <1>7. \A c \in Codes : c # None
    BY SocBootAssumption DEF None
  <1>8. ExitInv'
    <2>1. CASE MainReturns
      BY <1>4, <1>7, <2>1 DEF MainReturns, SafeInv, ExitInv
    <2>2. CASE RomExit
      BY <1>4, <2>2 DEF RomExit, SafeInv, ExitInv
    <2>3. CASE Trap
      BY <1>4, <2>3 DEF Trap, SafeInv, ExitInv
    <2>4. CASE Stray
      BY <1>4, <2>4 DEF Stray, SafeInv, ExitInv
    <2> QED
      BY <1>1, <2>1, <2>2, <2>3, <2>4 DEF Program
  <1>9. said' \in Handlers \union {"nobody"}
    BY <1>1, <1>4 DEF Program, MainReturns, RomExit, Stray, Trap, Handler, Handlers
  <1>10. cpu' \in {"exit_value", "astray", "stray", "handler"}
    BY <1>1, <1>2 DEF Program, MainReturns, RomExit, Stray, Trap
  <1>11. exitValid' \in {0, 1}
    BY <1>1, <1>4 DEF Stray, SafeInv, TypeOK
  <1>12. TypeOK'
    BY <1>1, <1>3, <1>4, <1>6, <1>9, <1>10, <1>11, TickFacts DEF SafeInv, TypeOK
  <1> QED
    BY <1>1, <1>3, <1>5, <1>8, <1>12, TickFacts DEF SafeInv

LEMMA IdleStep == SafeInv /\ CycleIdle => SafeInv'
  <1> SUFFICES ASSUME SafeInv, CycleIdle PROVE SafeInv'
    OBVIOUS
  <1>1. Tick /\ CpuWaits /\ Forced /\ force' = force /\ rst = FALSE
    BY DEF CycleIdle, SafeInv, TypeOK
  <1>2. TypeOK'
    BY <1>1, TickFacts DEF CpuWaits, Forced, SafeInv, TypeOK
  <1>3. ResetInv'
    BY <1>1, TickFacts DEF CpuWaits, SafeInv, ResetInv
  <1>4. LaunchInv'
    BY <1>1, TickFacts DEF CpuWaits, Forced, SafeInv, LaunchInv, LaunchedByBench, TypeOK
  <1>5. ExitInv'
    BY <1>1, TickFacts DEF CpuWaits, SafeInv, ExitInv
  <1> QED
    BY <1>1, <1>2, <1>3, <1>4, <1>5, TickFacts DEF SafeInv

-------------------------------------------------------------------------------
(* The process ends early, or the settings are made. *)
LEMMA ParseFacts ==
    ASSUME Parse
    PROVE  \/ /\ phase' = "done" /\ status' \in 0 .. Killed
              /\ UNCHANGED <<mode, limit, noErr, left>>
           \/ /\ phase' = "init" /\ left' = 5 /\ status' = status
              /\ mode' \in {FORCE, AUTONOMOUS} /\ noErr' \in BOOLEAN
              /\ limit' = Limit(argv) /\ LimitStatus(argv) = None
  <1> DEFINE switches == Switches(argv)
             chosen == SetBootMode(BootModeArg(argv))
             early == IF switches.status # None THEN switches.status
                      ELSE IF LimitStatus(argv) # None THEN LimitStatus(argv)
                      ELSE IF chosen \in {FORCE, AUTONOMOUS} THEN None ELSE 1
  <1>1. switches.noErr \in BOOLEAN /\ switches.status \in {None, Killed, 0}
    BY DEF Switches
  <1>2. LimitStatus(argv) \in {None, Killed, 1}
    BY DEF LimitStatus
  <1>3. early # None => early \in 0 .. Killed
    BY <1>1, <1>2 DEF None, Killed
  <1>4. early = None => /\ LimitStatus(argv) = None
                        /\ chosen \in {FORCE, AUTONOMOUS}
    BY <1>1, <1>2 DEF None
  <1>5. CASE early # None
    BY <1>3, <1>5 DEF Parse
  <1>6. CASE early = None
    BY <1>1, <1>4, <1>6 DEF Parse
  <1> QED
    BY <1>5, <1>6

LEMMA ParseStep == SafeInv /\ Parse => SafeInv'
  <1> SUFFICES ASSUME SafeInv, Parse PROVE SafeInv'
    OBVIOUS
  <1>1. phase = "parse" /\ left = 0 /\ cpu = "off" /\ rst = FALSE
    BY DEF Parse, SafeInv, ResetInv, TypeOK
  <1>2. UNCHANGED <<argv, now, rst, force, image, exitLoop, exitValue, exitValid, cpu, code, said>>
    BY DEF Parse, chip
  <1>3. \/ /\ phase' = "done" /\ status' \in 0 .. Killed
           /\ UNCHANGED <<mode, limit, noErr, left>>
        \/ /\ phase' = "init" /\ left' = 5 /\ status' = status
           /\ mode' \in {FORCE, AUTONOMOUS} /\ noErr' \in BOOLEAN
           /\ limit' \in Nat \union {None}
    <2>1. LimitStatus(argv) = None => Limit(argv) \in Nat \union {None}
      BY LimitType DEF SafeInv, TypeOK
    <2> QED
      BY <2>1, ParseFacts
  <1>4. TypeOK'
    BY <1>1, <1>2, <1>3 DEF SafeInv, TypeOK, Phases
  <1>5. ResetInv'
    BY <1>1, <1>2, <1>3 DEF SafeInv, ResetInv
  <1>6. LaunchInv' /\ ExitInv' /\ PassIsEarned'
    BY <1>1, <1>2, <1>3 DEF SafeInv, LaunchInv, LaunchedByBench, ExitInv, PassIsEarned, Ran, Released
  <1> QED
    BY <1>4, <1>5, <1>6 DEF SafeInv

LEMMA PreExecStep == SafeInv /\ PreExec => SafeInv'
  <1> SUFFICES ASSUME SafeInv, PreExec PROVE SafeInv'
    OBVIOUS
  <1>1. phase = "init" /\ left = 0 /\ cpu = "off" /\ rst = FALSE
    BY DEF PreExec, SafeInv, ResetInv, TypeOK
  <1>2. UNCHANGED <<bench, left, now, rst, force, chip>>
    BY DEF PreExec
  <1>3. \/ phase' = "done" /\ status' \in {1, Killed} /\ image' = image
        \/ /\ phase' = "load" /\ status' = status
           /\ image' \in {"empty", "whole", "bare", "torn"}
           /\ mode = FORCE => image' # "empty"
    <2>1. Image(argv) \in {"missing", "whole", "bare", "torn", "cut"}
      BY ArgvsAssumption DEF SafeInv, TypeOK
    <2> QED
      BY <2>1 DEF PreExec, SafeInv, TypeOK
  <1>4. TypeOK'
    BY <1>1, <1>2, <1>3 DEF SafeInv, TypeOK, Phases, bench, chip, Killed
  <1>5. ResetInv'
    BY <1>1, <1>2, <1>3 DEF SafeInv, ResetInv, chip
  <1>6. LaunchInv' /\ ExitInv' /\ PassIsEarned'
    BY <1>1, <1>2, <1>3
       DEF SafeInv, LaunchInv, LaunchedByBench, ExitInv, PassIsEarned, Ran, Released, bench, chip
  <1> QED
    BY <1>4, <1>5, <1>6 DEF SafeInv

LEMMA PinsStep == SafeInv /\ (SetReset \/ UnsetReset \/ ForceBoot \/ Run) => SafeInv'
  <1> SUFFICES ASSUME SafeInv, SetReset \/ UnsetReset \/ ForceBoot \/ Run PROVE SafeInv'
    OBVIOUS
  <1>1. UNCHANGED <<bench, now, status, image, chip>> /\ left = 0
    BY DEF SetReset, UnsetReset, ForceBoot, Run
  <1>2. CASE SetReset
    <2>1. phase = "load" /\ phase' = "reset" /\ left' = 10 /\ rst' = TRUE /\ force' = force
      BY <1>2 DEF SetReset
    <2> QED
      BY <1>1, <2>1 DEF SafeInv, TypeOK, ResetInv, LaunchInv, LaunchedByBench, ExitInv,
                        PassIsEarned, Ran, Released, Phases, bench, chip
  <1>3. CASE UnsetReset
    <2>1. phase = "reset" /\ phase' = "release" /\ left' = 5 /\ rst' = FALSE /\ force' = force
      BY <1>3 DEF UnsetReset
    <2>2. cpu = "wait_loop" /\ exitLoop = 0 /\ exitValid = 0 /\ force = FALSE
      BY <1>1, <2>1 DEF SafeInv, ResetInv
    <2>3. TypeOK'
      <3>1. left' \in Nat /\ phase' \in Phases
        BY <2>1 DEF Phases
      <3>2. rst' \in BOOLEAN /\ force' \in BOOLEAN
        BY <2>1, <2>2
      <3> QED
        BY <1>1, <2>1, <3>1, <3>2 DEF SafeInv, TypeOK, bench, chip
    <2>4. ResetInv'
      BY <2>1 DEF ResetInv
    <2>5. LaunchInv'
      BY <1>1, <2>1, <2>2 DEF SafeInv, LaunchInv, LaunchedByBench, Released, bench, chip
    <2>6. ExitInv' /\ PassIsEarned'
      BY <1>1, <2>1, <2>2 DEF SafeInv, ExitInv, PassIsEarned, Ran, Released, bench, chip
    <2> QED
      BY <2>3, <2>4, <2>5, <2>6 DEF SafeInv
  <1>4. CASE ForceBoot \/ Run
    <2>1. phase \in Released /\ phase' \in Released /\ rst' = rst
          /\ left' \in {left, 1, 2, Slice}
          /\ force' \in {force, TRUE} /\ (force' = TRUE => force = TRUE \/ mode = FORCE)
      BY <1>4 DEF ForceBoot, Run, Released
    <2>2. rst = FALSE /\ phase' \in Phases /\ force' \in BOOLEAN
      BY <2>1 DEF SafeInv, ResetInv, TypeOK, Released, Phases
    <2>3. left' \in Nat
      <3>1. left \in Nat
        BY DEF SafeInv, TypeOK
      <3> QED
        BY <2>1, <3>1, SocBootAssumption
    <2>4. TypeOK'
      BY <1>1, <2>1, <2>2, <2>3 DEF SafeInv, TypeOK, bench, chip
    <2>5. ResetInv'
      BY <1>1, <2>1, <2>2 DEF SafeInv, ResetInv, Released
    <2>6. LaunchInv' /\ ExitInv' /\ PassIsEarned'
      BY <1>1, <2>1 DEF SafeInv, LaunchInv, LaunchedByBench, ExitInv, PassIsEarned, Ran,
                        Released, bench, chip
    <2> QED
      BY <2>4, <2>5, <2>6 DEF SafeInv
  <1> QED
    BY <1>2, <1>3, <1>4

(* The status is the exit code, reduced to its 8 bits. *)
LEMMA PostExecStep == SafeInv /\ PostExec => SafeInv'
  <1> SUFFICES ASSUME SafeInv, PostExec PROVE SafeInv'
    OBVIOUS
  <1>1. /\ phase = "run" /\ phase' = "done" /\ left = 0 /\ left' = left
        /\ UNCHANGED <<argv, mode, limit, noErr, now, rst, force, image>>
        /\ UNCHANGED <<exitLoop, exitValue, exitValid, cpu, code, said>>
        /\ status' = IF noErr THEN 0 ELSE IF exitValid = 1 THEN exitValue % 256 ELSE 255
    BY DEF PostExec, bench, chip
  <1>2. exitValue % 256 \in 0 .. 255
    BY DEF SafeInv, TypeOK
  <1>3. status' \in 0 .. 255
    BY <1>1, <1>2
  <1>4. TypeOK'
    BY <1>1, <1>3 DEF SafeInv, TypeOK, Phases, Killed
  <1>5. ResetInv' /\ LaunchInv' /\ ExitInv'
    BY <1>1 DEF SafeInv, ResetInv, LaunchInv, LaunchedByBench, ExitInv, Released
  <1>6. ~noErr /\ status' = 0 => exitValid = 1 /\ exitValue % 256 = 0
    BY <1>1
  <1>7. exitValid = 1 /\ image # "torn" =>
            cpu = "wfi" /\ code # None /\ exitValue = code /\ image = "whole" /\ said = "nobody"
    BY <1>1 DEF SafeInv, ExitInv, Released
  <1>8. PassIsEarned'
    BY <1>1, <1>6, <1>7 DEF PassIsEarned
  <1> QED
    BY <1>4, <1>5, <1>8 DEF SafeInv

LEMMA SafeStep == SafeInv /\ [Next]_vars => SafeInv'
  <1> SUFFICES ASSUME SafeInv, [Next]_vars PROVE SafeInv'
    OBVIOUS
  <1>1. CASE UNCHANGED vars
    BY <1>1 DEF vars, SafeInv, TypeOK, ResetInv, LaunchInv, LaunchedByBench, ExitInv,
                PassIsEarned, Ran
  <1> QED
    BY <1>1, ResetStep, SystemStep, ProgramStep, IdleStep, ParseStep, PreExecStep,
       PinsStep, PostExecStep DEF Next, Cycle, Bench

LEMMA SafeInvariant == Spec => []SafeInv
  BY SafeInit, SafeStep, PTL DEF Spec

(* Every variable of the simulation holds a value of its type.             *)
THEOREM SocBootTypeCorrect == Spec => []TypeOK
  <1>1. SafeInv => TypeOK
    BY DEF SafeInv
  <1> QED
    BY <1>1, SafeInvariant, PTL

(* The test bench never reads an EXIT_VALUE that is not the program's.     *)
THEOREM ExitValueIsFinal == Spec => []ValidMeansFinal
  <1>1. SafeInv => ValidMeansFinal
    BY DEF SafeInv, ExitInv, ValidMeansFinal, Released
  <1> QED
    BY <1>1, SafeInvariant, PTL

(* Status 0 means that the program passed a multiple of 256 to exit and    *)
(* took no default trap, unless the file was torn and launched all the     *)
(* same: neither a chip that was never loaded nor a program without crt0   *)
(* can pass.                                                               *)
THEOREM StatusIsEarned == Spec => []PassIsEarned
  <1>1. SafeInv => PassIsEarned
    BY DEF SafeInv
  <1> QED
    BY <1>1, SafeInvariant, PTL

(* The CPU leaves the boot loop by the test bench's hand only.             *)
THEOREM LaunchIsForced == Spec => []LaunchedByBench
  <1>1. SafeInv => LaunchedByBench
    BY DEF SafeInv, LaunchInv
  <1> QED
    BY <1>1, SafeInvariant, PTL

-------------------------------------------------------------------------------
(* Time passes in the start-up, 24 cycles in all, and in slices that begin *)
(* before the limit.                                                       *)
Budget == [parse |-> 0, init |-> 5, load |-> 5, reset |-> 15, release |-> 20,
           force |-> 21, force_wait |-> 22, run |-> 24, done |-> 24]

LimitSet ==
    /\ CmdOption(argv, "+MAX_CYCLES") # <<>>
    /\ LimitStatus(argv) = None
    /\ limit = Limit(argv)

InTime ==
    \/ now + Period * left <= Period * Budget[phase]
    \/ phase \in {"run", "done"} /\ now + Period * left < limit + Period * Slice

TimeInv ==
    /\ phase = "parse" => now = 0
    /\ limit # None => LimitSet /\ InTime
    /\ limit # None /\ Ran /\ exitValid # 1 => now >= limit

LEMMA TimeInit == Init => TimeInv
  BY DEF Init, TimeInv, Ran

(* A slice begins only before the limit, and the clock ticks only while    *)
(* the test bench waits.                                                   *)
LEMMA TimeStep == SafeInv /\ TimeInv /\ [Next]_vars => TimeInv'
  <1> SUFFICES ASSUME SafeInv, TimeInv, [Next]_vars PROVE TimeInv'
    OBVIOUS
  <1>1. /\ now \in Nat /\ left \in Nat /\ limit \in Nat \union {None}
        /\ phase \in Phases /\ argv \in Argvs
        /\ Slice \in Nat \ {0} /\ Period \in Nat \ {0}
    BY SocBootAssumption DEF SafeInv, TypeOK
  <1>2. phase \in {"parse", "done"} => left = 0
    BY DEF SafeInv, ResetInv
  <1>3. CASE Tick
    <2>1. /\ phase \notin {"parse", "done"} /\ left' = left - 1
          /\ UNCHANGED <<argv, mode, limit, phase>>
      BY <1>3, TickFacts
    <2>2. now' \in {now, now + Period}
      BY <1>3 DEF Tick
    <2>3. limit # None => LimitSet' /\ InTime
      BY <2>1 DEF TimeInv, LimitSet
    <2>4. InTime => InTime'
      <3>1. Period * left' = Period * left - Period
        BY <1>1, <2>1
      <3>2. Period * left \in Nat /\ Period * left' \in Int /\ Period * Slice \in Nat
        BY <1>1, <3>1
      <3>3. now' + Period * left' <= now + Period * left
        BY <1>1, <2>2, <3>1, <3>2
      <3>4. Period * Budget[phase] \in Nat
        <4>1. Budget[phase] \in Nat
          BY <1>1 DEF Budget, Phases
        <4> QED
          BY <1>1, <4>1
      <3>5. now' + Period * left' \in Int /\ now + Period * left \in Int
        BY <1>1, <2>2, <3>2
      <3> QED
        BY <1>1, <2>1, <3>2, <3>3, <3>4, <3>5 DEF InTime, None
    <2>5. ~Ran' /\ phase' # "parse"
      BY <2>1 DEF Ran
    <2> QED
      BY <2>1, <2>3, <2>4, <2>5 DEF TimeInv
  <1>4. CASE Parse
    <2>1. phase = "parse" /\ now' = now /\ argv' = argv /\ cpu' = cpu /\ cpu = "off"
          /\ left = 0
      BY <1>4 DEF Parse, chip, SafeInv, ResetInv
    <2>2. \/ phase' = "done" /\ limit' = limit /\ left' = left
          \/ /\ phase' = "init" /\ left' = 5 /\ limit' = Limit(argv)
             /\ LimitStatus(argv) = None
      BY <1>4, ParseFacts
    <2>3. Limit(argv) # None => CmdOption(argv, "+MAX_CYCLES") # <<>>
      BY DEF Limit
    <2>6. Period * 0 = 0 /\ Period * 24 \in Nat
      BY <1>1
    <2>4. phase' = "done" => limit' = None \/ (LimitSet' /\ InTime')
      <3>1. (limit' = limit /\ left' = left) \/ phase' = "init"
        BY <2>2
      <3>2. phase' = "done" /\ limit # None => LimitSet'
        BY <2>1, <3>1 DEF TimeInv, LimitSet
      <3>3. phase' = "done" => InTime'
        <4>1. phase' = "done" => left' = 0 /\ now' = 0
          BY <2>1, <2>2 DEF TimeInv
        <4>2. phase' = "done" => Budget[phase'] = 24
          BY DEF Budget
        <4> QED
          BY <2>6, <4>1, <4>2 DEF InTime
      <3> QED
        BY <3>1, <3>2, <3>3
    <2>5. phase' = "init" => limit' = None \/ (LimitSet' /\ InTime')
      <3>1. phase' = "init" => InTime'
        <4>1. phase' = "init" => left' = 5 /\ now' = 0
          BY <2>1, <2>2 DEF TimeInv
        <4>2. phase' = "init" => Budget[phase'] = 5
          BY DEF Budget
        <4>3. Period * 5 \in Nat
          BY <1>1
        <4> QED
          BY <4>1, <4>2, <4>3 DEF InTime
      <3>2. phase' = "init" /\ limit' # None => LimitSet'
        BY <2>1, <2>2, <2>3 DEF LimitSet
      <3> QED
        BY <3>1, <3>2
    <2> QED
      BY <2>1, <2>2, <2>4, <2>5 DEF TimeInv, Ran
  <1>5. CASE PreExec \/ SetReset \/ UnsetReset \/ ForceBoot
    <2>1. UNCHANGED <<now, limit, argv, cpu>> /\ left = 0
      BY <1>5 DEF PreExec, SetReset, UnsetReset, ForceBoot, bench, chip
    <2>2. phase' # "parse" /\ ~Ran'
      BY <1>5 DEF PreExec, SetReset, UnsetReset, ForceBoot, Ran, SafeInv, ResetInv, chip
    <2>3. \/ phase = "init" /\ phase' \in {"load", "done"} /\ left' = left
          \/ phase = "load" /\ phase' = "reset" /\ left' = 10
          \/ phase = "reset" /\ phase' = "release" /\ left' = 5
          \/ phase = "release" /\ phase' = "run" /\ left' = left
          \/ phase = "release" /\ phase' = "force" /\ left' = 1
          \/ phase = "force" /\ phase' = "force_wait" /\ left' = 1
          \/ phase = "force_wait" /\ phase' = "run" /\ left' = 2
      BY <1>5 DEF PreExec, SetReset, UnsetReset, ForceBoot
    <2>4. InTime => InTime'
      <3>1. Period * left = 0
        BY <1>1, <2>1
      <3>2. \A m, n \in 0 .. 24 : Period * (m + n) = Period * m + Period * n
        BY <1>1
      <3>3. \A m, n \in 0 .. 24 : m <= n => Period * m <= Period * n
        BY <1>1
      <3>4. InTime => now <= Period * Budget[phase]
        BY <1>1, <2>3, <3>1 DEF InTime
      <3>5. Budget[phase'] \in 0 .. 24 /\ Budget[phase] \in 0 .. 24
            /\ (left' = 0 \/ left' \in 0 .. 24)
        BY <2>1, <2>3 DEF Budget
      <3>6. Budget[phase] + left' <= Budget[phase']
        BY <2>1, <2>3 DEF Budget
      <3>7. Period * Budget[phase] + Period * left' <= Period * Budget[phase']
        BY <3>2, <3>3, <3>5, <3>6
      <3>8. Period * Budget[phase] \in Int /\ Period * left' \in Int /\ Period * Budget[phase'] \in Int
        BY <1>1, <3>5
      <3> QED
        BY <1>1, <2>1, <3>4, <3>7, <3>8 DEF InTime
    <2> QED
      BY <2>1, <2>2, <2>4 DEF TimeInv, LimitSet
  <1>6. CASE Run
    <2>1. UNCHANGED <<now, limit, argv, phase>> /\ phase = "run" /\ left' = Slice
          /\ (limit = None \/ now < limit)
      BY <1>6 DEF Run, MayRunOn, bench
    <2>3. Period * Slice \in Nat
      BY <1>1
    <2>2. limit # None => InTime'
      BY <1>1, <2>1, <2>3 DEF InTime, None
    <2> QED
      BY <2>1, <2>2 DEF TimeInv, LimitSet, Ran
  <1>7. CASE PostExec
    <2>1. UNCHANGED <<now, limit, argv, left, exitValid>> /\ phase = "run" /\ phase' = "done"
          /\ (exitValid # 1 => limit # None /\ ~(now < limit))
      BY <1>7 DEF PostExec, MayRunOn, bench, chip
    <2>2. InTime => InTime'
      BY <2>1 DEF InTime, Budget
    <2>3. exitValid # 1 => now >= limit
      BY <1>1, <2>1 DEF None
    <2> QED
      BY <2>1, <2>2, <2>3 DEF TimeInv, LimitSet
  <1>8. CASE UNCHANGED vars
    BY <1>8 DEF vars, TimeInv, LimitSet, InTime, Ran
  <1> QED
    BY <1>3, <1>4, <1>5, <1>6, <1>7, <1>8
       DEF Next, Cycle, CycleReset, CycleSystem, CycleProgram, CycleIdle, Bench

(* +MAX_CYCLES is kept: a run that is given up has had its time, and no    *)
(* run has more than a slice beyond it.                                    *)
THEOREM LimitIsKept == Spec => []LimitKept
  <1>1. SafeInv /\ TimeInv => LimitKept
    <2> DEFINE arg == CmdOption(argv, "+MAX_CYCLES")
               asked == arg[1] * Worth[arg[2]]
    <2> SUFFICES ASSUME SafeInv, TimeInv, limit # None, asked < TimeMod
                 PROVE  /\ Ran /\ exitValid # 1 => now >= asked
                        /\ now < asked + Period * (Slice + 24)
      BY DEF LimitKept
    <2>1. LimitSet /\ InTime /\ argv \in Argvs /\ phase \in Phases
      BY DEF TimeInv, SafeInv, TypeOK
    <2>2. asked \in Nat
      BY <2>1, AskedType DEF LimitSet
    <2>3. limit = asked
      <3>1. limit = asked % TimeMod
        BY <2>1 DEF LimitSet, Limit
      <3>2. TimeMod \in Nat \ {0}
        BY SocBootAssumption
      <3> HIDE DEF asked
      <3> QED
        BY <2>2, <3>1, <3>2
    <2>4. /\ now \in Nat /\ left \in Nat
          /\ Slice \in Nat \ {0} /\ Period \in Nat \ {0}
      BY SocBootAssumption DEF SafeInv, TypeOK
    <2>5. Period * Budget[phase] <= Period * 24 /\ Period * Budget[phase] \in Nat
      <3>1. Budget[phase] \in 0 .. 24
        BY <2>1 DEF Budget, Phases
      <3> QED
        BY <2>4, <3>1
    <2>6. /\ Period * left \in Nat /\ Period * Slice \in Nat \ {0} /\ Period * 24 \in Nat \ {0}
          /\ Period * (Slice + 24) = Period * Slice + Period * 24
      BY <2>4
    <2>7. Ran /\ exitValid # 1 => now >= asked
      BY <2>3 DEF TimeInv
    <2> HIDE DEF asked
    <2>8. now < asked + Period * Slice + Period * 24
      BY <2>1, <2>2, <2>3, <2>4, <2>5, <2>6 DEF InTime
    <2> QED
      BY <2>2, <2>4, <2>6, <2>7, <2>8
  <1>2. Spec => []TimeInv
    BY TimeInit, TimeStep, SafeInvariant, PTL DEF Spec
  <1> QED
    BY <1>1, <1>2, SafeInvariant, PTL
===============================================================================
