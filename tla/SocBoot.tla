-------------------------------- MODULE SocBoot --------------------------------
(***************************************************************************)
(* A simulation from the command line to the process status: the test      *)
(* bench (TbSimCtrl and TbUtils), the exit and boot registers of soc_ctrl, *)
(* and the CPU on its way through the boot ROM, crt0, main, the default    *)
(* trap handlers and _exit.                                                *)
(*                                                                         *)
(* The test bench and the chip take turns: the test bench sets its inputs  *)
(* and asks for some clock cycles, and in each of them the CPU takes a     *)
(* step or does not.  Time is counted in picoseconds, as sim_cycles_ is    *)
(* in spite of its name.                                                   *)
(***************************************************************************)
EXTENDS Integers, Sequences, FiniteSetsExt

CONSTANTS
    Argvs,      \* command lines, sequences of [opt, val]
    Codes,      \* what a program may pass to exit
    Causes,     \* the traps a program may take
    Slice,      \* cycles between two looks at EXIT_VALID (100 in the code)
    Period,     \* CLK_PERIOD_ps, the length of a clock cycle (10000)
    Thousand,   \* from one unit of time to the next (1000)
    TimeMod     \* one more than the largest unsigned long long (2^64)

ASSUME SocBootAssumption ==
    /\ Codes \subseteq Nat
    /\ {Slice, Period, Thousand, TimeMod} \subseteq Nat \ {0}

None == -1      \* no limit, no value yet
Killed == 256   \* the process status of a test bench that crashed

-------------------------------------------------------------------------------
(***************************************************************************)
(* The command line.                                                       *)
(***************************************************************************)
(* The value of the last argument of that name, or <<>>. *)
CmdOption(argv, opt) ==
    LET uses == {i \in DOMAIN argv : argv[i].opt = opt}
    IN  IF uses = {} THEN <<>> ELSE argv[Max(uses)].val

(* What getopt_long makes of the switches: short -l and -q are not in its  *)
(* list and are skipped, and the strcmp of -t, which takes no argument     *)
(* there, gets a null pointer.                                             *)
Switches(argv) ==
    LET stops == {i \in DOMAIN argv : argv[i].opt \in {"--help", "-h", "-t"}}
    IN  [noErr |-> \E i \in DOMAIN argv :
                     /\ argv[i].opt = "--no_err"
                     /\ argv[i].val \in {<<"1">>, <<"true">>},
         status |-> IF stops = {} THEN None
                    ELSE IF argv[Min(stops)].opt = "-t" THEN Killed ELSE 0]

PASSIVE == 0
FORCE == 4
AUTONOMOUS == 5

(* get_boot_mode replaces an empty argument by "0" and one it does not     *)
(* know by "force".                                                        *)
BootModeArg(argv) ==
    LET arg == CmdOption(argv, "+BOOTMODE")
    IN  IF arg = <<>> THEN <<"0">>
        ELSE IF arg[1] \in {"sd", "force", "jtag", "uart", "slink"} THEN arg
        ELSE <<"force">>

SetBootMode(arg) ==
    IF arg = <<>> THEN PASSIVE
    ELSE IF arg[1] = "jtag" THEN AUTONOMOUS ELSE FORCE

(* The picoseconds of a unit. *)
Worth == [ps |-> 1, ns |-> Thousand, us |-> Thousand * Thousand,
          ms |-> Thousand * Thousand * Thousand,
          s |-> Thousand * Thousand * Thousand * Thousand, cycle |-> Period]

(* Mutant: ns are taken for ps. *)
LimitLoose(argv) ==
    LET arg == CmdOption(argv, "+MAX_CYCLES")
    IN  IF arg = <<>> THEN None
        ELSE (arg[1] * (IF arg[2] = "ns" THEN 1 ELSE Worth[arg[2]])) % TimeMod

(* max_sim_time_, a product of 64 bits, or None: run_all_. *)
Limit(argv) ==
    LET arg == CmdOption(argv, "+MAX_CYCLES")
    IN  IF arg = <<>> THEN None ELSE (arg[1] * Worth[arg[2]]) % TimeMod

(* A number with no digits, or with too many of them, makes stoull throw;  *)
(* an unknown suffix exits.                                                *)
LimitStatus(argv) ==
    LET arg == CmdOption(argv, "+MAX_CYCLES")
    IN  IF arg = <<>> THEN None
        ELSE IF arg[1] = None \/ arg[1] >= TimeMod THEN Killed
        ELSE IF arg[2] \notin DOMAIN Worth THEN 1
        ELSE None

(* What kind of file +BINARY= names, to the loader and to the CPU.         *)
(*   missing  cannot be read, or is no ELF file: an error                  *)
(*   whole    all segments are there (the section headers may be cut off)  *)
(*   bare     a whole file whose code has no crt0                          *)
(*   torn     the program headers, or some of them, are not there: an      *)
(*            error to load_elf, and none to its caller                    *)
(*   cut      bytes of a segment are not there: an assertion fails         *)
Image(argv) ==
    LET arg == CmdOption(argv, "+BINARY")
    IN  IF arg = <<>> THEN "missing" ELSE arg[1]

(* The value of +BINARY= is a kind of file, that of +MAX_CYCLES= a number  *)
(* (None if it has no digits) and a suffix.                                *)
ASSUME ArgvsAssumption ==
    \A line \in Argvs :
        /\ Image(line) \in {"missing", "whole", "bare", "torn", "cut"}
        /\ \/ CmdOption(line, "+MAX_CYCLES") = <<>>
           \/ CmdOption(line, "+MAX_CYCLES") \in (Nat \union {None}) \X STRING

-------------------------------------------------------------------------------
VARIABLES
    argv,       \* the command line
    phase,      \* what RunSimulation does next
    left,       \* cycles left of the runCycles under way
    mode,       \* boot_mode_
    limit,      \* max_sim_time_ in ps, None if run_all_
    noErr,      \* no_err_
    now,        \* sim_cycles_ in ps; stands still when nothing looks at it
    status,     \* the status of the process
    rst,        \* the reset is asserted
    force,      \* testbench_set_exit_loop
    exitLoop,   \* register BOOT_EXIT_LOOP
    exitValue,  \* register EXIT_VALUE
    exitValid,  \* register EXIT_VALID
    image,      \* what the memory holds
    cpu,        \* where the CPU is
    code,       \* history: what the program passed to exit
    said        \* history: the handler that reported a trap

bench == <<argv, mode, limit, noErr>>
regs == <<exitLoop, exitValue, exitValid>>
chip == <<exitLoop, exitValue, exitValid, cpu, code, said>>
vars == <<argv, phase, left, mode, limit, noErr, now, status, rst, force,
          exitLoop, exitValue, exitValid, image, cpu, code, said>>

Phases == {"parse", "init", "load", "reset", "release", "force", "force_wait",
           "run", "done"}

Handlers == {"instr_acc_fault", "instr_ill_fault", "bkpt", "lsu_fault",
             "ecall", "irq_software", "irq_timer", "irq_external", "silent"}

(* The registers hold anything before the first reset. *)
Init ==
    /\ argv \in Argvs
    /\ phase = "parse" /\ left = 0 /\ now = 0 /\ status = None
    /\ mode = PASSIVE /\ limit = None /\ noErr = FALSE
    /\ rst = FALSE /\ force \in BOOLEAN
    /\ exitLoop \in {0, 1} /\ exitValue = 0 /\ exitValid \in {0, 1}
    /\ image = "empty" /\ cpu = "off"
    /\ code = None /\ said = "nobody"

-------------------------------------------------------------------------------
(***************************************************************************)
(* The chip in one clock cycle.                                            *)
(***************************************************************************)
ResetChip ==
    /\ rst
    /\ force' = FALSE
    /\ exitLoop' = 0 /\ exitValue' = 0 /\ exitValid' = 0
    /\ cpu' = "wait_loop"
    /\ UNCHANGED <<code, said>>

(* What the test bench forces is loaded at every clock edge. *)
Forced == exitLoop' = IF force THEN 1 ELSE exitLoop

BootLoop ==
    /\ cpu = "wait_loop" /\ exitLoop = 1
    /\ cpu' = "boot"
    /\ UNCHANGED <<exitValue, exitValid, code, said>>

(* The jump to BOOT_ADDRESS.  A torn file leaves code there that nothing   *)
(* is known of: what of it was loaded, and what was in the memory before.  *)
BootJump ==
    /\ cpu = "boot"
    /\ cpu' = IF image \in {"whole", "bare"} THEN image ELSE "stray"
    /\ UNCHANGED <<exitValue, exitValid, code, said>>

Crt0 ==
    /\ cpu = "whole"
    /\ cpu' = "main"
    /\ UNCHANGED <<exitValue, exitValid, code, said>>

(* main returns, or calls exit; either way exit calls _exit. *)
MainReturns ==
    /\ cpu = "main"
    /\ \E c \in Codes : code' = c
    /\ cpu' = "exit_value"
    /\ UNCHANGED <<exitValue, exitValid, said>>

(* A program without crt0 returns to the boot ROM, whose _exit leaves     *)
(* EXIT_VALID alone and then executes ebreak.                              *)
RomExit ==
    /\ cpu = "bare"
    /\ \E c \in Codes : code' = c /\ exitValue' = 2 * c + 1
    /\ cpu' = "astray"
    /\ UNCHANGED <<exitValid, said>>

(* Unknown code may store anything, and stop the simulation or not. *)
Stray ==
    /\ cpu = "stray"
    /\ exitValue' \in Codes \union {exitValue}
    /\ exitValid' \in {0, 1}
    /\ UNCHANGED <<cpu, code, said>>

(* Mutant: EXIT_VALID is written first. *)
ExitWritesSwapped ==
    /\ UNCHANGED <<code, said>>
    /\ \/ /\ cpu = "exit_value" /\ cpu' = "exit_valid"
          /\ exitValid' = 1 /\ UNCHANGED exitValue
       \/ /\ cpu = "exit_valid" /\ cpu' = "wfi"
          /\ exitValue' = code /\ UNCHANGED exitValid

(* Mutant: EXIT_VALID is never written. *)
ExitWritesValueOnly ==
    /\ UNCHANGED <<code, said, exitValid>>
    /\ cpu = "exit_value" /\ cpu' = "wfi" /\ exitValue' = code

(* _exit: soc_ctrl_set_exit_value, soc_ctrl_set_valid, wfi. *)
ExitWrites ==
    /\ UNCHANGED <<code, said>>
    /\ \/ /\ cpu = "exit_value" /\ cpu' = "exit_valid"
          /\ exitValue' = code /\ UNCHANGED exitValid
       \/ /\ cpu = "exit_valid" /\ cpu' = "wfi"
          /\ exitValid' = 1 /\ UNCHANGED exitValue

Interrupt(id) == 32 + id

(* handler_exception's switch over mcause & kIdMax, and the entries of the *)
(* vector table for the three standard interrupts.                         *)
Handler(cause) ==
    CASE cause \in {0, 1} -> "instr_acc_fault"
      [] cause = 2 -> "instr_ill_fault"
      [] cause = 3 -> "bkpt"
      [] cause \in {5, 7} -> "lsu_fault"
      [] cause = 11 -> "ecall"
      [] cause = Interrupt(3) -> "irq_software"
      [] cause = Interrupt(7) -> "irq_timer"
      [] cause = Interrupt(11) -> "irq_external"
      [] OTHER -> "silent"

(* Mutant: the handler returns to main. *)
TrapReturns ==
    /\ cpu = "main"
    /\ \E cause \in Causes : said' = Handler(cause)
    /\ cpu' = "main"
    /\ UNCHANGED <<exitValue, exitValid, code>>

(* Every default handler reports, if it does, and loops. *)
Trap ==
    /\ cpu = "main"
    /\ \E cause \in Causes : said' = Handler(cause)
    /\ cpu' = "handler"
    /\ UNCHANGED <<exitValue, exitValid, code>>

(* The steps of the CPU that come whatever the program is, and those that  *)
(* depend on it.                                                           *)
System == BootLoop \/ BootJump \/ Crt0 \/ ExitWrites
Program == MainReturns \/ RomExit \/ Stray \/ Trap

CpuWaits == UNCHANGED <<exitValue, exitValid, cpu, code, said>>

-------------------------------------------------------------------------------
(***************************************************************************)
(* The test bench.                                                         *)
(***************************************************************************)
(* runCycles, one period of the clock at a time. *)
Tick ==
    /\ left > 0
    /\ left' = left - 1
    /\ now' = IF limit = None THEN now ELSE now + Period
    /\ UNCHANGED <<bench, phase, status, rst, image>>

CycleReset == Tick /\ ResetChip
CycleSystem == Tick /\ ~rst /\ System /\ Forced /\ UNCHANGED force
CycleProgram == Tick /\ ~rst /\ Program /\ Forced /\ UNCHANGED force
CycleIdle == Tick /\ ~rst /\ CpuWaits /\ Forced /\ UNCHANGED force

Cycle == CycleReset \/ CycleSystem \/ CycleProgram \/ CycleIdle

(* RunSimulation up to Init: an early end of the process, or the settings. *)
Parse ==
    /\ phase = "parse"
    /\ LET switches == Switches(argv)
           chosen == SetBootMode(BootModeArg(argv))
           early == IF switches.status # None THEN switches.status
                    ELSE IF LimitStatus(argv) # None THEN LimitStatus(argv)
                    ELSE IF chosen \in {FORCE, AUTONOMOUS} THEN None ELSE 1
       IN  IF early # None
           THEN /\ phase' = "done" /\ status' = early
                /\ UNCHANGED <<mode, limit, noErr, left>>
           ELSE /\ phase' = "init" /\ left' = 5
                /\ mode' = chosen
                /\ limit' = Limit(argv)
                /\ noErr' = switches.noErr
                /\ UNCHANGED status
    /\ UNCHANGED <<argv, now, rst, force, image, chip>>

(* PreExec, in no time: the memory is loaded through the back door. *)
PreExec ==
    /\ phase = "init" /\ left = 0
    /\ IF mode = FORCE /\ Image(argv) \in {"missing", "cut"}
       THEN /\ phase' = "done" /\ UNCHANGED image
            /\ status' = IF Image(argv) = "cut" THEN Killed ELSE 1
       ELSE /\ phase' = "load"
            /\ image' = IF mode = FORCE THEN Image(argv) ELSE image
            /\ UNCHANGED status
    /\ UNCHANGED <<bench, left, now, rst, force, chip>>

SetReset ==
    /\ phase = "load" /\ left = 0
    /\ phase' = "reset" /\ left' = 10
    /\ rst' = TRUE
    /\ UNCHANGED <<bench, now, status, force, image, chip>>

UnsetReset ==
    /\ phase = "reset" /\ left = 0
    /\ phase' = "release" /\ left' = 5
    /\ rst' = FALSE
    /\ UNCHANGED <<bench, now, status, force, image, chip>>

(* Mutant: the boot mode is not looked at. *)
ForceBootAlways ==
    /\ phase \in {"release", "force"} /\ left = 0
    /\ phase' = IF phase = "release" THEN "force" ELSE "run"
    /\ left' = 1
    /\ force' = TRUE
    /\ UNCHANGED <<bench, now, status, rst, image, chip>>

(* Mutant: the launch signal is left out. *)
ForceBootDropped ==
    /\ phase \in {"release", "force"} /\ left = 0
    /\ phase' = IF phase = "release" THEN "force" ELSE "run"
    /\ left' = 1
    /\ UNCHANGED <<bench, now, status, rst, force, image, chip>>

(* One cycle, tb_preload_force, one cycle, two cycles. *)
ForceBoot ==
    /\ left = 0
    /\ IF mode # FORCE
       THEN phase = "release" /\ phase' = "run" /\ UNCHANGED <<left, force>>
       ELSE \/ /\ phase = "release" /\ phase' = "force"
               /\ left' = 1 /\ UNCHANGED force
            \/ /\ phase = "force" /\ phase' = "force_wait"
               /\ left' = 1 /\ force' = TRUE
            \/ /\ phase = "force_wait" /\ phase' = "run"
               /\ left' = 2 /\ UNCHANGED force
    /\ UNCHANGED <<bench, now, status, rst, image, chip>>

MayRunOn == exitValid # 1 /\ (limit = None \/ now < limit)

Run ==
    /\ phase = "run" /\ left = 0 /\ MayRunOn
    /\ left' = Slice
    /\ UNCHANGED <<bench, phase, now, status, rst, force, image, chip>>

(* Mutant: the process status keeps every bit. *)
PostExecWide ==
    /\ phase = "run" /\ left = 0 /\ ~MayRunOn
    /\ phase' = "done"
    /\ status' = IF noErr THEN 0 ELSE IF exitValid = 1 THEN exitValue ELSE 255
    /\ UNCHANGED <<bench, left, now, rst, force, image, chip>>

(* PostExec, the --no_err switch, and the 8 bits of a process status. *)
PostExec ==
    /\ phase = "run" /\ left = 0 /\ ~MayRunOn
    /\ phase' = "done"
    /\ status' = IF noErr THEN 0
                 ELSE IF exitValid = 1 THEN exitValue % 256 ELSE 255
    /\ UNCHANGED <<bench, left, now, rst, force, image, chip>>

Bench == Parse \/ PreExec \/ SetReset \/ UnsetReset \/ ForceBoot \/ Run \/ PostExec

Next == Cycle \/ Bench

(* The process is never stopped, and the CPU takes the steps it can take   *)
(* in a bounded number of cycles.                                          *)
Spec == Init /\ [][Next]_vars /\ WF_vars(Next) /\ SF_vars(CycleSystem)

-------------------------------------------------------------------------------
(***************************************************************************)
(* Properties.                                                             *)
(***************************************************************************)
TypeOK ==
    /\ argv \in Argvs
    /\ phase \in Phases /\ left \in Nat /\ now \in Nat
    /\ mode \in {PASSIVE, FORCE, AUTONOMOUS}
    /\ limit \in Nat \union {None} /\ noErr \in BOOLEAN
    /\ status \in 0 .. Killed \union {None}
    /\ rst \in BOOLEAN /\ force \in BOOLEAN
    /\ exitLoop \in {0, 1} /\ exitValid \in {0, 1} /\ exitValue \in Nat
    /\ image \in {"empty", "whole", "bare", "torn"}
    /\ cpu \in {"off", "wait_loop", "boot", "whole", "bare", "main", "stray",
                "astray", "handler", "exit_value", "exit_valid", "wfi"}
    /\ code \in Codes \union {None}
    /\ said \in Handlers \union {"nobody"}

Ran == phase = "done" /\ cpu # "off"

(* Whenever the test bench finds EXIT_VALID set, EXIT_VALUE is already     *)
(* what the program passed to exit: the two are separate stores of _exit,  *)
(* and the poll of Run may come between them.  Of a torn file nothing can  *)
(* be said: what was loaded of it runs, and may store what it likes.       *)
ValidMeansFinal ==
    phase = "run" /\ exitValid = 1 /\ image # "torn" => code # None /\ exitValue = code

(* A process that ends with status 0, asked neither for help nor to ignore *)
(* errors, ran a program with its crt0 that passed a multiple of 256 to    *)
(* exit and took no trap of the default handlers (syscalls.c, handler.c,   *)
(* tb_sim_ctrl.cpp); a chip without a program, and a program that returns  *)
(* to the boot ROM, do not pass.  A torn file is loaded as far as it goes  *)
(* and launched: it may pass, and is the exception here.                   *)
PassIsEarned ==
    Ran /\ status = 0 /\ ~noErr /\ image # "torn" =>
        /\ image = "whole"
        /\ code # None /\ code % 256 = 0
        /\ said = "nobody"

(* A run that is given up for lack of an exit has simulated the time that  *)
(* +MAX_CYCLES asked for, in its unit, and a run goes beyond that time by  *)
(* less than a slice and the 24 cycles of the start-up; unless the         *)
(* picoseconds asked for are too many for max_sim_time_.                   *)
LimitKept ==
    LET arg == CmdOption(argv, "+MAX_CYCLES")
        asked == arg[1] * Worth[arg[2]]
    IN  limit # None /\ asked < TimeMod =>
            /\ Ran /\ exitValid # 1 => now >= asked
            /\ now < asked + Period * (Slice + 24)

(* The chip leaves its boot loop only after the reset, and by the test     *)
(* bench's hand, with the image in place.                                  *)
LaunchedByBench ==
    cpu \notin {"off", "wait_loop"} => mode = FORCE /\ image # "empty"

(* With a limit, every simulation ends, whatever the program does. *)
LimitEnds == (phase = "run" /\ limit # None) ~> (phase = "done")

(* A program that calls exit ends the simulation, limit or not. *)
ExitEnds == (cpu = "exit_value") ~> (phase = "done")

(* A simulation ends if it has a limit or its program exits (Run).         *)
SimulationEnds == LimitEnds /\ ExitEnds

(* A forced boot of a whole image reaches the program, or the limit comes  *)
(* first.                                                                  *)
BootsToMain ==
    (phase = "run" /\ image = "whole" /\ cpu = "wait_loop")
        ~> (cpu = "main" \/ phase = "done")
===============================================================================
