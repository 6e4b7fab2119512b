------------------------------- MODULE MCSocBoot -------------------------------
(***************************************************************************)
(* Instances of SocBoot for TLC: the command lines of the Makefile's kind, *)
(* with every boot mode, unit and kind of image, and the broken ones.      *)
(* A unit of time is ten of the next smaller one, a clock cycle 100 ps,    *)
(* and times are kept in 20 bits: 106 s are too many picoseconds for them. *)
(***************************************************************************)
EXTENDS SocBoot

Arg(o, v) == [opt |-> o, val |-> v]
File(kind) == Arg("+BINARY", <<kind>>)
Max_(n, unit) == Arg("+MAX_CYCLES", <<n, unit>>)
Boot(m) == Arg("+BOOTMODE", <<m>>)

MCTimeMod == 2^20

Forced1 == {<<File(f), Boot("force"), l>> :
                f \in {"whole", "bare", "torn", "cut", "missing"},
                l \in {Max_(30, "cycle"), Max_(200, "us"), Max_(1241, "ns"),
                       Max_(4001, "ps"), Max_(0, "cycle")}}
Units == {<<File("whole"), Boot("force"), l>> :
              l \in {Max_(13, "ms"), Max_(1, "s"), Max_(106, "s")}}
Endless == {<<File("whole"), Boot("force")>>, <<File("whole"), Boot("jtag")>>}
Modes == {<<File("whole"), Max_(30, "cycle"), Boot(m)>> :
                m \in {"sd", "uart", "slink", "jtag", "typo"}}
Others == {<<File("whole"), Max_(30, "cycle")>>,
           <<File("whole"), Max_(500, "us"), Boot("jtag"), Boot("force"), Max_(300, "us")>>,
           <<File("whole"), Boot("force"), Max_(7, "weeks")>>,
           <<File("whole"), Boot("force"), Max_(None, "cycle")>>,
           <<File("whole"), Boot("force"), Max_(MCTimeMod, "ps")>>,
           <<Boot("force"), Max_(30, "cycle")>>,
           <<Arg("-h", <<>>)>>, <<Arg("-t", <<"true">>)>>,
           <<Arg("--no_err", <<"true">>), File("whole"), Max_(30, "cycle")>>,
           <<Arg("-q", <<"true">>), File("whole"), Max_(30, "cycle")>>}

MCArgvs == Forced1 \union Units \union Endless \union Modes \union Others
MCCodes == {0, 1, 512}
MCCauses == {2, 13, Interrupt(7)}
===============================================================================
