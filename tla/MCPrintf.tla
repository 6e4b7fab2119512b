------------------------------- MODULE MCPrintf -------------------------------
(***************************************************************************)
(* Instances of Printf for TLC: directives with up to three flags, widths  *)
(* and precisions around the length of the number, and the arguments at    *)
(* the ends of their types.                                                *)
(***************************************************************************)
EXTENDS PrintfC, TLC

Zero == [kind |-> "number", neg |-> FALSE, n |-> 0, scale |-> 4, lean |-> 0]
Abc == <<"a", "b", "c">>

Base0 == [sink |-> {"putchar"}, maxlen |-> {0}, star |-> {<<>>}, n |-> {0},
          s |-> {Abc}, v |-> {Zero}, flags |-> {<<>>}, width |-> {Unset},
          prec |-> {Unset}, length |-> {<<>>}, conv |-> {"%", "y"}]

Numbers == [flags |-> {<<>>, <<"0">>, <<"-">>, <<"+">>, <<" ">>, <<"#">>, <<"0", "+">>,
                       <<"-", "0">>, <<"#", "0">>, <<"#", "-">>, <<"+", "-", " ">>},
            width |-> {Unset, 1, 2, 4, 6}, prec |-> {Unset, 0, 1, 3},
            conv |-> {"d", "u", "x", "X", "o", "b"}, n |-> {0, 5, -5, 18, 291}] @@ Base0
Sizes == [length |-> {<<"h", "h">>, <<"h">>, <<"l">>, <<"l", "l">>, <<"z">>, <<"t">>},
          conv |-> {"i", "u", "x"},
          n |-> {-1, 255, 256, 65535, 40000, -(2 ^ 19), (2 ^ 19) - 1}] @@ Base0
Stars == [flags |-> {<<>>, <<"0">>, <<"-">>}, width |-> {Star}, prec |-> {Unset, Star},
          conv |-> {"d", "s", "c", "p", "f", "e"}, n |-> {18},
          v |-> {[Zero EXCEPT !.n = 15000]},
          star |-> {<<w, q>> : w \in {-5, 0, 5}, q \in {-1, 0, 2}}] @@ Base0
Texts == [flags |-> {<<>>, <<"-">>}, width |-> {Unset, 2, 5}, prec |-> {Unset, 0, 2, 7},
          conv |-> {"s", "c", "%", "y"}] @@ Base0
NulChar == [conv |-> {"c"}, s |-> {<<NUL>>}, width |-> {Unset, 2}] @@ Base0
Fixeds == [flags |-> {<<>>, <<"0">>, <<"-">>, <<"0", "+">>, <<"#">>}, width |-> {Unset, 9},
           prec |-> {Unset, 0, 1, 2, 3, 11, 42}, conv |-> {"f"},
           v |-> [kind : {"number"}, neg : BOOLEAN, scale : {4}, lean : {-1, 0, 1},
                  n : {0, 500, 5000, 9500, 9900, 9950, 9996, 15000, 25000, 27001, 123450}]]
          @@ Base0
(* n and scale: 0, powers of ten, numbers next to one, carries, and three  *)
(* digits of exponent.                                                     *)
Values == {<<0, 0>>, <<1, 0>>, <<1000, 0>>, <<100000, 0>>, <<12, 5>>, <<996, 2>>, <<995, 2>>,
           <<1234567, 0>>, <<9999996, 1>>, <<15, 1>>, <<25, 7>>,
           <<96, 4>>, <<94, 11>>, <<96, 3>>, <<95, 6>>, <<9996, 8>>,
           <<3, -120>>, <<1, 130>>, <<1, 4>>}
Exponentials == [flags |-> {<<>>, <<"0">>, <<"-", "+">>, <<"#">>}, width |-> {Unset, 13},
                 prec |-> {Unset, 0, 1, 3}, conv |-> {"e", "G"},
                 v |-> {[kind |-> "number", neg |-> sign, n |-> c[1], scale |-> c[2], lean |-> half]
                          : sign \in BOOLEAN, c \in Values, half \in {-1, 0, 1}}] @@ Base0
Nines == [flags |-> {<<"0">>, <<"0", "-">>, <<"0", "+">>, <<"0", "#">>}, width |-> {31, 32, 33},
          prec |-> {2, 3, 4}, conv |-> {"e", "G"},
          v |-> {[Zero EXCEPT !.n = c[1], !.scale = c[2], !.lean = half]
                   : c \in {<<195, 2>>, <<995, 2>>, <<1995, 3>>, <<9996, 3>>, <<12995, 3>>},
                     half \in {-1, 0, 1}}] @@ Base0
Huge == [prec |-> {Unset, 2}, conv |-> {"f", "F"}, width |-> {Unset, 12},
         v |-> {[Zero EXCEPT !.n = 25, !.scale = -9]}] @@ Base0
Specials == [flags |-> {<<>>, <<"0">>, <<"-">>, <<"+">>, <<" ">>, <<" ", "+">>, <<"-", " ">>},
             width |-> {Unset, 4, 5},
             conv |-> {"f", "F", "e", "G"},
             v |-> [kind : {"nan", "inf"}, neg : BOOLEAN, n : {0}, scale : {4}, lean : {0}]] @@ Base0
Buffers == [sink |-> {"buffer", "null"}, maxlen |-> 0 .. 9, n |-> {291},
            flags |-> {<<>>, <<"-">>}, width |-> {Unset, 5}, conv |-> {"d", "s"}] @@ Base0
Wide == [flags |-> {<<>>, <<"0">>, <<"-">>}, width |-> {40}, conv |-> {"d", "x"},
         n |-> {-5}] @@ Base0

(* Numbers that reach the end of the conversion buffer. *)
Cuts == [flags |-> {<<>>, <<"#">>, <<"-">>, <<"0">>, <<" ">>, <<"#", "-">>, <<" ", "-">>},
         width |-> {Unset, 32, 33}, prec |-> {Unset, 31, 32, 33},
         conv |-> {"d", "o", "x"}, n |-> {0, 5, -5}] @@ Base0

MCFamilies == {Numbers, Sizes, Stars, Texts, NulChar, Fixeds, Exponentials, Nines, Huge, Specials,
                Buffers, Wide, Cuts}
===============================================================================
