------------------------- MODULE MCGlobalEnvToAlloca -------------------------
(* Modules for GlobalEnvToAlloca.  Registers do not depend on each other, so   *)
(* the programs vary what they do with one of them; the other is set by the    *)
(* run-time library and read in a function called from main.                   *)
EXTENDS GlobalEnvToAlloca, TLC

MCRegs == {"R_EAX", "R_ESP"}

Load1 == <<I("load", "R_EAX")>>
Store1 == <<I("store", "R_EAX")>>
Call1(f) == <<I("call", f)>>
UseOrCall(fs) == {<<>>, Load1, Store1} \cup {Call1(f) : f \in fs}

Runtime == Rt :> MainCode @@ Wrapper :> WrapperCode("Func_m")

Program(main1, main2, f1, f2, f3, after, g1) ==
  Runtime
    @@ "Func_m" :> <<B(main1 \o Call1("Func_f") \o main2, {})>>
    @@ "Func_f" :> <<B(f1, {2, 3}), B(f2, after), B(f3 \o <<I("load", "R_ESP")>>, {})>>
    @@ "Func_g" :> <<B(g1, {})>>

\* main calls f and perhaps g; f branches or loops, and calls itself or g; g may
\* call f.
Small ==
  {Program(main1, main2, f1, f2, f3, after, g1) :
     main1 \in {<<>>, Store1, Call1("Func_g")}, main2 \in {<<>>, Load1, Call1("Func_g")},
     f1 \in {<<>>, Store1, Call1("Func_g")}, f2 \in UseOrCall({"Func_f", "Func_g"}),
     f3 \in {<<>>, Load1, Call1("Func_g")}, after \in {{3}, {2, 3}},
     g1 \in UseOrCall({"Func_f"})}

\* A function that never returns.
Endless ==
  Runtime
    @@ "Func_m" :> <<B(<<I("load", "R_ESP")>>, {2, 3}), B(Call1("Func_f"), {3}),
                     B(Store1 \o Call1("Func_g") \o Load1, {})>>
    @@ "Func_f" :> <<B(Load1, {1})>>
    @@ "Func_g" :> <<B(<<>>, {2, 3}), B(Store1, {3}), B(<<>>, {})>>

\* A library function that does not return.
Exits ==
  Runtime
    @@ "Func_m" :> <<B(Store1, {2, 3}), B(Call1("Func_f"), {}), B(Call1("Func_f") \o Load1, {})>>
    @@ "Func_f" :> <<B(<<>>, {2, 3}), B(<<I("load", "R_ESP"), Unreachable>>, {}), B(Store1, {})>>

MCModules == Small \cup {Endless, Exits}
=============================================================================
