------------------------------ MODULE MCRunPins ------------------------------
(* The worlds of RunPinWorlds for TLC.                                      *)
(*                                                                           *)
(* The registry looks after a small quantverify: two packages of one module  *)
(* each and a top-level engine, whose sources import each other in the ways  *)
(* the walk tells apart.  The planned specs write their amounts and instants *)
(* in several ways.                                                          *)
EXTENDS RunPinWorlds

CONSTANTS r1, r2, r3

-----------------------------------------------------------------------------
(* The installation *)

Quantverify == "quantverify"
Top       == <<Quantverify, "__init__">>
Core      == <<Quantverify, "core", "__init__">>
Identity  == <<Quantverify, "core", "identity">>
Package2  == <<Quantverify, "strategies", "__init__">>
Trend     == <<Quantverify, "strategies", "trend">>
EnginePy  == <<Quantverify, "engine">>
Files     == {Top, Core, Identity, Package2, Trend, EnginePy}
Roots     == [strategy |-> Trend, engine |-> EnginePy]

Import(module, names) == [module |-> module, names |-> names, relative |-> FALSE]
Static(imports) == [static |-> TRUE, imports |-> imports]

Plain       == Static({})
Foreign     == Static({Import(<<"decimal">>, {"Decimal"})})
WholeModule == Static({Import(Identity, {})})
FromPackage == Static({Import(<<Quantverify, "core">>, {"identity", "DomainModel"})})
FromModule  == Static({Import(Identity, {"canonicalize"})})
FromTop     == Static({Import(<<Quantverify, "core">>, {"DomainModel"})})
Nowhere     == Static({Import(<<Quantverify, "plugins">>, {})})
Dynamic     == [static |-> FALSE, imports |-> {}]
Facility    == Static({Import(<<"importlib">>, {})})
Relative    == Static({[module |-> <<"core">>, names |-> {}, relative |-> TRUE]})

Written == {FromPackage, Dynamic, Facility}   \* what an edit leaves

Installation(trend, core, paths) ==
    LET files == [p \in Files |-> CASE p = Trend -> trend
                                   [] p = Core -> core
                                   [] p = Identity -> FromTop
                                   [] p = Package2 -> Foreign
                                   [] p = EnginePy -> FromTop
                                   [] OTHER -> Plain]
        declares == [strategy |-> paths \cup {Trend},
                   engine |-> {Top, Core, EnginePy} \cup
                                (IF core = FromModule THEN {Identity} ELSE {})]
    IN  [disk |-> files, declared |-> declares,
         pinned |-> [i \in DOMAIN Roots |-> [p \in declares[i] |-> files[p]]]]

\* Any selection of the sources below core, and a table without an initializer.
Installations ==
    {Installation(trend, core, paths) :
        trend \in {WholeModule, FromPackage, FromTop, Nowhere, Relative},
        core \in {Plain, FromModule},
        paths \in {{Top, Package2} \cup X : X \in SUBSET {Core, Identity}}
                    \cup {{Package2, Core, Identity}}}

-----------------------------------------------------------------------------
(* The commands *)

Dec(digits, exponent) == [sign |-> 0, digits |-> digits, exponent |-> exponent]
MinusZero == [sign |-> 1, digits |-> 0, exponent |-> 0]

MCPlannedSpecs ==
    [cash : {Dec(10, 0), Dec(1, 1), Dec(1, 0), Dec(0, 0)},
     commission : {Dec(0, 0), MinusZero, Dec(50, -1), Dec(5, 0)},
     slippage : {Dec(9, 3), Dec(10, 3)},
     start : {[utc |-> 1, offset |-> 0], [utc |-> 1, offset |-> 8],
              [utc |-> 2, offset |-> 8]}]

MCFullCost == Dec(1, 4)
=============================================================================
