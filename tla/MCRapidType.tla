---------------------------- MODULE MCRapidType ----------------------------
(* Instances of RapidTypeAnalysis: programs whose entry point has any      *)
(* subset of four statements.  A type is <<name>> or <<"ref", name>>, a    *)
(* function <<name, number>> and a call site <<body, number>>.             *)
EXTENDS RapidTypeFixpoint

F(name) == <<name, 0>>
T(name) == <<name>>
Ref(name) == <<"ref", name>>
BoxA == <<"box", "A">>
BoxT == <<"box", "dyn T">>

Mains == {<<"main", n>> : n \in 0..15}
Has(b, i) == b[1] = "main" /\ (b[2] \div 2^(i - 1)) % 2 = 1

MCFunc ==
  Mains \cup {F("helper"), F("fooA"), F("fooB"), F("barA"), F("barB"), F("ext"), F("item"),
              F("closure"), F("callU"), F("alloc"), F("hidden")}
MCPromoted == {F("promoted")}
MCBody == MCFunc \cup MCPromoted
MCPromotedOf == [b \in MCBody |-> IF b = F("helper") THEN MCPromoted ELSE {}]

Named == {"A", "B", "U", "K", "I", "J", "fn", "fn'", "dyn T", "dyn S", "dyn Fn"}
MCTy == {T(n) : n \in Named} \cup {Ref(n) : n \in Named} \cup {BoxA, BoxT}
MCDynTy == {T("dyn T"), T("dyn S"), T("dyn Fn")}
MCFnPtrTy == {T("fn"), T("fn'")}
MCPointee == [t \in MCTy |-> IF t[1] = "ref" THEN T(t[2]) ELSE None]
MCUnsizeArgs == [c \in MCTy \X MCTy |-> IF c = <<BoxA, BoxT>> THEN {<<T("A"), T("dyn T")>>} ELSE {}]
MCStripAuto == [t \in MCDynTy |-> t]
MCFnItem ==
  [t \in MCTy |-> CASE t = T("K") -> F("closure") [] t = T("I") -> F("item")
                     [] t = T("J") -> F("alloc") [] OTHER -> None]
MCMatchedSig == {<<t, t>> : t \in MCFnPtrTy} \cup {<<T("fn'"), T("fn")>>}

MCMethod == {"helper", "hidden", "alloc", "spawn", "foo", "bar", "call", "fnptr"}
MCDirect ==
  [c \in MCMethod \X MCTy |->
     IF c[1] \in {"helper", "hidden", "alloc"} THEN F(c[1])
     ELSE IF c[1] = "spawn" THEN F("ext") ELSE None]
MCDevirt ==
  [c \in MCMethod \X MCTy |->
     CASE c = <<"foo", T("A")>> -> F("fooA")
       [] c = <<"foo", T("B")>> -> F("fooB")
       [] c = <<"bar", T("A")>> -> F("barA")
       [] c = <<"bar", T("B")>> -> F("barB")
       [] c = <<"call", T("U")>> -> F("callU")
       [] OTHER -> None]

(* The statements of the entry points, and the bodies they lead to.        *)
MCCasts ==
  [b \in MCBody |->
     {c \in {<<BoxA, BoxT>>} : Has(b, 1)}
     \cup {c \in {<<Ref("K"), Ref("dyn Fn")>>, <<Ref("fn"), Ref("dyn Fn")>>,
                 <<Ref("J"), Ref("dyn Fn")>>} : Has(b, 3)}
     \cup {c \in {<<Ref("dyn T"), Ref("dyn S")>>} : Has(b, 4)}
     \cup (CASE b = F("promoted") -> {<<T("I"), T("fn")>>}
             [] b = F("fooA") -> {<<Ref("B"), Ref("dyn T")>>}
             [] b = F("closure") -> {<<T("K"), T("fn'")>>, <<Ref("U"), Ref("dyn Fn")>>}
             [] b = F("hidden") -> {<<Ref("B"), Ref("dyn S")>>}
             [] OTHER -> {})]
MCCallsIn ==
  [b \in MCBody |->
     {c \in {<<<<b, 1>>, "foo", T("dyn T")>>} : Has(b, 1)}
     \cup {c \in {<<<<b, 2>>, "helper", T("A")>>} : Has(b, 2)}
     \cup {c \in {<<<<b, 3>>, "call", T("dyn Fn")>>} : Has(b, 3)}
     \cup {c \in {<<<<b, 4>>, "bar", T("dyn S")>>} : Has(b, 4)}
     \cup (CASE b = F("helper") -> {<<<<b, 1>>, "fnptr", T("fn")>>}
             [] b = F("fooB") -> {<<<<b, 1>>, "spawn", T("K")>>}
             [] b = F("barA") -> {<<<<b, 1>>, "call", T("U")>>, <<<<b, 2>>, "alloc", T("A")>>}
             [] b = F("item") -> {<<<<b, 1>>, "fnptr", T("fn'")>>, <<<<b, 2>>, "bar", T("A")>>}
             [] b = F("callU") -> {<<<<b, 1>>, "helper", T("A")>>}
             [] b = F("alloc") -> {<<<<b, 1>>, "hidden", T("A")>>}
             [] OTHER -> {})]
MCCallSite == MCBody \X (1..5)
MCSiteBody == [cs \in MCCallSite |-> cs[1]]
MCNextLoc == [cs \in MCCallSite |-> IF cs[2] = 5 THEN cs ELSE <<cs[1], cs[2] + 1>>]
WithoutMir == {F("ext")}
NoStatics == [b \in MCBody |-> {}]

(* static H: fn() = item;  static S: &A = &new();  main refers to both and   *)
(* calls H, and takes a &dyn Fn of a closure.                               *)
StaticMain == {<<"main", 4>>}
FnptrCallsIn ==
  [b \in MCBody |->
     IF Has(b, 3) THEN {<<<<b, 1>>, "fnptr", T("fn")>>, <<<<b, 2>>, "call", T("dyn Fn")>>} ELSE {}]
ItemInStatic == [b \in MCBody |-> IF Has(b, 3) THEN {<<T("I"), T("fn")>>} ELSE {}]
OwnerInStatic == [b \in MCBody |-> IF Has(b, 3) THEN {F("S")} ELSE {}]
=============================================================================
