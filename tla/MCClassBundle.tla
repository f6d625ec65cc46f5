---------------------------- MODULE MCClassBundle ----------------------------
(* The class files that main is given. *)
EXTENDS ClassBundle, TLC

Class(name, super, fields, methods, pool) ==
  [name |-> name, super |-> super, interfaces |-> {}, interface |-> FALSE,
   fields |-> fields, methods |-> methods, pool |-> pool]
Field(name, type) == [name |-> name, type |-> type, static |-> FALSE]
Static(name, type) == [name |-> name, type |-> type, static |-> TRUE]
FieldRef(class, name) == [kind |-> "field", class |-> class, name |-> name]
MethodRef(class, name) == [kind |-> "method", class |-> class, name |-> name, static |-> FALSE]
StaticRef(class, name) == [kind |-> "method", class |-> class, name |-> name, static |-> TRUE]
ClassRef(class) == [kind |-> "class", class |-> class]

MCCore ==
  Class("Core", Object, <<>>, ("collect" :> "native") @@ ("make" :> "java"), <<ClassRef("B")>>)

Root(fields) == Class(Object, None, fields, "hash" :> "java", <<>>)
Runnable == [Class("I", Object, <<>>, "run" :> "abstract", <<>>) EXCEPT !.interface = TRUE]

(* B extends A; what a method of A refers to has the same numbers in B. *)
PoolA == <<ClassRef("B"), FieldRef("A", "x"), FieldRef("B", "s"), MethodRef("A", "run"),
           FieldRef("B", "next"), ClassRef("A"), StaticRef("A", "help")>>
A == Class("A", Object, <<Field("x", "int"), Static("s", "int")>>,
           ("main" :> "java") @@ ("run" :> "java") @@ ("help" :> "java") @@ (Clinit :> "java"),
           PoolA)

B(fields, methods, pool) == [Class("B", "A", fields, methods, pool) EXCEPT !.interfaces = {"I"}]
Next1 == <<Field("next", "A")>>
Runs == "run" :> "java"

Lines ==
  LET o == Root(<<>>)
      b == B(Next1, Runs, PoolA)
      (* Numbers that only the pool of B has, and others that differ. *)
      extra == <<FieldRef("A", "s"), ClassRef("I"), FieldRef("B", "any")>>
      wide == B(Next1 \o <<Field("any", "I")>>, Runs, PoolA \o extra)
      other == B(Next1, Runs, Tail(PoolA))
      hides == B(<<Field("x", "int"), Field("next", "A")>>, Runs, PoolA)
      (* A native method of Core, overridden and not. *)
      calls == <<MethodRef("Core", "collect"), MethodRef("B", "collect"), ClassRef("B"),
                 FieldRef(Object, "count")>>
      core(methods) == Class("B", "Core", <<>>, Runs @@ ("main" :> "java") @@ methods, calls)
      refers == Class("B", "A", <<Static("a", "A"), Static("z", "Z")>>, "main" :> "java", <<>>)
      alone == Class("B", "A", <<Static("z", "int")>>, "main" :> "java", <<>>)
      counts == Root(<<Static("count", "int")>>)
      (* Only an interface of the class that is named has the method. *)
      abstract == [Class("A", Object, <<>>, "sum" :> "java", <<>>) EXCEPT !.interfaces = {"I"}]
      concrete == Class("B", "A", <<>>, Runs @@ ("main" :> "java"), <<MethodRef("A", "run")>>)
  IN  {<<o, A, b>>, <<b, A, o, Runnable>>, <<o, A, b, A, b>>, <<o, A, Runnable, wide>>, <<o, A, other>>,
       <<o, A, hides>>, <<A, b>>, <<o, b>>, <<o, A>>,
       <<o, A, refers>>, <<o, alone>>,
       <<counts, core("none" :> "java")>>, <<counts, core("collect" :> "java")>>,
       <<o, MCCore, core("none" :> "java")>>, <<o, Runnable, abstract, concrete>>}
=============================================================================
