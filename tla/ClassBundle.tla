----------------------------- MODULE ClassBundle -----------------------------
(***************************************************************************)
(* The bundle of loaded classes and what is looked up in it by name        *)
(* (src/src/rjvm.c, src/src/exec.c, main of src/srchead/rhino.c): main     *)
(* loads the classes it is given, makes their static fields, makes an      *)
(* object of the entry class and runs its method main.  Methods then call  *)
(* methods, make objects, cast them, and read and write their fields and   *)
(* the static ones.                                                        *)
(*                                                                         *)
(* Every opcode names what it wants by a number into a constant pool.  The *)
(* compiler numbered it for the class the method is written in; the code   *)
(* looks it up in the pool of the class the method is run as, and getfield *)
(* in that of the object.  Next to each lookup the language's answer is    *)
(* kept.  Where the code is known to look up the wrong thing, the model    *)
(* says so and stops: status "misled".                                     *)
(***************************************************************************)
EXTENDS Integers, Sequences, FiniteSets, SequencesExt, Functions

CONSTANTS
  CommandLines, \* the classes main is given, each a sequence of class files
  Core,         \* the class file that main loads first
  Entry,        \* the name of the entry class
  MaxObjects, MaxDepth

ASSUME BundleAssumption == MaxObjects \in Nat \ {0} /\ MaxDepth \in Nat \ {0}

None == "none"
Object == "java/lang/Object"
Clinit == "<clinit>"

NoNames == {None, "int"}

(***************************************************************************)
(* What a Java compiler leaves behind: classes that have names, refer to   *)
(* classes by name and have no two fields of one name; the root alone has  *)
(* no super; an interface stands under the root, has static fields only,   *)
(* and what a class implements are interfaces; no class is above itself.   *)
(* A class given twice is the same class.                                  *)
(***************************************************************************)
ClassFile(file) ==
  /\ file.name \notin NoNames /\ file.super # "int"
  /\ file.super = None <=> file.name = Object
  /\ file.fields \in Seq([name : STRING, type : STRING \ {None}, static : BOOLEAN])
  /\ \A j, k \in DOMAIN file.fields : file.fields[j].name = file.fields[k].name => j = k
  /\ file.interface =>
       file.super = Object /\ \A j \in DOMAIN file.fields : file.fields[j].static
  /\ \A i \in DOMAIN file.pool : file.pool[i].class \notin NoNames

WellFormed(files) ==
  /\ files \in Seq(ToSet(files))
  /\ \A j \in DOMAIN files : ClassFile(files[j])
  /\ \A j, k \in DOMAIN files :
       /\ files[j].name = files[k].name => files[j] = files[k]
       /\ files[k].name \in files[j].interfaces => files[k].interface
  /\ \A S \in SUBSET DOMAIN files \ {{}} :
       \E j \in S : \A k \in S : files[k].name # files[j].super

ASSUME ClassAssumption ==
  /\ \A line \in CommandLines : WellFormed(<<Core>> \o line)
  /\ Entry \notin NoNames

VARIABLES
  given,       \* the class files, in the order of their loading
  sfields,     \* the static fields of each class loaded; the bundle is the reverse
  made,        \* the classes whose static fields are made
  objects,     \* the objects of the program
  frames,      \* the methods under way, innermost last
  status,      \* how far main is, or how the process ended
  statics,     \* history: the static fields as the language has them
  initialised, \* history: the classes whose <clinit> was executed
  got, want    \* history: what was read last, and what should have been

vars == <<given, sfields, made, objects, frames, status, statics, initialised, got, want>>

-----------------------------------------------------------------------------
(* Classes and their names, as the language sees them.                     *)

Names == {given[j].name : j \in DOMAIN given}
File(n) == given[CHOOSE j \in DOMAIN given : given[j].name = n]

(* The supers of n that were given, n included; next[m] are those next to m. *)
Up(n, next) ==
  LET names == Names
      closed == {S \in SUBSET names :
                   (n \in names => n \in S) /\ \A k \in S : next[k] \cap names \subseteq S}
  IN  {m \in names : \A S \in closed : m \in S}

Above(n) == Up(n, [m \in Names |-> {File(m).super}])
Types(n) == Up(n, [m \in Names |-> {File(m).super} \cup File(m).interfaces])

(* The class above n nearest to it among the classes that have what is     *)
(* looked for; None when there is none.                                    *)
Nearest(n, having) ==
  LET cs == Above(n) \cap having
  IN  IF cs = {} THEN None ELSE CHOOSE d \in cs : cs \subseteq Above(d)

Declares(n, isStatic, f) ==
  \E j \in DOMAIN File(n).fields :
    File(n).fields[j].name = f /\ File(n).fields[j].static = isStatic

Selected(n, meth) == Nearest(n, {d \in Names : meth \in DOMAIN File(d).methods})
Home(n, isStatic, f) == Nearest(n, {d \in Names : Declares(d, isStatic, f)})

-----------------------------------------------------------------------------
(* The lookups of the code.  A class is its place in given; 0 is none.     *)

Ids == DOMAIN sfields
Name(c) == given[c].name
Method(c, meth) == given[c].methods[meth]

(* jvm_AddClassToBundle puts the class in front, so the last one loaded is  *)
(* found.                                                                  *)
FindClass(n) ==
  LET cs == {c \in Ids : Name(c) = n} IN IF cs = {} THEN 0 ELSE CHOOSE c \in cs : \A b \in cs : b <= c

Missing == -1

(* From c up to one of the classes that have what is looked for: 0 when     *)
(* there is none; when a super is not in the bundle jvm_FindClassInBundle  *)
(* ends the process.                                                       *)
Walk(c, having) ==
  LET walk[b \in Ids] ==
        LET super == given[b].super
        IN  IF b \in having THEN b
            ELSE IF super = None THEN 0
            ELSE IF FindClass(super) = 0 THEN Missing ELSE walk[FindClass(super)]
  IN  walk[c]

(* Wrong on purpose: the supers are not searched. *)
FindMethodOwn(c, meth) == IF meth \in DOMAIN given[c].methods THEN c ELSE 0

FindMethod(c, meth) == Walk(c, {b \in Ids : meth \in DOMAIN given[b].methods})

(* The supers of a class that has objects are all in the bundle. *)
IsInstanceOf(o, n) == Walk(objects[o].class, {b \in Ids : Name(b) = n}) # 0

(* getstatic and putstatic do not look into a class without a super. *)
FindStatic(c, f) ==
  Walk(c, {b \in Ids : given[b].super # None /\ f \in DOMAIN sfields[b]})

(* The fields of a new object, its own class first, the static ones as well. *)
OwnFields(c) ==
  [j \in DOMAIN given[c].fields |->
     [name |-> given[c].fields[j].name, type |-> given[c].fields[j].type,
      from |-> Name(c), static |-> given[c].fields[j].static, value |-> 0]]

(* Wrong on purpose: the fields of the supers are left out. *)
AllFieldsOwn(c) == OwnFields(c)

AllFields(c) ==
  LET all[b \in Ids] ==
        LET super == FindClass(given[b].super)
        IN  IF super = 0 THEN OwnFields(b) ELSE OwnFields(b) \o all[super]
  IN  all[c]

TypesFound(fs) == \A f \in fs : f.type = "int" \/ FindClass(f.type) # 0
CanMake(c) == Walk(c, {}) # Missing /\ TypesFound(ToSet(AllFields(c)))

(* The first field of that name. *)
Slot(o, f) == SelectInSeq(objects[o].fields, LAMBDA x : x.name = f)

-----------------------------------------------------------------------------
Init ==
  /\ \E line \in CommandLines : given = <<Core>> \o line
  /\ sfields = <<>> /\ made = {} /\ objects = <<>> /\ frames = <<>>
  /\ status = "loading"
  /\ statics = [x \in {} |-> 0]
  /\ initialised = {}
  /\ got = 0 /\ want = 0

Ends(how) ==
  /\ status' = how
  /\ UNCHANGED <<given, sfields, made, objects, frames, statics, initialised, got, want>>

Load ==
  /\ status = "loading"
  /\ Len(sfields) < Len(given)
  /\ sfields' = Append(sfields, [f \in {} |-> 0])
  /\ UNCHANGED <<given, made, objects, frames, status, statics, initialised, got, want>>

(* jvm_FindMethodInClass returns 0 when it has found the method. *)
ClinitTest(found) == ~found

(***************************************************************************)
(* jvm_MakeStaticFields for the next class of the bundle.  The fields get  *)
(* no value.  jvm_ExecuteObjectMethod gives up when there is no <clinit>.  *)
(***************************************************************************)
Unset == -1

MakeStatics(c) ==
  LET fs == {f \in ToSet(given[c].fields) : f.static}
      clinit == FindMethod(c, Clinit)
  IN  /\ status = "loading" /\ Len(sfields) = Len(given)
      /\ c \notin made /\ \A b \in Ids : b > c => b \in made
      /\ IF fs = {}
           THEN /\ made' = made \cup {c}
                /\ UNCHANGED <<sfields, statics, initialised, status>>
           ELSE IF ~TypesFound(fs) \/ clinit = Missing
           THEN status' = "missing" /\ UNCHANGED <<sfields, made, statics, initialised>>
           ELSE /\ made' = made \cup {c}
                /\ sfields' = [sfields EXCEPT ![c] =
                                 [n \in {f.name : f \in fs} |-> Unset]]
                /\ statics' = [x \in DOMAIN statics \cup {<<Name(c), f.name>> : f \in fs} |-> 0]
                /\ initialised' = IF ClinitTest(clinit # 0) /\ clinit # 0
                                  THEN initialised \cup {Name(c)} ELSE initialised
                /\ UNCHANGED status
      /\ UNCHANGED <<given, objects, frames, got, want>>

-----------------------------------------------------------------------------
(* Wrong on purpose: the fields keep what was in the memory. *)
NewObjectUncleared(c) ==
  [class |-> c,
   fields |-> [j \in DOMAIN AllFields(c) |-> [AllFields(c)[j] EXCEPT !.value = 1]],
   java |-> [x \in {<<AllFields(c)[j].from, AllFields(c)[j].name>> : j \in DOMAIN AllFields(c)} |-> 0]]

(* jvm_CreateObject and jvm_MakeObjectFields; java is history. *)
NewObject(c) ==
  [class |-> c,
   fields |-> AllFields(c),
   java |-> [x \in {<<AllFields(c)[j].from, AllFields(c)[j].name>> : j \in DOMAIN AllFields(c)} |-> 0]]

(* jvm_ExecuteObjectMethod as class c finds the method anew. *)
Frame(c, meth, should) == [as |-> c, in |-> FindMethod(c, meth), should |-> should]

HasCode(c, meth) == FindMethod(c, meth) > 0 /\ Method(FindMethod(c, meth), meth) = "java"

(* No argument of the command line named an entry class: main notices when *)
(* the static fields are made, and returns -1.                             *)
NoEntry == status = "loading" /\ made = DOMAIN given /\ Ends("noentry")

(* Otherwise it makes an object of that class and calls its main. *)
Start ==
  LET c == FindClass(Entry)
  IN  /\ status = "loading" /\ made = DOMAIN given
      /\ IF c = 0 \/ ~CanMake(c)
           THEN Ends("missing")
           ELSE IF ~HasCode(c, "main") THEN Ends("nomain")
           ELSE /\ objects' = <<NewObject(c)>>
                /\ frames' = <<Frame(c, "main", Selected(Entry, "main"))>>
                /\ status' = "running"
                /\ UNCHANGED <<given, sfields, made, statics, initialised, got, want>>

-----------------------------------------------------------------------------
Top == Last(frames)

(* The constant i of the class the method is written in, and of another. *)
Written(i) == given[Top.in].pool[i]
Constant(c, i) == IF i \in DOMAIN given[c].pool THEN given[c].pool[i] ELSE [kind |-> None]

(* An opcode with constant i of that kind comes; what is looked up in the   *)
(* pool of the class the method is run as.                                 *)
Opcode(i, kind) ==
  /\ status = "running"
  /\ i \in DOMAIN given[Top.in].pool
  /\ Written(i).kind = kind

PoolMisleads(c, i) == Constant(c, i) # Written(i)

(* What the compiler lets an operand be: null, or an object of that type. *)
Operand(o, type) ==
  IF type = "int" THEN o \in 0..1
  ELSE o = 0 \/ (o \in DOMAIN objects /\ type \in Types(Name(objects[o].class)))

-----------------------------------------------------------------------------
New(i) ==
  LET c == FindClass(Written(i).class)
  IN  /\ Opcode(i, "class")
      /\ IF PoolMisleads(Top.as, i) THEN Ends("misled")
         ELSE IF c = 0 THEN Ends("missing")
         ELSE IF ~CanMake(c) THEN Ends("missing")
         ELSE /\ ~File(Name(c)).interface
              /\ Len(objects) < MaxObjects
              /\ objects' = Append(objects, NewObject(c))
              /\ UNCHANGED <<given, sfields, made, frames, status, statics,
                             initialised, got, want>>

(* A super is looked for among classes only; interfaces are passed over. *)
Overlooked(o, n) == ~IsInstanceOf(o, n) /\ n \in Names /\ File(n).interface

(* checkcast: null is not asked for first. *)
CheckCast(o, i) ==
  LET n == Written(i).class
  IN  /\ Opcode(i, "class")
      /\ o \in 0..Len(objects)
      /\ IF PoolMisleads(Top.as, i) THEN Ends("misled")
         ELSE IF o = 0 THEN Ends("crashed")
         ELSE IF Overlooked(o, n) THEN Ends("misled")
         ELSE /\ got' = IF IsInstanceOf(o, n) THEN o ELSE 0
              /\ want' = IF n \in Types(Name(objects[o].class)) THEN o ELSE 0
              /\ status' = IF IsInstanceOf(o, n) THEN "running" ELSE "exit9"
              /\ UNCHANGED <<given, sfields, made, objects, frames, statics, initialised>>

-----------------------------------------------------------------------------
(* The field meant by constant i in object o, and the one that is found. *)
Meant(o, i) == <<Home(Written(i).class, FALSE, Written(i).name), Written(i).name>>
Found(o, i) ==
  LET f == objects[o].fields[Slot(o, Written(i).name)] IN <<f.from, f.name>>

(* An object has one field of each name, a static one included, that can be *)
(* found.                                                                  *)
Hidden(o, i) == Found(o, i) # Meant(o, i)

IsField(i, isStatic) ==
  Opcode(i, "field") /\ Home(Written(i).class, isStatic, Written(i).name) # None

FieldType(i, isStatic) ==
  LET d == File(Home(Written(i).class, isStatic, Written(i).name))
  IN  d.fields[SelectInSeq(d.fields, LAMBDA f : f.name = Written(i).name)].type

GetField(o, i) ==
  /\ IsField(i, FALSE)
  /\ Operand(o, Written(i).class)
  /\ IF o = 0 THEN Ends("crashed")
     ELSE IF PoolMisleads(objects[o].class, i) \/ Hidden(o, i) THEN Ends("misled")
     ELSE /\ got' = objects[o].fields[Slot(o, Written(i).name)].value
          /\ want' = objects[o].java[Meant(o, i)]
          /\ UNCHANGED <<given, sfields, made, objects, frames, status, statics, initialised>>

(* putfield: what is not an instance of the class of the field is refused. *)
PutField(o, i, v) ==
  LET w == Slot(o, Written(i).name)
      type == objects[o].fields[w].type
  IN  /\ IsField(i, FALSE)
      /\ Operand(o, Written(i).class) /\ Operand(v, FieldType(i, FALSE))
      /\ IF o = 0 THEN Ends("crashed")
         ELSE IF PoolMisleads(Top.as, i) \/ Hidden(o, i) THEN Ends("misled")
         ELSE IF type # "int" /\ v # 0 /\ Overlooked(v, type) THEN Ends("misled")
         ELSE IF type # "int" /\ v # 0 /\ ~IsInstanceOf(v, type)
         THEN /\ status' = "exit4"
              /\ got' = 0 /\ want' = v
              /\ UNCHANGED <<given, sfields, made, objects, frames, statics, initialised>>
         ELSE /\ objects' = [objects EXCEPT ![o].fields[w].value = v,
                                            ![o].java[Meant(o, i)] = v]
              /\ UNCHANGED <<given, sfields, made, frames, status, statics, initialised, got, want>>

-----------------------------------------------------------------------------
(* The class where the static field is found that constant i names. *)
StaticHome(i) ==
  IF FindClass(Written(i).class) = 0 THEN Missing
  ELSE FindStatic(FindClass(Written(i).class), Written(i).name)

(* A static field has the value that was in the memory until it is written. *)
GetStatic(i) ==
  LET c == StaticHome(i)
      f == Written(i).name
  IN  /\ IsField(i, TRUE)
      /\ IF PoolMisleads(Top.as, i) THEN Ends("misled")
         ELSE IF c = Missing THEN Ends("missing")
         ELSE IF c = 0 THEN Ends("nofield")
         ELSE IF sfields[c][f] = Unset THEN Ends("misled")
         ELSE /\ got' = sfields[c][f]
              /\ want' = statics[<<Home(Written(i).class, TRUE, f), f>>]
              /\ UNCHANGED <<given, sfields, made, objects, frames, status, statics, initialised>>

PutStatic(i, v) ==
  LET c == StaticHome(i)
      f == Written(i).name
  IN  /\ IsField(i, TRUE)
      /\ Operand(v, FieldType(i, TRUE))
      /\ IF PoolMisleads(Top.as, i) THEN Ends("misled")
         ELSE IF c = Missing THEN Ends("missing")
         ELSE IF c = 0 THEN Ends("nofield")
         ELSE /\ sfields' = [sfields EXCEPT ![c][f] = v]
              /\ statics' = [statics EXCEPT ![<<Home(Written(i).class, TRUE, f), f>>] = v]
              /\ UNCHANGED <<given, made, objects, frames, status, initialised, got, want>>

-----------------------------------------------------------------------------
(* Wrong on purpose: the class that is named is taken for a virtual call. *)
RunAsNamed(how, o, c) == c

(* The class the method is run as. *)
RunAs(how, o, c) == IF how = "virtual" THEN objects[o].class ELSE c

(***************************************************************************)
(* The named class and its supers tell whether the method is native; an    *)
(* override in the class of the object is not asked.                       *)
(***************************************************************************)
IsNative(c, meth) == Method(FindMethod(c, meth), meth) = "native"

(* The method the language would run. *)
Should(how, o, i) ==
  Selected(IF how = "virtual" THEN Name(objects[o].class) ELSE Written(i).class, Written(i).name)

(* nhand of the class main loaded first. *)
CallNative(how, o, i, c) ==
  /\ IsNative(c, Written(i).name) /\ c = 1
  /\ IF Should(how, o, i) # Name(c) THEN Ends("misled") ELSE UNCHANGED vars

(* Nothing writes flags and nhand of the other classes: they are what was   *)
(* in the memory.                                                          *)
CallJunk(c, meth) ==
  /\ IsNative(c, meth) /\ c # 1
  /\ Ends("wild")

CallJava(how, o, i, c) ==
  LET meth == Written(i).name
  IN  /\ IsNative(c, meth) => c # 1
      /\ IF ~HasCode(RunAs(how, o, c), meth) THEN Ends("nocode")
         ELSE /\ Len(frames) < MaxDepth
              /\ frames' = Append(frames, Frame(RunAs(how, o, c), meth, Should(how, o, i)))
              /\ UNCHANGED <<given, sfields, made, objects, status, statics, initialised, got, want>>

(* The number of the constant, the class, the method and the receiver are   *)
(* looked at in this order.                                                *)
Invoke(how, o, i) ==
  LET n == Written(i).class
      c == FindClass(n)
      meth == Written(i).name
  IN  /\ Opcode(i, "method")
      /\ IF Written(i).static THEN how = "static" /\ o = 0 ELSE how # "static" /\ Operand(o, n)
      /\ how = "special" => n \in Above(Name(Top.in))
      /\ IF PoolMisleads(Top.as, i) THEN Ends("misled")
         ELSE IF c = 0 \/ FindMethod(c, meth) = Missing THEN Ends("missing")
         ELSE IF FindMethod(c, meth) = 0 THEN Ends("nomethod")
         ELSE IF how # "static" /\ o = 0 THEN Ends("null")
         ELSE CallNative(how, o, i, c) \/ CallJunk(c, meth) \/ CallJava(how, o, i, c)

Return ==
  /\ status = "running"
  /\ frames' = Front(frames)
  /\ status' = IF Len(frames) = 1 THEN "returned" ELSE status
  /\ UNCHANGED <<given, sfields, made, objects, statics, initialised, got, want>>

-----------------------------------------------------------------------------
Constants == UNION {DOMAIN given[j].pool : j \in DOMAIN given}

Next ==
  \/ Load
  \/ \E c \in Ids : MakeStatics(c)
  \/ NoEntry
  \/ Start
  \/ \E i \in Constants :
       \/ New(i) \/ GetStatic(i)
       \/ \E v \in 0..MaxObjects : PutStatic(i, v)
       \/ \E o \in 0..MaxObjects :
            \/ CheckCast(o, i) \/ GetField(o, i)
            \/ \E v \in 0..MaxObjects : PutField(o, i, v)
            \/ \E how \in {"virtual", "special", "static"} : Invoke(how, o, i)
  \/ Return
  \/ status \notin {"loading", "running"} /\ UNCHANGED vars

Spec == Init /\ [][Next]_vars

-----------------------------------------------------------------------------
(***************************************************************************)
(* An object has a slot for each field that its class and the supers of it *)
(* declare (jvm_CountObjectFields and jvm_MakeObjectFields agree), static  *)
(* fields have been made for every class before the program runs, and      *)
(* every method under way is one of the classes.                           *)
(***************************************************************************)
TypeOK ==
  /\ Len(sfields) <= Len(given) /\ made \subseteq Ids
  /\ \A o \in DOMAIN objects :
       /\ objects[o].class \in Ids
       /\ {x.from : x \in ToSet(objects[o].fields)} =
            {n \in Above(Name(objects[o].class)) : File(n).fields # <<>>}
       /\ Len(objects[o].fields) = Cardinality(DOMAIN objects[o].java)
  /\ status = "running" => made = Ids /\ frames # <<>>
  /\ Len(frames) <= MaxDepth
  /\ \A d \in DOMAIN frames : frames[d].as \in Ids /\ frames[d].in \in Ids
  /\ status \in {"loading", "running", "returned", "noentry", "missing", "nomain", "misled",
                 "crashed", "exit4", "exit9", "nofield", "nomethod", "null", "wild", "nocode"}

(***************************************************************************)
(* A method that runs is the one the language selects: the nearest above   *)
(* the class of the object, or above the class that is named (exec.c:1524  *)
(* to 1532), whatever other classes were loaded, in which order and how    *)
(* often.                                                                  *)
(***************************************************************************)
RightMethod == \A d \in DOMAIN frames : Name(frames[d].in) = frames[d].should

(***************************************************************************)
(* What getfield and getstatic read is what was last written to the field  *)
(* the language means (rjvm.c:669, 695, exec.c:1203), through any class    *)
(* that names it; and a cast or a putfield is refused (exec.c:402, 1298)   *)
(* only where it has to be.                                                *)
(***************************************************************************)
ReadsRight == got = want

(***************************************************************************)
(* The process ends for want of a class only if a class that is referred   *)
(* to was not given; a method is not found only if neither the class that  *)
(* is named nor a super of it has it, where at most an interface does      *)
(* (rjvm.c:336); a static field is not found only in a class without a     *)
(* super (exec.c:1203); a handler that was never set is called             *)
(* (exec.c:1517) only where a native method is reached through another     *)
(* class than the Core that main loads.                                    *)
(***************************************************************************)
Referred ==
  ({given[j].super : j \in DOMAIN given}
   \cup {f.type : f \in UNION {ToSet(given[j].fields) : j \in DOMAIN given}}
   \cup {k.class : k \in UNION {ToSet(given[j].pool) : j \in DOMAIN given}}
   \cup {Entry}) \ NoNames

EndsWithReason ==
  /\ status = "missing" => ~(Referred \subseteq Names)
  /\ status = "nomethod" =>
       \E i \in DOMAIN given[Top.in].pool :
         Written(i).kind = "method" /\ Selected(Written(i).class, Written(i).name) = None
  /\ status = "nofield" =>
       \E n \in Names : File(n).super = None /\ \E f \in ToSet(File(n).fields) : f.static
  /\ status = "wild" =>
       \E j \in 2..Len(given) : \E n \in Above(given[j].name) : "native" \in Range(File(n).methods)

(***************************************************************************)
(* rhino.c:189 "make static fields for all classes in bundle, also this    *)
(* calls the special <clinit>:()V method": when main runs, the <clinit> of *)
(* every class with static fields was executed.                            *)
(***************************************************************************)
Initialised ==
  status = "running" =>
    \A n \in Names :
      Clinit \in DOMAIN File(n).methods /\ (\E f \in ToSet(File(n).fields) : f.static)
        => n \in initialised
=============================================================================
