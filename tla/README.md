# Rhino: a verification development

Rhino is a small Java virtual machine in C: an interpreter of class files
(`src/src/exec.c`), the functions it rests on (`src/src/rjvm.c`,
`src/src/stack.c`), a class loader over a memory stream (`src/src/rjvm.c`,
`src/src/ms.c`), a garbage collector, an allocator of its own
(`src/src/rmalloc.c`) and a command line head (`src/srchead/rhino.c`).  This
directory holds TLA+ models of its parts, the TLC configurations that check them,
and proofs for TLAPS.  Paths below are relative to the repository; `exec.c:1475`
is line 1475 of that file.

To check: `tlc -config <run>.cfg <module>.tla` with the module the table of runs
names, and `tlapm <module>.tla` for the modules whose names end in `Proofs`.

## 1. Inventory

| Component | State it keeps | Operations | What makes it correct |
|---|---|---|---|
| Object heap (`rjvm.c`, `rjvm.h`, the array makers of `exec.c`) | `JVM.objects`, the chain; per object `type`, fields or elements, `stackCnt`, `cmark` with the mark in its low half and the hold bit in the high one | `jvm_CreateObject`, `jvm_CreateObjectArray`, `jvm_CreatePrimArray`, `jvm_PutField`, `jvm_GetField` | what is reachable exists |
| Collector (`jvm_Collect`) | `JVM.cmark`, the lists `ra` and `rb` | one call: mark in passes, then sweep | frees exactly what nothing reaches; gives its lists back; returns |
| Interpreter (`jvm_ExecuteObjectMethod`) | per invocation an operand stack and locals, on the C stack | about 150 opcodes; calls recurse | `stackCnt` of an object is the number of operands and locals that refer to it |
| Operand stack (`stack.c`) | data, flags, position | push, pop, peek, each push and pop counts | as above; the slot holds the value |
| Integer opcodes | slots of 64 bits | arithmetic, shifts, conversions, array indices | the value of the instruction set |
| Control flow | `x`, the byte to decode | branches, switches, calls, returns, error block | the instruction the instruction set says |
| Monitors (`jvm_MutexAquire`) | a word per object | `monitorenter`, `monitorexit` | mutual exclusion; a thread does not wait for itself |
| Native handler (`rhino.c:10`) | none | `Collect`, `LoadResource`, `Exit`, `Print`, `EnumClasses` | what it makes is counted or held until it is stored |
| Class loader (`jvm_LoadClass`, `ms.c`) | position in the file, the `JVMClass` | constants, fields, methods, code, attributes | what is loaded is what was written |
| Class and method lookup | `JVMBundle` | `jvm_FindClassInBundle`, `jvm_FindMethodInClass`, `jvm_IsInstanceOf`, the pool entry of an opcode | the class, method and field the language means |
| Static fields, class initialisation | `JVMClass.sfields` | `jvm_MakeStaticFields`, `getstatic`, `putstatic` | initialised once, before use; kept alive |
| Allocator (`rmalloc.c`) | chunks, part headers, signatures | `jvm_m_give`, `jvm_m_malloc`, `jvm_m_free` | blocks are disjoint, nothing is lost, no false corruption alarm |
| Allocator test proxy (`malloctestproxy.c`) | none | ask, write, free, over a pipe | its assertions: blocks lie in the memory given and are disjoint |
| `main` (`rhino.c:127`) | none | load, statics, make the entry object, execute, collect | what is left at the end is what is held |
| Standard library shims (`std.c`) | none | `jvm__malloc`, file reading, wrappers | - |
| Java runtime, samples, scripts | - | - | programs the machine runs; developer tools |

How they interact: everything is a call in one thread.  `main` loads the classes
into the bundle and calls the interpreter, which recurses for each Java call and
calls the native handler for a native one; the handler may call `jvm_Collect`,
which therefore runs while any number of frames are suspended in the middle of an
`invoke`.  Interpreter and collector share the chain of objects and agree through
two things only: the stack count and the hold bit.  Opcodes reach the loader's
work by constant pool numbers and the bundle by names.  All of them get memory
from the allocator.  The mutex of the chain is never contended, and
`sys/CoreThread` is a stub, so **there is no interleaving of threads to explore**:
what is hard is the *order* of calls - a mistake in a count, a mark, a part header
or a length made by one call is seen by another one much later -, and numbers
that are right for the small values a test tries.  Nothing is persisted, sent or
retried; the failures the code can meet are memory that runs out, files that are
cut short and classes that are not there.

The hard behaviours, line by line, are the `hazards` of `PROJECT.json`, each with
the properties that would catch it.

## 2. Modules

| Module | Models | EXTENDS |
|---|---|---|
| `ObjectHeap` | headers and fields of objects, creation, counting | |
| `Collector` | `jvm_Collect` and what is promised of it | `ObjectHeap` |
| `AbstractHeap` | abstract specification: only what is unreachable is reclaimed | |
| `ManagedHeap` | the collector under *any* program; refinement of `AbstractHeap` | `Collector` |
| `CollectorProofs` | lemmas about the steps of `jvm_Collect`, for any program around it | `Collector` |
| `ManagedHeapProofs` | theorems about `ManagedHeap` | `ManagedHeap`, `CollectorProofs` |
| `ListCollector` | the collector with the lists and the memory it really takes; refinement of `ManagedHeap` | `ObjectHeap` |
| `ListCollectorProofs` | theorems about `ListCollector` | `ListCollector` |
| `Interpreter` | frames, operand stacks, locals, opcodes, calls, native methods | `ObjectHeap` |
| `RhinoVM` | interpreter + collector + `main` over one heap | `Interpreter`, `Collector` |
| `RhinoVMProofs` | theorems about `Interpreter` and about `RhinoVM` | `RhinoVM`, `CollectorProofs` |
| `JavaControl` | abstract specification: which instruction follows which | |
| `CodeFlow` | the byte index of the interpreter loop, monitors, errors; refinement of `JavaControl` | |
| `IntSlots` | the opcodes on int values, in slots of 64 bits | |
| `OpcodeProofs` | theorems about `CodeFlow` and about `IntSlots` | `CodeFlow`, `IntSlots` |
| `ClassLoader` | `jvm_LoadClass` over the bytes of a file | |
| `ClassLoaderProofs` | theorems about `ClassLoader` | `ClassLoader` |
| `ClassBundle` | `main`, the bundle, lookups by name and by constant, static fields | |
| `ClassBundleProofs` | theorems about `ClassBundle` | `ClassBundle` |
| `AbstractAllocator` | abstract specification: blocks in use share no byte | |
| `RMalloc` | the internal allocator; refinement of `AbstractAllocator` | |
| `RMallocProofs` | theorems about `RMalloc` | `RMalloc` |
| `MC...` | constant values and symmetry for TLC | each its module |

A definition whose comment begins with "Wrong on purpose" is a changed form of
the one that follows it; `PROJECT.json` says which property it violates.

### The heap and the collector

An object is an address, a member of `Obj`; `chain` is the set of allocated
objects.  `fields` gives the value of each slot: an address, `Null`, `Num` (other
data) or `Wild` (an array element that was never written and reads as some other
word).  The flags that accompany every value in the code are reduced to what the
collector and the counting tell apart, whether the value counts as a reference.
`cmark` is the mark and `hold` the bit `JVM_OBJECT_CMARK_FLAG_NOCOLLECT` of one
byte.  `Junk` and `Unwritten` say what the uninitialised mark byte and the
uninitialised elements of an object array may read as; all elements of a fresh
array read alike.  `jvm_free` leaves the header as it was, and so does the model.

`StartCollect` is `rjvm.c:833-853`; `ScanEntry`, `SkipEntry` and
`CrashOnElement` are one iteration of the loop at 857; `NextPass` is 907-914; and
`Sweep` is 917-942.  The tests at 859, 879 and 893 are `LooksDone` and
`FieldLooksDone`, with the precedence C gives them: 859 and 893 are
`cmark & (0xf == cmark)`, which is 0 unless the mark is 15.  The lists are sets,
and the entries of a pass are visited in any order.  `marked`, `roots` and
`collects` are history variables.

`ManagedHeap` puts the least restrictive program around the collector: whatever
is counted can be pushed, popped, stored and fetched.

`ListCollector` takes the two abstractions back: `la` and `lb` are chains of
`JVMCollect` nodes, put in front, with a node for every time an object was met,
visited in their order; and headers, fields, elements and nodes are blocks of an
allocator that has `Memory` of them.  Where the code tests for memory the model
ends with the error (`CreationRefused`); where it does not, it says what happens
and stops: a write through 0 for the fields of an object (`FieldsThroughNull`),
for the first node (`StartThroughNull`) and for a node on the way
(`NodeThroughNull`), and `newarray` pushing the previous `_jobject`
(`ArrayIsStale`).  That nothing else can be seen of lists with repetitions is the
refinement `ImplementsHeap`: an entry visited twice, in the code, does the second
time what the sets do once.  The refinement mapping is an instance of
`ManagedHeapProofs`, with the nodes not yet looked at for the set `ra` - without
those whose object was looked at in this pass - and the objects of `lb` for `rb`.

### The interpreter

`frames` is the sequence of executions of `jvm_ExecuteObjectMethod`, each with
the items of its operand stack and locals.  An action is an opcode, or a group of
opcodes that do the same to references (the comment of the action names them), as
a whole: pops, the store, pushes, and every change of a count they make.  The
program counter is left out and the next opcode is any one whose operands are on
the stack: the model runs every program a compiler could produce, and more.
`Ops` selects groups of opcodes, to keep instances small.  `Crash` is the
alternative that the process dies on a null or wild pointer, `Fail` that it exits
on an error (`exec.c:1611`).  `Invoke` and `Return` follow `exec.c:1401-1562`,
187-224 and 1564-1595: arguments are popped (uncounted), bound (counted), and a
return pops the result, scrubs stack and locals, and the caller pushes the result.
The counter of two bytes wraps at `MaxCnt`; `jvm_ScrubLocals` sees `max_locals`
modulo `MaxScrub + 1`.

`RhinoVM` joins it with the collector as `main` does.  `NativeCollect` is an
invoke of a native `Collect`.  The handler implements it, but `ert/sys/Core.java`
does not declare it; `CoreCollects` says whether the class `Core` in use does.
When it is FALSE, `FinalCollect` (`rhino.c:258`) is the only collection.

### Control flow

`CodeFlow` has the part `Interpreter` leaves out.  A method is a sequence of
instructions, laid out in bytes as a class file has them (`PositionsOf`, with the
padding of switches), and `calls` holds `x` of each execution under way.  An
action is what an opcode does to `x`, with the arithmetic of the code: sixteen
bits with and without sign, `nothl` of an `int32` that shifts its sign in, the
"fix for odd case", the alignment of switch tables by address.  `body` stands for
bytes that are decoded one after the other.  `JavaControl` is the promise, on
instruction indices and without bytes.  `strayed` becomes true when an instruction
is executed that the module lists as wrong (`nop`; a backward `ifeq`;
`WrongTable`, `WrongLookup`; a `monitorexit` of a free monitor); the refinement is
about all the others, and that list is therefore complete for the instances
checked and, by the proof, for every method.  `WellFormed` is what a method may be:
targets are instructions, the distance of a branch fits its 16 bits, the keys of a
`lookupswitch` differ, the code does not run off its end; `MethodAssumption` asks
it of `Methods`, and TLC evaluates it on the ones it runs.  A monitor is a word without an owner: entering it twice is `Spinning`.

### Numbers

`IntSlots` has places of `LongBits` bits and one action per group of int opcodes.
Beside the bits of a place goes `java`, the value the instruction set gives, `raw`
(what is above the low word may not be its sign) and `off` (the value is wrong).
Each action says when it sets the marks - `ineg`, `iushr`, `i2c`, `i2b`, shifts by
too much - and `Exact` is that nothing else makes a value wrong.  Array elements
and the two different comparisons of an index with the length (`exec.c:877`, 953)
are in it as well.  A slot is a number; for `iand`, `ior` and `ixor` it is taken as
the set of its bits that are set (`Ones`, `WithOnes`), so that these are intersection,
union and symmetric difference, which TLC computes from a table and a proof can use.
Variables and actions of both modules on opcodes are together in `OpcodeProofs`,
whence `IntInit`, `IntNext` and `IntSpec`.

### Classes

`ClassLoader` writes a class down as the bytes of the class file format
(`FileBytes`) and reads them back with one action per part of the file, as
`jvm_LoadClass` does.  A file may be cut short, and any `jvm_malloc` may fail: the
behaviour ends as "outside" when a read goes beyond the file, "crashed" when the
code writes through 0, and "wild" where the number of a name leads to a constant
that is no string.  `Bases` are the addresses of blocks modulo 4.  `WellFormed` is
what a compiler writes: a constant has the arguments its tag asks for, methods and
their attributes have names in the pool, and at most one attribute of a method is
called Code, which is the one that holds code.  Tags the loader does not know are
allowed, for it has a case for them (`rjvm.c:119`).  `FileAssumption` asks
`WellFormed` of `Files`, and TLC evaluates it on the ones it runs.

`ClassBundle` begins where files are loaded: `main` adds the classes of the
command line to the bundle (`Load`), makes the static fields of each
(`MakeStatics`, `rjvm.c:536-623`), and gives up when no argument named an entry class
(`NoEntry`, `rhino.c:196`); else it makes the entry object and runs `main`.  Then
any opcode of the running method with a constant of its pool may be next.  Each
lookup is the code's; `want`, `statics`, `should` and `java` are the language's
answers, kept as history.  `Up` is the language's view of a hierarchy, the least set that
is closed under supers; `Walk` is the code's, one class after the other.
`WellFormed` is what a compiler leaves behind (one super but for the root,
interfaces without fields of objects, no class above itself, a class given twice is
the same class); `ClassAssumption` asks it of the command lines, and TLC evaluates
it on the ones it runs.  That a method of an abstract class may stand in an
interface alone is allowed, and is where `jvm_FindMethodInClass` finds none
(`rjvm.c:336`; the reason "nomethod").  The model ends as "misled" exactly where the code is
seen to look up the wrong thing (a constant in the pool of another class, a hidden
field, an interface, a field never initialised); the properties are about all the
rest.

### The allocator

`fas[c]` is a function from the offsets of part headers in chunk `c` to their
contents, `sigs[c]` the offsets of intact signatures.  A header or a signature is
lost from the model when other bytes are written over it (`HeadersOutside`,
`SigsOutside`); the walk goes by the sizes it reads alone and ends in `pc =
"wild"` when it reads a header where none is.  One action is one round of a loop
of `jvm_m_malloc`: `Check` of the corruption checker (82-96), `ScanUsed` and
`ScanFree` of the search (104-123), `Split` and `Whole` of the two ways to use a
run (123-160).  `INTERNALMALLOC_BUFCHK` is on, as in `conf.h`.  Callers are those
of `malloctestproxy.c`: they ask, write the bytes they asked for, and free.

## 3. Runs

Passing runs:

| Run | Module | What it shows |
|---|---|---|
| `heap_safety` | `MCManagedHeap` | Three addresses, objects, held objects, arrays and arrays in arrays, three collections that use every non-zero mark of two bits, so that the odd test at the largest mark is used: nothing counted or stored dangles (`NoDangling`), the passes forget nothing (`MarkClosed`), the sweep keeps exactly what was reachable (`SweepExact`), and the heap implements `AbstractHeap` (`ImplementsAbstract`). |
| `lists_memory` | `MCListCollector` | Seven blocks of memory that run out in the midst of creations and collections, marks that come round to 0, a static field: the lists implement the sets (`ImplementsHeap`), every node is given back and only blocks of fields and elements leak (`OnlyFieldsLeak`), and a collection ends (`CollectReturns`). |
| `frames_kinds` | `MCInterpreter` | `CountExact` for calls two deep, every opcode that touches a reference, those on locals included, on every kind of object, and every native method: what they make and hand back is counted once, by the push of the invoke, and the binding of arguments and the return keep what the caller counted. |
| `vm_calls` | `MCRhinoVM` | Two nested calls that collect at any point: counts stay exact across calls and returns (`CountExact`), no frame refers to a freed object (`FramesLive`), a collection starts from exactly what the frames and holds refer to (`StartsFromFrames`), and after the last one only what was held remains (`OnlyHeldRemains`). |
| `code_flow` | `MCCodeFlow` | Every method of three instructions and a return: but for the listed instructions `x` goes where the instruction set says (`ImplementsJava`), the loop is not left at its end (`LoopNeverLeft`), and a method without backward branches ends (`ForwardEnds`). |
| `int_slots` | `MCIntSlots` | All sequences of int opcodes over two places: a value is wrong only where a listed opcode makes it so (`Exact`), and an element is used only when the instruction set allows its index, or the code is seen to misjudge it (`IndexJudged`). |
| `class_load` | `MCClassLoader` | Files with every kind of constant, up to two fields and two methods, whole and cut short: what is loaded is what was written (`RoundTrip`), and what is refused has a reason (`RefusedWithReason`). |
| `class_use` | `MCClassBundle` | Fifteen command lines in different orders, with a class left out or given twice, or a method that only an interface has: the method that runs is the one the language selects (`RightMethod`), what is read is what was written to the field meant (`ReadsRight`), and the process ends for want of a class, field or method only if there is none (`EndsWithReason`). |
| `malloc_blocks` | `MCRMalloc` | Blocks are asked for, written and freed in every order, over two chunks: no false alarm (`NoFalseAlarm`), parts tile the chunk (`Tiled`), used parts are the blocks in use (`UsedIsLive`), blocks share no byte (`ImplementsAllocator`), a request is refused only when no run the scan can see is large enough and none at all is larger than the request by a chunk header (`RefusedOnlyWhenFull`), and every request is answered (`MallocReturns`). |

Runs that end in a violation; each compares a comment of the code with what the
code does and belongs to a finding:

| Run | Property | What it shows |
|---|---|---|
| `heap_wrap` | `FreedUnreferenced` | The sixteenth collection has mark 0, the mark of a new object, which then passes for visited: its children are freed. |
| `flow_caught` | `Caught` | `exit(-3)` at `exec.c:1611` comes before the search of the exception table: no exception is ever caught. |
| `boot_clinit` | `Initialised` | The test of `rjvm.c:589` is the wrong way round: no `<clinit>` is ever executed. |

More of the same can be seen by changing one constant, or by asking for a property
that a module states and no run claims:

- `Static = {x1}` in `heap_wrap.cfg` (with `MaxCollects = 1`, and `x1 = x1`): an
  object that only a static field refers to is freed (`FreedUnreferenced`).
- `Uses = {"object", "held"}` there, with `PROPERTIES HoldKept`: marking stores
  over the hold bit (`rjvm.c:904`).
- `Uses = {"oarray", "nested"}` there, with `PROPERTIES NotDoneTwice`: the test of
  `rjvm.c:859` leaves nothing out, and an array that leads back to itself is
  visited in pass after pass.
- `Junk = {0, 1}` in `heap_safety.cfg`: the mark byte of a new object array,
  never written (`exec.c:24`), passes for visited, and what only its elements
  refer to is freed (`SweepExact`).
- `"leftover"` added to `Ops` in `vm_calls.cfg`: a return with an operand left on
  the stack takes it off its count twice (`rjvm.c:427`, `CountExact`).
- `MaxCnt = 3` in `frames_kinds.cfg`: the count wraps (`CountExact`), which the
  code does at 65536 (`stack.c:45`).  In `vm_calls.cfg`, with `MaxDepth = 1`,
  `MaxStack = 4` and `Ops = {"object", "dup", "native"}` as well, the object is
  freed under the operands that refer to it (`FramesLive`).
- `MaxScrub = 1`, `MaxLocals = 2`, `Ops = {"local", "call"}` in `vm_calls.cfg`:
  `jvm_ScrubLocals` takes the number of locals as eight bits (`rjvm.c:410`) and
  leaves counts behind (`CountExact`).
- `PROPERTIES ServedToTheEnd` in `malloc_blocks.cfg`: the walk ends 24 bytes before
  the chunk does, and what fitted in a fresh chunk is refused after everything was
  freed.

The causes of these are left out of the passing runs, and the hazards they belong to
name no property of a passing run for them: what a passing run shows, it shows of
code that does not meet them.  `FreshMarks`, `CountsFit` and `VMFits` of section 4
say exactly what that is.

One crash is explored by the passing runs and denied by no property: the collector
stops with `phase = "crash"` on an array element that is null or was never written
(`rjvm.c:893`).

### Bounds

- `Obj`, `Slot`: three objects with one slot give chains, cycles, arrays in
  arrays, an address that is freed and used again, and garbage that refers to
  what lives; two objects with two slots, in `lists_memory`, give entries that are
  on a list twice.  `frames_kinds` needs four, for the entry object and the three
  that `EnumClasses` makes for one class.  That sharing and larger graphs change
  nothing is what the proofs show.
- `MarkMask` is 15 in the code and in `heap_wrap`.  3 in `heap_safety` keeps the
  parity on which the test of the largest mark depends; 1 in `lists_memory` makes
  the marks come round to 0 at the second collection.
- `Memory` = 7: two objects with their fields are four blocks, and three more are
  fewer than the nodes a collection of them can ask for.
- `MaxCollects`, `MaxDepth`, `MaxStack`, `MaxLocals`: two frames are one call, its
  return and the caller's view of both; three operands are what `aastore` and
  `dup_x1` need.  `MaxCnt` is out of reach of the places there are.
- `MaxSize`, `MaxCallSize`: the objects and operands of a state of `frames_kinds`
  that TLC goes on from are at most five together, and four once a method was
  called or a local assigned.  Five are two objects and the three operands of an
  `aastore`, or one object that EnumClasses may add three to; four are two objects,
  one as the argument of a call and one that waits under it.
- `CodeFlow`: three instructions and a return are a branch over an instruction, a
  loop, a switch with bytes before and after it.  Bodies of 118 and 240 bytes put
  offsets on both sides of 128 and 256 in both directions; the keys and operands
  lie at the same boundaries; 31 and more pairs are where `lookupswitch` gives up.
  The address of the code is 1 modulo 4, which an alignment by the wrong base
  would notice.  `flow_caught` has two instructions.
- `IntSlots`: 2, 3, 4 and 8 bits for 8, 16, 32 and 64 (the proof is for all widths, so
  for these too) keep the order of the widths and every relation the opcodes use (a byte does not fill a short, a word fills
  half a slot).  A length of 9 does not fit the bits kept for it, 2 does; at these
  widths it is no int either, so that only the loads and stores use it.
- `ClassLoader`: long and double constants, which take two numbers, before and
  behind the constants that are used; sizes of two bytes with both bytes in use;
  up to 70 bytes cut off reach from the last attribute into the pool of most
  files; bases 0, 1 and 3.
- `ClassBundle`: at most five classes, two objects, two calls: a receiver and
  another one, a class and its super, interface, native class and a namesake.
- `malloc_blocks`: chunks of 78 and 66 bytes with the real header sizes 24 and 4
  and signatures of 4, because the differences between them are what the code may
  get wrong; requests of 1, 13 and 40 bytes give up to six parts in a chunk, so that
  runs of free parts lie between used ones.
- Symmetry of addresses, slots and places is used where no liveness is checked.

### Fairness

There is one thread.  `lists_memory` assumes weak fairness of the steps of a
collection that has begun and of nothing else: `jvm_Collect` gives way to nobody.
`malloc_blocks` assumes it of the steps of a `jvm_m_malloc` that was called, and
`code_flow` of the loop of the interpreter, which is not stopped from outside.  No
caller is assumed to call anything, and no program to go on or to end: a backward
branch may be taken for ever, so `ForwardEnds` is about methods that have none.
`lists_memory` has no arrays in arrays, with which a collection need not return:
the test of `rjvm.c:859` never leaves an entry out.

## 4. Proofs

### The collector

`ManagedHeapProofs` proves, for any set of objects and slots, any width of marks
and counts and any number of collections:

- `TypeCorrect`: `Spec => []TypeOK`, without an assumption but those on
  constants (`ValueAssumption`, `MarkAssumption`, `CntAssumption`,
  `CollectAssumption`, `UsesAssumption`);
- `CollectSafe`: `NoDangling` and `MarkClosed` always hold, and
  `MarkClosedAlways` the latter alone;
- `CollectExact`: `SweepExact`;
- `HeapImplementsAbstract`: `ImplementsAbstract`.

All but the first assume `FreshMarks`: no mark is used twice, the memory of a
fresh header holds no mark and no address, and no static field refers to an
object.  Without each of its conjuncts the property is false of the code:
`heap_wrap` (marks), and the variations above with `Junk` and `Static`.

The inductive invariant is `MarkingInv`.  `NoDangling` alone is not inductive,
because whether a sweep is safe depends on whether the marking was complete.
`MarkClosed` says that; it is preserved because a test leaves an entry out only
when the entry is marked by *this* collection, which is what `CurrentMarks` says
(the current mark is on the visited objects and on no other), and this in turn
holds because between collections every mark is 0 or the last one (`IdleMarks`).
`ListsSound` puts every root on a list.  At the sweep the lists are empty, so
`marked` contains the roots and is closed: nothing that stays refers to what
goes.  For exactness `ListsReachable` adds the other direction: whatever is
marked or on a list lies in every closed set that contains the roots.  The
refinement maps `chain`, the references of its objects and the counted ones to
`objs`, `refs` and `hand`; a step of the marking maps to a stutter and the sweep
to `Reclaim`.

`NothingLost` says with the words of the abstract specification what that is good
for: references in hand and stored references lead to objects that exist
(`AbsSafe`).  Each step of `AbstractHeap` keeps that (`AbstractStep`), and the
refinement brings it to `ManagedHeap`.

### The interpreter

The first part of `RhinoVMProofs` proves, for any number of objects, static fields,
frames, operands and locals:

- `InterpTypeCorrect`: `InterpSpec => []InterpTypeOK`, from the assumptions on
  constants alone;
- `CountCorrect`: `InterpSpec => []CountExact`, from `CountsFit`: compilers leave
  nothing on the stack at a return, `jvm_ScrubLocals` can be told all the locals,
  an element of an array that was never written reads as no address, and there
  are no more places in the frames than the counter can count.  Without the first,
  second or fourth the property is false of the code (the variations above with
  `"leftover"`, `MaxScrub` and `MaxCnt`); the third is what `exec.c:33` does not
  see to, and stands for memory that `jvm_malloc` found clean.

`TypeInv` adds to the types that the fields of an object (not of an array) never
hold a word that is no value, because `getfield` pushes them unseen.  `CountInv` is
the inductive strengthening of `CountExact`: an opcode may push what it finds in a
field, an element or a static field, so these must lead to objects of the chain
too, or a count would begin for an object that is not there.  The rest of the
argument is about numbers of places.  `AppendCount` says that one more operand is
one more place of what it refers to; `PopExact` and `PushExact` turn this into steps
of the counter that neither wrap nor go below zero; every opcode that moves
operands is a chain of these.  `LocalCount` says that a store to a local takes a
place from one object and gives it to another; `CallCount` that the locals of the
callee are as many places as the arguments that left the caller's stack (a
bijection of the two sets of places), which is why `Invoke` may leave the counts
as they are; `ReturnCount` that the places of a frame with an empty stack are its
locals, which `jvm_ScrubLocals` takes off.

### The allocator

`RMallocProofs` proves every safety property of `malloc_blocks` for any list of
chunks, any sizes of requests and of headers, from `AllocAssumption` alone:
`AllocTypeOK`, `NoFalseAlarmAlways`, `TiledAlways`, `UsedIsLiveAlways`,
`RefusedOnlyWhenFullAlways` and the refinement `AllocatorImplements`.

The inductive invariant is `AllocInv`.  That the walk reads headers only
(`NoFalseAlarm`) follows from the parts tiling the chunk (`PartsTile`), which in
turn must survive what the callers write: so every block lies within its part with
room for the signature behind it (`BlocksInParts`, `PartsSigned`), and a write to a
block destroys neither a header nor a signature (`SigsInChunk` keeps the latter
apart).  `CursorSound` says what the local variables of `jvm_m_malloc` mean: `start`
and `rtotal` are the first header and the size of the run of free parts that ends
before `pt`; with it `Split` and `Whole` replace that run by parts of the same
total size.  Both are first shown to be instances of one relation, `Granted`,
about which the rest is proved once.  That a refusal is right needs two more facts:
no run in what was passed is large enough (`NothingPassed`), and the run that the
scan carries is maximal (`RunIsMaximal`), so that no run of the promise begins
inside it.  The walk does not see the parts that begin in the last bytes of a chunk,
as many as the chunk header has (`rmalloc.c:80`, 103).  What this can cost is
`LossIsSmall`: in a run that goes on there, the last part that begins before
(`LastBefore`, by the least number principle `Least`) ends there or behind, so that
the run it closes, which is refused, lacks less than a chunk header of the whole.

### Interpreter and collector together

The second part of `RhinoVMProofs` proves every property of `vm_calls`, for any number of objects,
frames, operands and collections.  `VMTypeCorrect` needs the assumptions on
constants alone; `VMCountExact`, `FramesAlwaysLive`, `CollectStartsRight` and
`OnlyHeldIsLeft` assume `VMFits`: `CountsFit` of the interpreter, with `FreshMarks`
of the collector but for `Unwritten`, of which `CountsFit` says enough.
`Static = {}` is there because a static field does not keep its object alive, as
the variation of `heap_wrap` with `Static = {x1}` shows.

Neither invariant survives alone: an opcode that fetches a reference from a field
relies on the collector not having freed it, and a collection relies on the counts
to know where to start.  `VMInv` joins `CountInv` and `MarkingInv` (with
`ListsReachable`); it adds that no element of a primitive array is a reference
(`PrimTame`), because `CountInv` speaks of every slot and `MarkingInv` only of
those the collector follows, and that no frame is left when `main` has returned.
The opcodes keep `MarkingInv` because each leaves the marks as they are or makes
an object without one (`MarksKept`).  The bridge is `CountedAreReferred`: under
`CountInv` the objects with a count are exactly the ones the frames refer to.  So what the sweep
keeps contains all that the frames refer to (`SweepCounts`), and exactness is kept
though objects with the count 0 go.  The steps of the collector are proved once,
in `CollectorProofs`, for `ManagedHeap` and for this.

### The lists and the memory of a collection

`ListCollectorProofs` proves the safety properties of `lists_memory` for any
memory, any program and objects of any size, marks that come round to 0 and static
fields included: `ListTypeCorrect`, `OnlyFieldsLeakAlways` and the refinement
`ListsImplementHeap`.  They rest on `ProgramAssumption`, in which `Slot` is finite
because the fields of an object are.

A second visit must be a stutter of the sets, and so must find nothing to do.
That is `ListInv`: an object looked at in this pass either passes the test of
`rjvm.c:859`, so that the next node for it is skipped, or it has the mark, no
hold, and what a look at it would add is on `lb` already (`SeenTo`).  The second
case is preserved because marks only come during a pass: what looks done stays so,
and `NewEntries` shrinks (`ScanMonotone`).  A change of the order, or of how often
an object is on a list, is a step of no set.  (TLC agrees with `ListInv` as an invariant of
`lists_memory`.)  The memory is one equation; `SetToSeqOrder` and `NodesOf` say that the nodes of a look are as many, and of the
objects, as the sets want.

The instance brings the theorems about `ManagedHeap` with it, so that those hold
of the lists too: under `FreshMarks`, `ListsDangleNever` and `ListsSweepExact`, and
`ListsImplementAbstract`, which puts two refinements together.

### Control flow

`OpcodeProofs` proves `FlowTypeCorrect`, `LoopLeftOnlyAstray` and
`FlowImplementsJava` for every set of methods that is `WellFormed`, of any length,
with any operands, tables and depth of calls.

The layout of a method is a recursive function over its instructions, and the
padding of a switch depends on all that is before it.  What every instruction of
every method satisfies would be an induction over data; here it is done without
an operator as a parameter, by the least counterexample: `Least` says that a set
of numbers that is not empty has a least member (from the well-foundedness of
finite subsets), and a first place at which `PositionsOf` is undefined
(`LayoutExists`), or not above its predecessors (`LayoutGrows`), cannot be.  Hence
instructions start at different bytes, and `At` is the inverse of `Pos` (`AtPos`).

`FlowInv` strengthens the types by `CallersWait`: while the loop runs, `x` of every
call is the start of an instruction, and of every call but the innermost the start
of an `invoke`, which is what a return goes on from.  For each opcode a lemma
(`IfeqGoes`, `TableGoes`, `LookupGoes`, ...) computes `x` with the arithmetic of the
code - casts, `nothl`, the "odd case", padding - and shows that it is the target the
manual gives or that the instruction is on the list of those it has wrong.  The
proof found a flaw of an earlier form of the model: the guards of two `CASE`
expressions overlapped, which TLC reads as the first one and the language does
not; they are nested conditionals now.

### Classes

`ClassBundleProofs` proves every property of `class_use`, for any number of classes
in any order, any hierarchy, any pool and any program, from `BundleAssumption` and
`ClassAssumption`: `TypesKept`, `RunsRightMethod`, `ReadsWhatWasWritten` and
`EndsForAReason`, all from `Keeps`, which is `Spec => []Inv`.

`Inv` has to say why what is found is what is meant.  `Loaded` says how far `main`
is: nothing runs before every class has its static fields.  `StaticsKept` relates
the static fields of every class to what the language has; a class given twice has
two sets of them, and the one that `jvm_FindClassInBundle` finds is the one that
counts.  `ObjectsRight` says that the fields of an object are, in whatever order,
those its class and the supers declare, each with the value written last; this
needs the supers to be in the bundle, which the creation has seen to (`Complete`).
`FramesRight` holds the class a method is written in beside the class it is run as,
and `Reasons` explains each way to end.  (TLC agrees with `Inv` as an invariant of
`class_use`.)

`Walk` and `AllFields` are recursive functions up a hierarchy, which no induction of
the library reaches.  Instead: the classes for which a claim fails are a set, and a
set of classes that is not empty has one whose super is not in it
(`WellFormed`, which is where "no class above itself" is used); its super satisfies
the claim, and so does it.  The last class of a name is the greatest member of a
set of numbers (`Greatest`).  `WalkFinds` is the heart: the walk ends at a class that has what is
looked for if and only if the least closed set of the language has one, at the
nearest one, and with `Missing` only when a super is not there.  The operators are
first written as functions of the class files alone (`WalkOf`, `AboveOf`, ...), so
that a step that does not load a class obviously leaves them as they are.

### The class loader

`ClassLoaderProofs` proves every property of `class_load` for every set of files that
is `WellFormed` - any number of constants, fields, methods, attributes, bytes of
code and rows of exception tables -, cut anywhere, with blocks at any address and
allocations that fail at any place: `TypesKept`, `LoadsWhatIsWritten` and
`RefusesForAReason`, all from `InPlace`, which is `Spec => []Inv`.  Numbers may even
be larger than the bytes they are written in; the upper "byte" is then more than
255 in the file and in the stream alike, which is more than the code can meet and
takes nothing from what it can.

`RoundTrip` speaks of the end alone.  `Inv` says for each part of the class how many
of its entries are behind (`PoolBehind`, `FieldsBehind`, `MethodsBehind`,
`AttributesBehind`), and that three things agree with this number: the position in
the file is where the next entry begins, the counters say how many are to come, and
what stands in the class is a copy of the entries behind.  For methods there are three
such numbers, one inside the other: methods, attributes of the last one, and
attributes of its code.  The parts that are complete are `SameList` already
(`FieldsRight`, `MethodsRight`).  `FileRead` says that what is there of the file is
a beginning of the bytes the compiler wrote.  (TLC agrees with `Inv` as an invariant,
on a selection of the files of `class_load`.)

The proof has two halves.  The first is about the format: where in the bytes of a
file each part lies (`FileIs`, `ItemIs`, `MemberIs`, `AttributeIs`, `CodeIs`), and
that the k-th entry of a list lies behind the bytes of those before it (`Reach`,
`ItemsThere`, `MembersThere`, `AttributesThere`).  It has no loader in it.  It rests on
`FlattenSeq`, a recursive function of the community modules, about which only
`FlatAppend` and `AtParts` are needed, and these are shown by the least
counterexample (`Least`), as for the layout of methods.  The second half has one
lemma for each action: with the bytes known to lie there, the reads of `ms.c` give
back what was written (`ReadTwo`, `ReadFour`, `ReadBytes`), the length the code adds
to the position is the length of the entry, and the invariant is true of one entry
more.  `StepKeeps` deals once with the ways to end: a read behind the last byte is
only possible when the file was cut, because all that an action reads lies in the
file as it was written.  Where a constant has two numbers (`rjvm.c:59`), `NumbersGrow`
says that the pool is full when the last constant is in it and not before; and
`FetchedIs` that the copy of the code at a multiple of four is what the interpreter
reads, for each address of a block.

### Numbers

The second half of `OpcodeProofs` is about `IntSlots`: `IntTypesKept`,
`NothingElseWrong` and `IndexesJudged`, for all widths in the order that
`WidthAssumption` asks for - 8, 16, 32 and 64 bits among them, where TLC has 2, 3,
4 and 8 - and for arrays of any length.  `Exact` is inductive together with the
types (`SlotInv`); what is hard is the arithmetic.

- Powers of two.  The provers know nothing of `2^n`.  `PowerNext` comes from the
  number of subsets of a set of `n` elements, `PowerSum` from it by the least
  counterexample.
- Casts.  `Cong(x, y, m)` is that x and y differ by a multiple of m.  `Signed(v, n)`
  is the only number of its range that is congruent to `v` (`SignedIs`,
  `SignedOnly`), and sums, products and shifts to the left keep congruence.  An opcode
  that casts keeps what is congruent modulo a word (`WordRight`), one that works on
  the whole slot what is congruent modulo a slot (`SlotRight`).
- Bits.  `OneNumber` and `SomeNumber` say that numbers below `2^n` and sets of bits
  below n are the same thing; `SignIs` that a slot is the sign extension of its
  word exactly when all bits above the word are like the highest of the word, which
  intersection, union and symmetric difference keep (`Joined`).
- `Right(s, v, israw)` is `Exact` for one place.  For each opcode a lemma
  (`Incremented`, `ShiftedLeft`, `ShiftedUnsigned`, `Quotients`, `ByteLoaded`, ...)
  says when its result is right, and `PutKeeps` that a right result in one place
  leaves the others right.

`IndexesJudged` then needs no more than that a slot between 0 and the length of an
array, which has 16 bits, is an int and therefore the value itself.

### Only model-checked

Everything about fairness - `CollectReturns`, `MallocReturns`, `ForwardEnds` -,
which TLAPS does not reason about here.  Every other property of a passing run is a
theorem, under the assumptions named with it above.

## 5. What is not modelled, and why

- Opcodes on long, float and double values, and operands and arguments of two
  words.  Interpreter and descriptors treat every value as one word here; a long
  argument is bound to one local by the code where the callee counts two
  (`exec.c:210`), which is a hazard without a property.
- Flags of values beyond counted or not.  `aaload` drops the array flag
  (`exec.c:1080`), so that real programs cannot use arrays of arrays; the model
  lets them.
- The parsing of descriptors and casts of array types: a type is a name.
- The dispatch of native methods by the sum of the characters of their name: the
  model of the handler starts where the switch has decided.
- The search of the exception table, `exec.c:1612-1733`: it is never executed
  (`flow_caught`); nor is the report of an uncaught exception in `main`.
- The pipe of `malloctestproxy.c`; debug output; wrappers of the C library.
- What a process does after it has written through 0, read beyond a file or jumped
  into the middle of an instruction: those behaviours end there.
- The Java runtime (a program the interpreter executes) and the scripts.

## 6. What could come next

1. The refinement of `AbstractHeap` by `RhinoVM`, where a call moves several
   counts at once.
2. Values of two words and the flags of values, with them the binding of long
   arguments and the conversions of floating point numbers.
