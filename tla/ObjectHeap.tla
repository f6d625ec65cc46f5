----------------------------- MODULE ObjectHeap -----------------------------
(***************************************************************************)
(* The object heap of the virtual machine: the chain of instanced objects  *)
(* that hangs off JVM.objects, and the header each JVMObject carries       *)
(* (src/inc/rjvm.h).  The interpreter and the collector both work on this  *)
(* state; this module holds it together with the few operations on it that *)
(* both of them need.                                                      *)
(*                                                                         *)
(* An object is a memory address, a member of Obj.  It is allocated while  *)
(* it is in chain; jvm_free leaves its header as it was, so the state of   *)
(* an object outside chain is what it held when it was freed, until the    *)
(* address is handed out again.                                            *)
(***************************************************************************)
EXTENDS Integers, FiniteSets

CONSTANTS
  Obj,      \* the addresses jvm_malloc can give to a JVMObject
  Slot,     \* the field names, or the indices of an array
  Null,     \* the reference value 0
  Num,      \* any non-zero value that is not a reference
  Wild,     \* a word that is neither 0, nor an address of Obj
  MarkMask, \* the largest mark: 0xf in the code, the low half of cmark
  Junk,     \* the marks that the memory of a fresh header may hold
  Unwritten, \* what the elements of an array read as before they are written
  MaxCnt    \* the largest value of a stackCnt: 0xffff in the code

ASSUME ValueAssumption ==
  /\ Null \notin Obj /\ Num \notin Obj /\ Wild \notin Obj
  /\ Null # Num /\ Null # Wild /\ Num # Wild
  /\ Unwritten \subseteq Obj \cup {Null, Wild}

ASSUME MarkAssumption ==
  /\ MarkMask \in Nat \ {0}
  /\ MarkMask % 2 = 1
  /\ Junk \subseteq 0..MarkMask

ASSUME CntAssumption == MaxCnt \in Nat \ {0}

VARIABLES
  chain,    \* JVM.objects: the objects linked through JVMObject.next
  otype,    \* JVMObject.type
  fields,   \* JVMObject.fields and _fields: the values, without the names
  stackCnt, \* JVMObject.stackCnt
  cmark,    \* JVMObject.cmark, the mark in its low four bits
  hold      \* JVMObject.cmark, the bit JVM_OBJECT_CMARK_FLAG_NOCOLLECT

heapVars == <<chain, otype, fields, stackCnt, cmark, hold>>

ObjType == {"object", "oarray", "parray"}

Mark == 0..MarkMask

Value == Obj \cup {Null, Num, Wild}

(***************************************************************************)
(* Every header is in range.  It names the widths of the struct members.   *)
(***************************************************************************)
HeapTypeOK ==
  /\ chain \subseteq Obj
  /\ otype \in [Obj -> ObjType]
  /\ fields \in [Obj -> [Slot -> Value]]
  /\ stackCnt \in [Obj -> 0..MaxCnt]
  /\ cmark \in [Obj -> Mark]
  /\ hold \in [Obj -> BOOLEAN]

(* Memory before the first object: no header means anything yet. *)
HeapInit ==
  /\ chain = {}
  /\ otype = [o \in Obj |-> "object"]
  /\ fields = [o \in Obj |-> [s \in Slot |-> Null]]
  /\ stackCnt = [o \in Obj |-> 0]
  /\ cmark = [o \in Obj |-> 0]
  /\ hold = [o \in Obj |-> FALSE]

(***************************************************************************)
(* The references an object holds.  The values of a primitive array are    *)
(* never references, whatever they look like.                              *)
(***************************************************************************)
Refs(o) ==
  IF otype[o] = "parray" THEN {} ELSE {fields[o][s] : s \in Slot} \cap Obj

(***************************************************************************)
(* Link a new header at o into the chain, with the mark m, the hold bit h, *)
(* the stack count n, and v in every slot.                                 *)
(***************************************************************************)
Link(o, t, v, m, h, n) ==
  /\ o \notin chain
  /\ chain' = chain \cup {o}
  /\ otype' = [otype EXCEPT ![o] = t]
  /\ fields' = [fields EXCEPT ![o] = [s \in Slot |-> v]]
  /\ cmark' = [cmark EXCEPT ![o] = m]
  /\ hold' = [hold EXCEPT ![o] = h]
  /\ stackCnt' = [stackCnt EXCEPT ![o] = n]

(* Wrong on purpose: the bit of the hold is stored with the mark. *)
HoldInMark(o, h, n) ==
  Link(o, "object", Null, IF h THEN MarkMask + 1 ELSE 0, h, n)

(***************************************************************************)
(* jvm_CreateObject: the header is zeroed, then held, and every field is   *)
(* given the value 0.  The opcode that asked for the object pushes it and, *)
(* in most cases, releases the hold.                                       *)
(***************************************************************************)
CreateObject(o, h, n) == Link(o, "object", Null, 0, h, n)

(***************************************************************************)
(* jvm_CreateObjectArray: neither the mark nor the elements are written,   *)
(* so both are whatever the memory held; the elements of one array are     *)
(* taken to read alike.                                                    *)
(***************************************************************************)
CreateObjectArray(o, h, n) ==
  \E m \in Junk, v \in Unwritten : Link(o, "oarray", v, m, h, n)

(* jvm_CreatePrimArray: the mark is cleared after the hold, and the hold   *)
(* with it.                                                                *)
CreatePrimArray(o, n) == Link(o, "parray", Num, 0, FALSE, n)

(* Wrong on purpose: a reference that goes away leaves its count behind. *)
DecForgotten(cnt, v) == cnt

(* A counted place comes to hold, or ceases to hold, the value v.  The      *)
(* counter has the width of stackCnt and wraps like it.                     *)
Inc(cnt, v) ==
  IF v \in Obj THEN [cnt EXCEPT ![v] = (@ + 1) % (MaxCnt + 1)] ELSE cnt
Dec(cnt, v) ==
  IF v \in Obj THEN [cnt EXCEPT ![v] = (@ - 1) % (MaxCnt + 1)] ELSE cnt

(* One slot of one object is overwritten. *)
Store(o, s, v) == fields' = [fields EXCEPT ![o][s] = v]
=============================================================================
