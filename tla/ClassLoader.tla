----------------------------- MODULE ClassLoader -----------------------------
(***************************************************************************)
(* jvm_LoadClass (src/src/rjvm.c) takes a class file apart, byte by byte,  *)
(* with the reads of src/src/ms.c: the constant pool, the fields, the      *)
(* methods with their code, and the attributes of each.  Nothing in a      *)
(* class file says where a part begins but the parts before it, so one     *)
(* misjudged length would put every later part in the wrong place.         *)
(*                                                                         *)
(* The format of class files (the Java Virtual Machine Specification) is   *)
(* written down as the bytes a compiler writes for a class; the loader     *)
(* reads these bytes.  A file may have been cut short, the memory may run  *)
(* out at any jvm_malloc, and the loader looks for neither.                *)
(***************************************************************************)
EXTENDS Integers, Sequences, SequencesExt

CONSTANTS
  Files,  \* the classes a compiler wrote, as records
  Cuts,   \* how many bytes may be missing at the end of a file
  Bases   \* what the address of a block of memory may be, modulo 4

ASSUME LoaderAssumption == Bases \subseteq 0..3 /\ 0 \in Cuts /\ Cuts \subseteq Nat

VARIABLES
  file,   \* the class in the file
  data,   \* the bytes of the file
  pos,    \* m->pos, where the next read starts
  phase,  \* the part of the class that is being read, or how it ended
  left,   \* how many <<entries, attributes, attributes of the code>> are to come
  class   \* the JVMClass, as far as it is written

vars == <<file, data, pos, phase, left, class>>

-----------------------------------------------------------------------------
(* The format of a class file.                                             *)

Utf8 == 1          Integer == 3       Float == 4         Long == 5
Double == 6        ClassInfo == 7     String == 8        FieldRef == 9
MethodRef == 10    IntMethRef == 11   NameAndType == 12

U2(v) == <<v \div 256, v % 256>>
U4(v) == U2(v \div 65536) \o U2(v % 65536)

(* The entries of s, each written by Op. *)
Each(Op(_), s) == FlattenSeq([j \in DOMAIN s |-> Op(s[j])])

ItemBytes(item) ==
  <<item.tag>> \o
    CASE item.tag = Utf8 -> U2(Len(item.args)) \o item.args
      [] item.tag \in {Integer, Float, Long, Double} -> Each(U4, item.args)
      [] OTHER -> Each(U2, item.args)

PlainBytes(a) == U2(a.nameIndex) \o U4(Len(a.info)) \o a.info

NoCode == [none |-> TRUE]

CodeBytes(c) ==
  U2(c.maxStack) \o U2(c.maxLocals) \o U4(Len(c.code)) \o c.code
    \o U2(Len(c.eTable)) \o Each(LAMBDA row : Each(U2, row), c.eTable)
    \o U2(Len(c.attrs)) \o Each(PlainBytes, c.attrs)

AttributeBytes(a) ==
  PlainBytes(IF a.code = NoCode THEN a ELSE [a EXCEPT !.info = CodeBytes(a.code)])

MemberBytes(f) ==
  U2(f.accessFlags) \o U2(f.nameIndex) \o U2(f.descIndex)
    \o U2(Len(f.attrs)) \o Each(AttributeBytes, f.attrs)

(* The numbers of the constants: a long or a double has two of them. *)
Numbered(items) ==
  Each(LAMBDA e : IF e.tag \in {Long, Double} THEN <<e, e>> ELSE <<e>>, items)

FileBytes(f) ==
  <<202, 254, 186, 190>> \o U2(0) \o U2(50)
    \o U2(Len(Numbered(f.pool)) + 1) \o Each(ItemBytes, f.pool)
    \o U2(f.accessFlags) \o U2(f.thisClass) \o U2(f.superClass)
    \o U2(Len(f.interfaces)) \o Each(U2, f.interfaces)
    \o U2(Len(f.fields)) \o Each(MemberBytes, f.fields)
    \o U2(Len(f.methods)) \o Each(MemberBytes, f.methods)
    \o U2(Len(f.attrs)) \o Each(PlainBytes, f.attrs)

CodeName == <<67, 111, 100, 101>>  \* "Code"

(***************************************************************************)
(* What a compiler writes: every constant has the arguments its tag asks   *)
(* for, the names of the methods and of their attributes are strings of    *)
(* the pool, and what is called Code, once at most in a method, is its     *)
(* code.                                                                   *)
(***************************************************************************)
PoolItems == [tag : Nat, args : Seq(Nat)]
PlainAttributes == [nameIndex : Nat, info : Seq(Nat), code : {NoCode}]
Codes == [maxStack : Nat, maxLocals : Nat, code : Seq(Nat),
          eTable : Seq([1..4 -> Nat]), attrs : Seq(PlainAttributes)]
CodeAttributes == [nameIndex : Nat, info : {<<>>}, code : Codes]
Members(attributes) ==
  [accessFlags : Nat, nameIndex : Nat, descIndex : Nat, attrs : Seq(attributes)]

ArgsFit(item) ==
  /\ item.tag \in {Integer, Float, ClassInfo, String} => Len(item.args) = 1
  /\ item.tag \in {Long, Double, FieldRef, MethodRef, IntMethRef, NameAndType} =>
       Len(item.args) = 2

Names(pool, n) == n \in DOMAIN Numbered(pool) /\ Numbered(pool)[n].tag = Utf8

MethodFits(pool, f) ==
  /\ Names(pool, f.nameIndex) /\ Names(pool, f.descIndex)
  /\ \A j \in DOMAIN f.attrs :
       /\ Names(pool, f.attrs[j].nameIndex)
       /\ f.attrs[j].code # NoCode <=> Numbered(pool)[f.attrs[j].nameIndex].args = CodeName
  /\ \A j, k \in DOMAIN f.attrs : f.attrs[j].code # NoCode /\ f.attrs[k].code # NoCode => j = k

WellFormed(f) ==
  /\ f.pool \in Seq(PoolItems) /\ \A j \in DOMAIN f.pool : ArgsFit(f.pool[j])
  /\ f.accessFlags \in Nat /\ f.thisClass \in Nat /\ f.superClass \in Nat
  /\ f.interfaces \in Seq(Nat)
  /\ f.fields \in Seq(Members(PlainAttributes))
  /\ f.methods \in Seq(Members(PlainAttributes \cup CodeAttributes))
  /\ \A j \in DOMAIN f.methods : MethodFits(f.pool, f.methods[j])
  /\ f.attrs \in Seq(PlainAttributes)

ASSUME FileAssumption == \A f \in Files : WellFormed(f)

-----------------------------------------------------------------------------
(* The reads of ms.c.  The size of the file is known and never looked at;  *)
(* what lies behind the file does not matter, see Step.                    *)

Byte(p) == IF p < Len(data) THEN data[p + 1] ELSE 0

(* A load of the little-endian machine, and noths. *)
msRead16(p) == 256 * Byte(p) + Byte(p + 1)
msRead32(p) == 65536 * msRead16(p) + msRead16(p + 2)
msRead(p, sz) == SubSeq(data, p + 1, p + sz)

-----------------------------------------------------------------------------
Init ==
  /\ file \in Files
  /\ \E n \in Cuts : LET whole == FileBytes(file)
                     IN n < Len(whole) /\ data = SubSeq(whole, 1, Len(whole) - n)
  /\ pos = 0
  /\ phase = "header"
  /\ left = <<0, 0, 0>>
  /\ class = [poolCnt |-> 0, pool |-> <<>>, accessFlags |-> 0, thisClass |-> 0,
              superClass |-> 0, interfaces |-> <<>>, fields |-> <<>>,
              methods |-> <<>>, attrs |-> <<>>]

Over == {"loaded", "exit1", "crashed", "outside", "wild"}

Ends(how) == phase' = how /\ UNCHANGED <<file, data, pos, left, class>>

(***************************************************************************)
(* A part is read up to the byte end.  The result of jvm_malloc is written *)
(* through untested, if anything is written; and what is read behind the   *)
(* end of the file is not followed.                                        *)
(***************************************************************************)
Step(end, memory, nphase, nleft, nclass) ==
  \/ memory > 0 /\ Ends("crashed")
  \/ end > Len(data) /\ Ends("outside")
  \/ /\ end <= Len(data)
     /\ pos' = end
     /\ phase' = nphase
     /\ left' = nleft
     /\ class' = nclass
     /\ UNCHANGED <<file, data>>

Header ==
  /\ phase = "header"
  /\ Step(pos + 10, 1, "pool", <<0, 0, 0>>, [class EXCEPT !.poolCnt = msRead16(pos + 8)])

-----------------------------------------------------------------------------
Known == {Utf8, Integer, Long, ClassInfo, String, FieldRef, MethodRef, IntMethRef, NameAndType}

(* What the case of a tag reads from p on, and how many bytes that is. *)
Args(tag, p) ==
  CASE tag = Utf8 -> msRead(p + 2, msRead16(p))
    [] tag = Integer -> <<msRead32(p)>>
    [] tag = Long -> <<msRead32(p), msRead32(p + 4)>>
    [] tag \in {ClassInfo, String} -> <<msRead16(p)>>
    [] OTHER -> <<msRead16(p), msRead16(p + 2)>>

ArgsSize(tag, p) ==
  CASE tag = Utf8 -> 2 + msRead16(p)
    [] tag = Long -> 8
    [] tag \in {ClassInfo, String} -> 2
    [] OTHER -> 4

(* x, the entry of the pool that is written next, is Len(class.pool). *)
MorePool == phase = "pool" /\ Len(class.pool) < class.poolCnt - 1

(* Wrong on purpose: a long takes one entry. *)
EntriesOnce(tag) == 1

(* Wrong on purpose: every number takes two. *)
EntriesNumbers(tag) == IF tag \in {Integer, Long} THEN 2 ELSE 1

(* A long is entered twice. *)
Entries(tag) == IF tag = Long THEN 2 ELSE 1

PoolItem ==
  LET tag == Byte(pos)
      item == [tag |-> tag, args |-> Args(tag, pos + 1)]
  IN  /\ MorePool
      /\ tag \in Known
      /\ Step(pos + 1 + ArgsSize(tag, pos + 1), 1, "pool", left,
              [class EXCEPT !.pool = @ \o [j \in 1..Entries(tag) |-> item]])

UnknownTag ==
  /\ MorePool
  /\ Byte(pos) \notin Known
  /\ Ends(IF pos < Len(data) THEN "exit1" ELSE "outside")

(* accessFlags to the interfaces, and how many fields there are. *)
SmallParameters ==
  LET cnt == msRead16(pos + 6)
      end == pos + 8 + 2 * cnt
      fieldCnt == msRead16(end)
  IN  /\ phase = "pool" /\ ~MorePool
      /\ Step(end + 2, cnt + fieldCnt, "fields", <<fieldCnt, 0, 0>>,
              [class EXCEPT !.accessFlags = msRead16(pos),
                            !.thisClass = msRead16(pos + 2),
                            !.superClass = msRead16(pos + 4),
                            !.interfaces = [j \in 1..cnt |-> msRead16(pos + 6 + 2 * j)]])

-----------------------------------------------------------------------------
(* nameIndex, length and info of an attribute at p. *)
Attribute(p) ==
  [nameIndex |-> msRead16(p), info |-> msRead(p + 6, msRead32(p + 2))]
AttributeSize(p) == 6 + msRead32(p + 2)

FieldHeader ==
  LET attrCount == msRead16(pos + 6)
  IN  /\ phase = "fields" /\ left[1] > 0 /\ left[2] = 0
      /\ Step(pos + 8, attrCount, "fields", <<left[1] - 1, attrCount, 0>>,
              [class EXCEPT !.fields = Append(@,
                 [accessFlags |-> msRead16(pos), nameIndex |-> msRead16(pos + 2),
                  descIndex |-> msRead16(pos + 4), attrs |-> <<>>])])

FieldAttribute ==
  /\ phase = "fields" /\ left[2] > 0
  /\ Step(pos + AttributeSize(pos), msRead32(pos + 2), "fields", [left EXCEPT ![2] = @ - 1],
          [class EXCEPT !.fields[Len(class.fields)].attrs = Append(@, Attribute(pos))])

FieldsDone ==
  /\ phase = "fields" /\ left = <<0, 0, 0>>
  /\ Step(pos + 2, msRead16(pos), "methods", <<msRead16(pos), 0, 0>>, class)

-----------------------------------------------------------------------------
(* pool[n - 1]->string, when that is a string. *)
IsName(n) == n \in DOMAIN class.pool /\ class.pool[n].tag = Utf8
Name(n) == class.pool[n].args

m == Len(class.methods)

(* The name and the type are printed. *)
MethodHeader ==
  LET attrCount == msRead16(pos + 6)
      nameIndex == msRead16(pos + 2)
      descIndex == msRead16(pos + 4)
  IN  /\ phase = "methods" /\ left[1] > 0 /\ left[2] = 0 /\ left[3] = 0
      /\ Step(pos + 8, attrCount,
              IF IsName(nameIndex) /\ IsName(descIndex) THEN "methods" ELSE "wild",
              <<left[1] - 1, attrCount, 0>>,
              [class EXCEPT !.methods = Append(@,
                 [accessFlags |-> msRead16(pos), nameIndex |-> nameIndex,
                  descIndex |-> descIndex, attrs |-> <<>>, code |-> NoCode])])

MethodAttribute ==
  /\ phase = "methods" /\ left[2] > 0 /\ left[3] = 0
  /\ IsName(msRead16(pos)) => Name(msRead16(pos)) # CodeName
  /\ Step(pos + AttributeSize(pos), msRead32(pos + 2),
          IF IsName(msRead16(pos)) THEN "methods" ELSE "wild",
          [left EXCEPT ![2] = @ - 1],
          [class EXCEPT !.methods[m].attrs = Append(@, Attribute(pos))])

(* Wrong on purpose: the code goes to the start of the block. *)
BlockUnaligned(base, bytes) == bytes \o <<-1, -1, -1, -1>>

(* The code goes to the first multiple of four in a block of its length and *)
(* four bytes more; -1 is a byte that is not written.                      *)
Block(base, bytes) ==
  LET start == IF base = 0 THEN 0 ELSE 4 - base
  IN  [j \in 1..(Len(bytes) + 4) |->
         IF j - start \in DOMAIN bytes THEN bytes[j - start] ELSE -1]

(* The attribute called Code is read in full; its entry in the list of      *)
(* attributes is blanked.  attrLength is kept and not used.                *)
CodeAttribute ==
  LET p == pos + 6
      codeLength == msRead32(p + 4)
      q == p + 8 + codeLength
      eTableCount == msRead16(q)
      r == q + 2 + 8 * eTableCount
      attrsCount == msRead16(r)
      row(z) == [k \in 1..4 |-> msRead16(q + 2 + 8 * (z - 1) + 2 * (k - 1))]
  IN  /\ phase = "methods" /\ left[2] > 0 /\ left[3] = 0
      /\ IsName(msRead16(pos)) /\ Name(msRead16(pos)) = CodeName
      /\ \E base \in Bases :
           Step(r + 2, 1, "methods", <<left[1], left[2] - 1, attrsCount>>,
                [class EXCEPT
                   !.methods[m].attrs = Append(@, [nameIndex |-> 0, info |-> <<>>]),
                   !.methods[m].code =
                     [attrNameIndex |-> msRead16(pos), attrLength |-> msRead32(pos + 2),
                      maxStack |-> msRead16(p), maxLocals |-> msRead16(p + 2),
                      codeLength |-> codeLength, base |-> base,
                      code |-> Block(base, msRead(p + 8, codeLength)),
                      eTable |-> [z \in 1..eTableCount |-> row(z)], attrs |-> <<>>]])

CodeOwnAttribute ==
  /\ phase = "methods" /\ left[3] > 0
  /\ Step(pos + AttributeSize(pos), msRead32(pos + 2), "methods", [left EXCEPT ![3] = @ - 1],
          [class EXCEPT !.methods[m].code.attrs = Append(@, Attribute(pos))])

MethodsDone ==
  /\ phase = "methods" /\ left = <<0, 0, 0>>
  /\ Step(pos + 2, msRead16(pos), "attributes", <<msRead16(pos), 0, 0>>, class)

ClassAttribute ==
  /\ phase = "attributes" /\ left[1] > 0
  /\ Step(pos + AttributeSize(pos), msRead32(pos + 2), "attributes", [left EXCEPT ![1] = @ - 1],
          [class EXCEPT !.attrs = Append(@, Attribute(pos))])

Loaded ==
  /\ phase = "attributes" /\ left[1] = 0
  /\ Ends("loaded")

Next ==
  \/ Header \/ PoolItem \/ UnknownTag \/ SmallParameters
  \/ FieldHeader \/ FieldAttribute \/ FieldsDone
  \/ MethodHeader \/ MethodAttribute \/ CodeAttribute \/ CodeOwnAttribute \/ MethodsDone
  \/ ClassAttribute \/ Loaded
  \/ phase \in Over /\ UNCHANGED vars

Spec == Init /\ [][Next]_vars

-----------------------------------------------------------------------------
TypeOK ==
  /\ pos \in 0..Len(data)
  /\ phase \in Over \cup {"header", "pool", "fields", "methods", "attributes"}
  /\ left \in [1..3 -> Nat]
  /\ class.poolCnt > 0 => Len(class.pool) < class.poolCnt

(* What the interpreter fetches from the block: it aligns the address again. *)
Fetched(c) ==
  LET start == ((c.base + 3) \div 4) * 4 - c.base
  IN  SubSeq(c.code, start + 1, start + c.codeLength)

(* A loaded attribute or method is the one in the file. *)
SamePlain(a, b) == a.nameIndex = b.nameIndex /\ a.info = b.info

SameList(Same(_, _), s, t) == Len(s) = Len(t) /\ \A j \in DOMAIN s : Same(s[j], t[j])

SameField(f, g) ==
  /\ f.accessFlags = g.accessFlags /\ f.nameIndex = g.nameIndex /\ f.descIndex = g.descIndex
  /\ SameList(SamePlain, f.attrs, g.attrs)

SameCode(c, a) ==
  /\ c.attrNameIndex = a.nameIndex /\ c.attrLength = Len(CodeBytes(a.code))
  /\ c.maxStack = a.code.maxStack /\ c.maxLocals = a.code.maxLocals
  /\ Fetched(c) = a.code.code /\ c.eTable = a.code.eTable
  /\ SameList(SamePlain, c.attrs, a.code.attrs)

SameMethod(f, g) ==
  LET isCode(j) == g.attrs[j].code # NoCode
  IN  /\ f.accessFlags = g.accessFlags
      /\ f.nameIndex = g.nameIndex /\ f.descIndex = g.descIndex
      /\ Len(f.attrs) = Len(g.attrs)
      /\ \A j \in DOMAIN g.attrs :
           IF isCode(j) THEN SameCode(f.code, g.attrs[j]) ELSE SamePlain(f.attrs[j], g.attrs[j])
      /\ (\A j \in DOMAIN g.attrs : ~isCode(j)) => f.code = NoCode

(***************************************************************************)
(* A class that is handed back is the one in the file, whole and read to   *)
(* its last byte: every constant stands at its number less one, longs      *)
(* counted twice (rjvm.c:50), every member has its own attributes, and the *)
(* interpreter fetches the code where it was put (rjvm.c:221, exec.c:179). *)
(***************************************************************************)
RoundTrip ==
  phase = "loaded" =>
    /\ pos = Len(data) /\ data = FileBytes(file)
    /\ class.poolCnt = Len(class.pool) + 1
    /\ class.pool = Numbered(file.pool)
    /\ class.accessFlags = file.accessFlags
    /\ class.thisClass = file.thisClass /\ class.superClass = file.superClass
    /\ class.interfaces = file.interfaces
    /\ SameList(SameField, class.fields, file.fields)
    /\ SameList(SameMethod, class.methods, file.methods)
    /\ SameList(SamePlain, class.attrs, file.attrs)

(***************************************************************************)
(* A class is refused (rjvm.c:121) only for a constant the loader does not *)
(* know; the loader reads outside the file (ms.c:12) only when the file is *)
(* cut short, and takes no constant for a string that is none.             *)
(***************************************************************************)
RefusedWithReason ==
  /\ phase = "exit1" => \E j \in DOMAIN file.pool : file.pool[j].tag \notin Known
  /\ phase = "outside" => Len(data) < Len(FileBytes(file))
  /\ phase # "wild"
=============================================================================
