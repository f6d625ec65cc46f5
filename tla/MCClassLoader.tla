---------------------------- MODULE MCClassLoader ----------------------------
(* The class files that TLC runs through the loader. *)
EXTENDS ClassLoader

Item(tag, args) == [tag |-> tag, args |-> args]

(* Constants that stand before the ones the members name, and after them. *)
Before ==
  {<<>>, <<Item(Long, <<1, 300>>)>>, <<Item(Integer, <<7>>), Item(Long, <<0, 1>>)>>,
   <<Item(MethodRef, <<1, 2>>), Item(String, <<1>>)>>, <<Item(Float, <<9>>)>>}
After ==
  {<<>>, <<Item(Long, <<2, 65537>>)>>, <<Item(FieldRef, <<1, 258>>), Item(IntMethRef, <<2, 1>>)>>,
   <<Item(NameAndType, <<1, 2>>), Item(Double, <<1, 2>>)>>}

Plain(n, info) == [nameIndex |-> n, info |-> info, code |-> NoCode]

(* n is the number before that of the string Code; then come an empty and a *)
(* short string, and the class.                                            *)
Code(n, bytes, table, attrs) ==
  [nameIndex |-> n + 1, info |-> <<>>,
   code |-> [maxStack |-> 2, maxLocals |-> 1, code |-> bytes, eTable |-> table, attrs |-> attrs]]

Member(n, attrs) == [accessFlags |-> 9, nameIndex |-> n + 3, descIndex |-> n + 2, attrs |-> attrs]

MethodLists(n) ==
  LET short == Code(n, <<177>>, <<>>, <<>>)
      full == Code(n, <<42, 0, 3, 177, 4>>, <<<<0, 3, 4, 0>>, <<0, 258, 4, 1>>>>,
                   <<Plain(n + 2, <<0, 1>>), Plain(n + 3, <<>>)>>)
      other == Plain(n + 3, <<5, 6, 7>>)
  IN  {<<>>, <<Member(n, <<short>>)>>, <<Member(n, <<>>), Member(n, <<other, full>>)>>,
       <<Member(n, <<full, other>>), Member(n, <<short>>)>>}

FieldLists(n) ==
  {<<>>, <<Member(n, <<Plain(n + 2, <<0, 3>>), Plain(n + 3, <<>>)>>), Member(n, <<>>)>>}

MCFiles ==
  UNION {
    LET n == Len(Numbered(b))
    IN  {[pool |-> b \o <<Item(Utf8, CodeName), Item(Utf8, <<>>), Item(Utf8, <<120>>),
                          Item(ClassInfo, <<n + 3>>)>> \o a,
          accessFlags |-> 33, thisClass |-> n + 4, superClass |-> 0,
          interfaces |-> i, fields |-> f, methods |-> g, attrs |-> t] :
           a \in After, i \in {<<>>, <<n + 4, 257>>}, f \in FieldLists(n),
           g \in MethodLists(n), t \in {<<>>, <<Plain(n + 2, <<1>>)>>}} :
    b \in Before}

MCCuts == 0..70
=============================================================================
