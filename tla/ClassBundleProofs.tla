-------------------------- MODULE ClassBundleProofs --------------------------
(***************************************************************************)
(* Proofs about the bundle of classes: for every set of classes a compiler *)
(* can leave behind, any number of them, in any order, whatever is missing *)
(* or given twice, and for every program made of them.                     *)
(***************************************************************************)
EXTENDS ClassBundle, FiniteSetTheorems, TLAPS

-----------------------------------------------------------------------------
(* The operators of the model as functions of the class files and of the   *)
(* places of the classes that are loaded: nothing else in the state has a  *)
(* say in what they find.                                                  *)

NamesOf(gs) == {gs[j].name : j \in DOMAIN gs}
FileOf(gs, n) == gs[CHOOSE j \in DOMAIN gs : gs[j].name = n]

UpOf(gs, n, next) ==
  LET closed == {S \in SUBSET NamesOf(gs) :
                   (n \in NamesOf(gs) => n \in S)
                   /\ \A k \in S : next[k] \cap NamesOf(gs) \subseteq S}
  IN  {m \in NamesOf(gs) : \A S \in closed : m \in S}

AboveOf(gs, n) == UpOf(gs, n, [m \in NamesOf(gs) |-> {FileOf(gs, m).super}])
TypesOf(gs, n) ==
  UpOf(gs, n, [m \in NamesOf(gs) |-> {FileOf(gs, m).super} \cup FileOf(gs, m).interfaces])

NearestOf(gs, n, having) ==
  LET cs == AboveOf(gs, n) \cap having
  IN  IF cs = {} THEN None ELSE CHOOSE d \in cs : cs \subseteq AboveOf(gs, d)

FindOf(gs, K, n) ==
  LET cs == {c \in K : gs[c].name = n}
  IN  IF cs = {} THEN 0 ELSE CHOOSE c \in cs : \A b \in cs : b <= c

WalkOf(gs, K, c, having) ==
  LET walk[b \in K] ==
        LET super == gs[b].super
        IN  IF b \in having THEN b
            ELSE IF super = None THEN 0
            ELSE IF FindOf(gs, K, super) = 0 THEN Missing ELSE walk[FindOf(gs, K, super)]
  IN  walk[c]

OwnOf(gs, c) ==
  [j \in DOMAIN gs[c].fields |->
     [name |-> gs[c].fields[j].name, type |-> gs[c].fields[j].type,
      from |-> gs[c].name, static |-> gs[c].fields[j].static, value |-> 0]]

FieldsOf(gs, K, c) ==
  LET all[b \in K] ==
        LET super == FindOf(gs, K, gs[b].super)
        IN  IF super = 0 THEN OwnOf(gs, b) ELSE OwnOf(gs, b) \o all[super]
  IN  all[c]

LEMMA NamesAre == Names = NamesOf(given)
  BY DEF Names, NamesOf

LEMMA FileIs == \A n : File(n) = FileOf(given, n)
  BY DEF File, FileOf

LEMMA UpIs == ASSUME NEW n, NEW next PROVE Up(n, next) = UpOf(given, n, next)
  BY DEF Up, UpOf, Names, NamesOf

LEMMA AboveIs == ASSUME NEW n PROVE Above(n) = AboveOf(given, n)
  BY UpIs, FileIs, NamesAre DEF Above, AboveOf

LEMMA TypesAre == ASSUME NEW n PROVE Types(n) = TypesOf(given, n)
  BY UpIs, FileIs, NamesAre DEF Types, TypesOf

LEMMA NearestIs ==
  ASSUME NEW n, NEW having PROVE Nearest(n, having) = NearestOf(given, n, having)
  BY DEF Nearest, NearestOf, Above, AboveOf, Up, UpOf, Names, NamesOf, File, FileOf

LEMMA FindIs == ASSUME NEW n PROVE FindClass(n) = FindOf(given, Ids, n)
  BY DEF FindClass, FindOf, Name

LEMMA WalkIs ==
  ASSUME NEW c, NEW having PROVE Walk(c, having) = WalkOf(given, Ids, c, having)
  BY FindIs DEF Walk, WalkOf

LEMMA OwnIs == ASSUME NEW c PROVE OwnFields(c) = OwnOf(given, c)
  BY DEF OwnFields, OwnOf, Name

LEMMA FieldsAre == ASSUME NEW c PROVE AllFields(c) = FieldsOf(given, Ids, c)
  BY FindIs, OwnIs DEF AllFields, FieldsOf

-----------------------------------------------------------------------------
(* Class files and their names.                                            *)

SuperOf(gs, n) == FileOf(gs, n).super

LEMMA Places ==
  ASSUME NEW gs, WellFormed(gs)
  PROVE  Len(gs) \in Nat /\ DOMAIN gs = 1..Len(gs)
  BY DEF WellFormed

LEMMA FileAt ==
  ASSUME NEW gs, WellFormed(gs), NEW j \in DOMAIN gs
  PROVE  /\ gs[j].name \in NamesOf(gs)
         /\ FileOf(gs, gs[j].name) = gs[j]
         /\ ClassFile(gs[j])
<1>. DEFINE k == CHOOSE k \in DOMAIN gs : gs[k].name = gs[j].name
<1>1. k \in DOMAIN gs /\ gs[k].name = gs[j].name
  OBVIOUS
<1>2. gs[k] = gs[j]
  BY <1>1 DEF WellFormed
<1>3. QED
  BY <1>2 DEF FileOf, NamesOf, WellFormed

LEMMA NamePlace ==
  ASSUME NEW gs, WellFormed(gs), NEW n \in NamesOf(gs)
  PROVE  \E j \in DOMAIN gs : gs[j].name = n /\ FileOf(gs, n) = gs[j]
  BY FileAt DEF NamesOf

LEMMA FileFacts ==
  ASSUME NEW gs, WellFormed(gs), NEW n \in NamesOf(gs)
  PROVE  /\ ClassFile(FileOf(gs, n))
         /\ FileOf(gs, n).name = n
         /\ n \notin NoNames
         /\ SuperOf(gs, n) # "int"
         /\ SuperOf(gs, n) = None <=> n = Object
<1>1. PICK j \in DOMAIN gs : gs[j].name = n /\ FileOf(gs, n) = gs[j]
  BY NamePlace
<1>2. ClassFile(gs[j])
  BY FileAt
<1>3. QED
  BY <1>1, <1>2 DEF ClassFile, SuperOf

(* Among any names of classes there is one whose super is not among them. *)
LEMMA Grounded ==
  ASSUME NEW gs, WellFormed(gs), NEW T \in SUBSET NamesOf(gs), T # {}
  PROVE  \E n \in T : SuperOf(gs, n) \notin T
<1>. DEFINE S == {j \in DOMAIN gs : gs[j].name \in T}
<1>1. S \in SUBSET DOMAIN gs /\ S # {}
  BY DEF NamesOf
<1>2. PICK j \in S : \A k \in S : gs[k].name # gs[j].super
  BY <1>1 DEF WellFormed
<1>3. SuperOf(gs, gs[j].name) = gs[j].super
  BY FileAt DEF SuperOf
<1>4. ASSUME gs[j].super \in T PROVE FALSE
  <2>1. PICK k \in DOMAIN gs : gs[k].name = gs[j].super
    BY <1>4 DEF NamesOf
  <2>2. QED
    BY <1>2, <1>4, <2>1
<1>5. QED
  BY <1>2, <1>3, <1>4

LEMMA Greatest ==
  ASSUME NEW n \in Nat, NEW cs \in SUBSET (1..n), cs # {}
  PROVE  \E c \in cs : \A b \in cs : b <= c
<1>. DEFINE Bounds == {m \in 0..n : \A b \in cs : b <= m}
            Below == {0..m : m \in Bounds}
<1>1. n \in Bounds
  OBVIOUS
<1>2. Below \subseteq FiniteSubsetsOf(Nat)
  <2>1. ASSUME NEW m \in Bounds PROVE 0..m \in FiniteSubsetsOf(Nat)
    <3>1. IsFiniteSet(0..m)
      BY FS_Interval
    <3>2. 0..m \in SUBSET Nat
      OBVIOUS
    <3>3. QED
      BY <3>1, <3>2 DEF FiniteSubsetsOf
  <2>2. QED
    BY <2>1
<1>3. IsWellFoundedOn(StrictSubsetOrdering(Nat), FiniteSubsetsOf(Nat))
  BY FS_StrictSubsetOrderingWellFounded
<1>4. Below # {}
  BY <1>1
<1>5. PICK B \in Below : \A C \in Below : ~ (<<C, B>> \in StrictSubsetOrdering(Nat))
  <2>. HIDE DEF Below
  <2>1. QED
    BY <1>2, <1>3, <1>4, WFMin, Zenon
<1>6. PICK m \in Bounds : B = 0..m
  BY <1>5
<1>7. ASSUME m \notin cs PROVE FALSE
  <2>1. m - 1 \in Bounds
    <3>1. PICK d \in cs : TRUE
      OBVIOUS
    <3>2. \A b \in cs : b \in 1..n /\ b <= m /\ b # m
      BY <1>6, <1>7
    <3>3. m - 1 \in 0..n
      BY <3>1, <3>2, <1>6
    <3>4. \A b \in cs : b <= m - 1
      BY <3>2, <1>6
    <3>5. QED
      BY <3>3, <3>4
  <2>2. 0..(m - 1) \in Below
    BY <2>1
  <2>3. 0..(m - 1) \subseteq Nat /\ 0..m \subseteq Nat
    BY <1>6
  <2>4. 0..(m - 1) \subseteq 0..m /\ m \in 0..m /\ m \notin 0..(m - 1)
    BY <1>6
  <2>5. <<0..(m - 1), 0..m>> \in StrictSubsetOrdering(Nat)
    BY <2>3, <2>4 DEF StrictSubsetOrdering
  <2>6. QED
    BY <1>5, <1>6, <2>2, <2>5
<1>8. QED
  BY <1>6, <1>7

LEMMA Find ==
  ASSUME NEW gs, WellFormed(gs), NEW n
  PROVE  /\ n \in NamesOf(gs) =>
              /\ FindOf(gs, DOMAIN gs, n) \in DOMAIN gs
              /\ FindOf(gs, DOMAIN gs, n) > 0
              /\ gs[FindOf(gs, DOMAIN gs, n)].name = n
              /\ gs[FindOf(gs, DOMAIN gs, n)] = FileOf(gs, n)
         /\ n \notin NamesOf(gs) => FindOf(gs, DOMAIN gs, n) = 0
<1>. DEFINE cs == {c \in DOMAIN gs : gs[c].name = n}
            c == CHOOSE c \in cs : \A b \in cs : b <= c
<1>1. CASE n \notin NamesOf(gs)
  <2>1. cs = {}
    BY <1>1 DEF NamesOf
  <2>2. QED
    BY <1>1, <2>1 DEF FindOf
<1>2. CASE n \in NamesOf(gs)
  <2>1. cs # {}
    BY <1>2 DEF NamesOf
  <2>2. cs \in SUBSET (1..Len(gs)) /\ Len(gs) \in Nat
    BY Places
  <2>3. \E d \in cs : \A b \in cs : b <= d
    <3>. HIDE DEF cs
    <3>1. QED
      BY <2>1, <2>2, Greatest
  <2>4. c \in cs
    BY <2>3
  <2>5. FindOf(gs, DOMAIN gs, n) = c
    BY <2>1 DEF FindOf
  <2>6. c \in DOMAIN gs /\ gs[c].name = n /\ c > 0
    BY <2>4, Places
  <2>7. FileOf(gs, n) = gs[c]
    BY <2>6, FileAt
  <2>8. QED
    BY <1>2, <2>5, <2>6, <2>7
<1>3. QED
  BY <1>1, <1>2

-----------------------------------------------------------------------------
(* The supers of a class.                                                  *)

(* S contains n and, with a class, those next to it. *)
Closed(gs, n, next, S) ==
  /\ S \in SUBSET NamesOf(gs)
  /\ n \in NamesOf(gs) => n \in S
  /\ \A k \in S : next[k] \cap NamesOf(gs) \subseteq S

LEMMA UpLeast ==
  ASSUME NEW gs, NEW n, NEW next, NEW S, Closed(gs, n, next, S)
  PROVE  UpOf(gs, n, next) \subseteq S
  BY DEF UpOf, Closed

LEMMA UpClosed ==
  ASSUME NEW gs, NEW n, NEW next
  PROVE  Closed(gs, n, next, UpOf(gs, n, next))
<1>. DEFINE U == UpOf(gs, n, next)
<1>1. U \in SUBSET NamesOf(gs)
  BY DEF UpOf
<1>2. ASSUME n \in NamesOf(gs) PROVE n \in U
  BY <1>2 DEF UpOf
<1>3. ASSUME NEW k \in U, NEW m \in next[k] \cap NamesOf(gs) PROVE m \in U
  <2>1. SUFFICES ASSUME NEW S \in SUBSET NamesOf(gs), Closed(gs, n, next, S)
                 PROVE  m \in S
    BY <1>3 DEF UpOf, Closed
  <2>2. k \in S
    BY <2>1, UpLeast
  <2>3. QED
    BY <1>3, <2>1, <2>2 DEF Closed
<1>4. QED
  BY <1>1, <1>2, <1>3 DEF Closed

LEMMA AboveLeast ==
  ASSUME NEW gs, NEW n, NEW S \in SUBSET NamesOf(gs),
         n \in NamesOf(gs) => n \in S,
         \A k \in S : SuperOf(gs, k) \in NamesOf(gs) => SuperOf(gs, k) \in S
  PROVE  AboveOf(gs, n) \subseteq S
<1>. DEFINE next == [m \in NamesOf(gs) |-> {FileOf(gs, m).super}]
<1>1. \A k \in S : next[k] = {SuperOf(gs, k)}
  BY DEF SuperOf
<1>2. Closed(gs, n, next, S)
  BY <1>1 DEF Closed
<1>3. QED
  BY <1>2, UpLeast DEF AboveOf

LEMMA AboveClosed ==
  ASSUME NEW gs, NEW n
  PROVE  /\ AboveOf(gs, n) \in SUBSET NamesOf(gs)
         /\ n \in NamesOf(gs) => n \in AboveOf(gs, n)
         /\ \A k \in AboveOf(gs, n) :
              SuperOf(gs, k) \in NamesOf(gs) => SuperOf(gs, k) \in AboveOf(gs, n)
<1>. DEFINE next == [m \in NamesOf(gs) |-> {FileOf(gs, m).super}]
<1>1. Closed(gs, n, next, AboveOf(gs, n))
  BY UpClosed DEF AboveOf
<1>2. \A k \in NamesOf(gs) : next[k] = {SuperOf(gs, k)}
  BY DEF SuperOf
<1>3. QED
  BY <1>1, <1>2 DEF Closed

LEMMA NothingAbove ==
  ASSUME NEW gs, NEW n, n \notin NamesOf(gs)
  PROVE  AboveOf(gs, n) = {}
<1>. DEFINE S == {}
<1>1. /\ S \in SUBSET NamesOf(gs)
      /\ n \in NamesOf(gs) => n \in S
      /\ \A k \in S : SuperOf(gs, k) \in NamesOf(gs) => SuperOf(gs, k) \in S
  OBVIOUS
<1>2. AboveOf(gs, n) \subseteq S
  <2>. HIDE DEF S
  <2>1. QED
    BY <1>1, AboveLeast
<1>3. QED
  BY <1>2

LEMMA AboveTransitive ==
  ASSUME NEW gs, NEW n, NEW m \in AboveOf(gs, n)
  PROVE  AboveOf(gs, m) \subseteq AboveOf(gs, n)
  BY AboveClosed, AboveLeast

LEMMA AboveUnfolds ==
  ASSUME NEW gs, NEW n \in NamesOf(gs)
  PROVE  AboveOf(gs, n) = {n} \cup AboveOf(gs, SuperOf(gs, n))
<1>. DEFINE S == {n} \cup AboveOf(gs, SuperOf(gs, n))
<1>1. AboveOf(gs, n) \subseteq S
  <2>1. S \in SUBSET NamesOf(gs) /\ n \in S
    BY AboveClosed
  <2>2. \A k \in S : SuperOf(gs, k) \in NamesOf(gs) => SuperOf(gs, k) \in S
    BY AboveClosed
  <2>. HIDE DEF S
  <2>3. QED
    BY <2>1, <2>2, AboveLeast
<1>2. AboveOf(gs, SuperOf(gs, n)) \subseteq AboveOf(gs, n)
  BY AboveClosed, AboveTransitive, NothingAbove
<1>3. QED
  BY <1>1, <1>2, AboveClosed

(* No class is above a class above it. *)
LEMMA AboveAcyclic ==
  ASSUME NEW gs, WellFormed(gs), NEW n \in NamesOf(gs), NEW m \in AboveOf(gs, n),
         n \in AboveOf(gs, m)
  PROVE  m = n /\ n \notin AboveOf(gs, SuperOf(gs, n))
<1>. DEFINE T == {k \in AboveOf(gs, n) : n \in AboveOf(gs, k)}
<1>1. T \in SUBSET NamesOf(gs) /\ n \in T /\ m \in T
  BY AboveClosed
<1>2. PICK x \in T : SuperOf(gs, x) \notin T
  <2>. HIDE DEF T
  <2>1. QED
    BY <1>1, Grounded
<1>3. x \in NamesOf(gs)
  BY <1>1
<1>4. ASSUME n \in AboveOf(gs, SuperOf(gs, x)) PROVE FALSE
  <2>1. SuperOf(gs, x) \in NamesOf(gs)
    BY <1>4, NothingAbove
  <2>2. SuperOf(gs, x) \in AboveOf(gs, n)
    BY <2>1, <1>2, AboveClosed
  <2>3. QED
    BY <1>2, <1>4, <2>2
<1>5. x = n
  BY <1>2, <1>3, <1>4, AboveUnfolds
<1>6. ASSUME m # n PROVE FALSE
  <2>1. m \in AboveOf(gs, SuperOf(gs, n))
    BY <1>6, AboveUnfolds
  <2>2. n \in AboveOf(gs, SuperOf(gs, n))
    BY <2>1, AboveTransitive
  <2>3. QED
    BY <1>4, <1>5, <2>2
<1>7. QED
  BY <1>4, <1>5, <1>6

(* The supers of a class stand one above the other. *)
LEMMA AboveChain ==
  ASSUME NEW gs, NEW n, NEW a \in AboveOf(gs, n), NEW b \in AboveOf(gs, n)
  PROVE  a \in AboveOf(gs, b) \/ b \in AboveOf(gs, a)
<1>. DEFINE S == {k \in NamesOf(gs) : k \in AboveOf(gs, a) \/ a \in AboveOf(gs, k)}
<1>1. n \in NamesOf(gs) => n \in S
  OBVIOUS
<1>2. ASSUME NEW k \in S, SuperOf(gs, k) \in NamesOf(gs) PROVE SuperOf(gs, k) \in S
  <2>1. CASE k \in AboveOf(gs, a)
    BY <1>2, <2>1, AboveClosed
  <2>2. CASE a \in AboveOf(gs, k)
    <3>1. a = k \/ a \in AboveOf(gs, SuperOf(gs, k))
      BY <2>2, AboveUnfolds
    <3>2. CASE a = k
      <4>1. k \in AboveOf(gs, a)
        BY <3>2, AboveClosed
      <4>2. QED
        BY <1>2, <4>1, AboveClosed
    <3>3. QED
      BY <1>2, <3>1, <3>2
  <2>3. QED
    BY <2>1, <2>2
<1>3. AboveOf(gs, n) \subseteq S
  <2>1. S \in SUBSET NamesOf(gs)
    OBVIOUS
  <2>. HIDE DEF S
  <2>2. QED
    BY <1>1, <1>2, <2>1, AboveLeast
<1>4. QED
  BY <1>3

-----------------------------------------------------------------------------
(* The nearest class that has what is looked for.                          *)

LEMMA NearestUnique ==
  ASSUME NEW gs, WellFormed(gs), NEW n, NEW H,
         NEW d \in AboveOf(gs, n) \cap H, AboveOf(gs, n) \cap H \subseteq AboveOf(gs, d)
  PROVE  NearestOf(gs, n, H) = d
<1>. DEFINE cs == AboveOf(gs, n) \cap H
            e == CHOOSE e \in cs : cs \subseteq AboveOf(gs, e)
<1>1. e \in cs /\ cs \subseteq AboveOf(gs, e)
  OBVIOUS
<1>2. d \in NamesOf(gs) /\ e \in AboveOf(gs, d) /\ d \in AboveOf(gs, e)
  BY <1>1, AboveClosed
<1>3. e = d
  BY <1>2, AboveAcyclic
<1>4. QED
  BY <1>3 DEF NearestOf

LEMMA NearestExists ==
  ASSUME NEW gs, WellFormed(gs), NEW n, NEW H, AboveOf(gs, n) \cap H # {}
  PROVE  \E d \in AboveOf(gs, n) \cap H : AboveOf(gs, n) \cap H \subseteq AboveOf(gs, d)
<1>. DEFINE cs == AboveOf(gs, n) \cap H
            S == {k \in AboveOf(gs, n) : cs \subseteq AboveOf(gs, k)}
<1>1. SUFFICES ASSUME \A d \in cs : ~(cs \subseteq AboveOf(gs, d)) PROVE FALSE
  OBVIOUS
<1>2. S \in SUBSET NamesOf(gs) /\ (n \in NamesOf(gs) => n \in S)
  BY AboveClosed
<1>3. ASSUME NEW k \in S, SuperOf(gs, k) \in NamesOf(gs) PROVE SuperOf(gs, k) \in S
  <2>1. k \notin cs /\ cs \subseteq AboveOf(gs, k) /\ k \in NamesOf(gs)
    BY <1>1, AboveClosed
  <2>2. cs \subseteq AboveOf(gs, SuperOf(gs, k))
    BY <2>1, AboveUnfolds
  <2>3. QED
    BY <1>3, <2>2, AboveClosed
<1>4. AboveOf(gs, n) \subseteq S
  <2>. HIDE DEF S
  <2>1. QED
    BY <1>2, <1>3, AboveLeast
<1>5. QED
  BY <1>1, <1>4

LEMMA NearestFound ==
  ASSUME NEW gs, WellFormed(gs), NEW n, NEW H
  PROVE  /\ AboveOf(gs, n) \cap H = {} => NearestOf(gs, n, H) = None
         /\ AboveOf(gs, n) \cap H # {} =>
              /\ NearestOf(gs, n, H) \in AboveOf(gs, n) \cap H
              /\ AboveOf(gs, n) \cap H \subseteq AboveOf(gs, NearestOf(gs, n, H))
              /\ NearestOf(gs, n, H) # None
<1>1. CASE AboveOf(gs, n) \cap H = {}
  BY <1>1 DEF NearestOf
<1>2. CASE AboveOf(gs, n) \cap H # {}
  <2>1. PICK d \in AboveOf(gs, n) \cap H : AboveOf(gs, n) \cap H \subseteq AboveOf(gs, d)
    BY <1>2, NearestExists
  <2>2. NearestOf(gs, n, H) = d
    BY <2>1, NearestUnique
  <2>3. d \in NamesOf(gs)
    BY AboveClosed
  <2>4. d # None
    BY <2>3, FileFacts DEF NoNames
  <2>5. QED
    BY <1>2, <2>1, <2>2, <2>4
<1>3. QED
  BY <1>1, <1>2

(* A class that has it is itself the nearest; one that has not has the one  *)
(* its super has.                                                          *)
LEMMA NearestHere ==
  ASSUME NEW gs, WellFormed(gs), NEW H, NEW n \in NamesOf(gs) \cap H
  PROVE  NearestOf(gs, n, H) = n
  BY AboveClosed, NearestUnique

LEMMA NearestSuper ==
  ASSUME NEW gs, WellFormed(gs), NEW H, NEW n \in NamesOf(gs) \ H
  PROVE  /\ AboveOf(gs, n) \cap H = AboveOf(gs, SuperOf(gs, n)) \cap H
         /\ NearestOf(gs, n, H) = NearestOf(gs, SuperOf(gs, n), H)
<1>1. AboveOf(gs, n) \cap H = AboveOf(gs, SuperOf(gs, n)) \cap H
  BY AboveUnfolds
<1>2. CASE AboveOf(gs, n) \cap H = {}
  BY <1>1, <1>2, NearestFound
<1>3. CASE AboveOf(gs, n) \cap H # {}
  <2>1. PICK d \in AboveOf(gs, n) \cap H : AboveOf(gs, n) \cap H \subseteq AboveOf(gs, d)
    BY <1>3, NearestExists
  <2>2. NearestOf(gs, n, H) = d
    BY <2>1, NearestUnique
  <2>3. NearestOf(gs, SuperOf(gs, n), H) = d
    BY <1>1, <2>1, NearestUnique
  <2>4. QED
    BY <1>1, <2>2, <2>3
<1>4. QED
  BY <1>2, <1>3

-----------------------------------------------------------------------------
(* The search from a class up finds the nearest, as the language selects.  *)

(* Every super of n was given. *)
Complete(gs, n) ==
  \A k \in AboveOf(gs, n) : SuperOf(gs, k) \in NamesOf(gs) \/ SuperOf(gs, k) = None

(* H does not tell apart two places of one class. *)
ByName(gs, H) ==
  /\ H \in SUBSET DOMAIN gs
  /\ \A a, b \in DOMAIN gs : gs[a].name = gs[b].name /\ a \in H => b \in H

NamesIn(gs, H) == {gs[b].name : b \in H}

Reached(gs, c, H) ==
  LET n == gs[c].name
      names == NamesIn(gs, H)
  IN  IF c \in H THEN c
      ELSE IF AboveOf(gs, n) \cap names # {} THEN FindOf(gs, DOMAIN gs, NearestOf(gs, n, names))
      ELSE IF Complete(gs, n) THEN 0 ELSE Missing

(* One step of the search, f being the rest of it. *)
WalkStep(gs, H, b, f) ==
  LET super == gs[b].super
  IN  IF b \in H THEN b
      ELSE IF super = None THEN 0
      ELSE IF FindOf(gs, DOMAIN gs, super) = 0 THEN Missing ELSE f[FindOf(gs, DOMAIN gs, super)]

Walks(gs, H, f) == f = [b \in DOMAIN gs |-> WalkStep(gs, H, b, f)]

LEMMA CompleteUnfolds ==
  ASSUME NEW gs, WellFormed(gs), NEW n \in NamesOf(gs)
  PROVE  Complete(gs, n) <=>
           SuperOf(gs, n) = None \/ (SuperOf(gs, n) \in NamesOf(gs) /\ Complete(gs, SuperOf(gs, n)))
<1>1. SuperOf(gs, n) = None => SuperOf(gs, n) \notin NamesOf(gs)
  BY FileFacts DEF NoNames
<1>2. AboveOf(gs, n) = {n} \cup AboveOf(gs, SuperOf(gs, n))
  BY AboveUnfolds
<1>3. SuperOf(gs, n) = None => AboveOf(gs, SuperOf(gs, n)) = {}
  BY <1>1, NothingAbove
<1>4. QED
  BY <1>2, <1>3 DEF Complete

LEMMA InNames ==
  ASSUME NEW gs, WellFormed(gs), NEW H, ByName(gs, H), NEW c \in DOMAIN gs
  PROVE  gs[c].name \in NamesIn(gs, H) <=> c \in H
  BY DEF ByName, NamesIn

LEMMA ReachedWalks ==
  ASSUME NEW gs, WellFormed(gs), NEW H, ByName(gs, H)
  PROVE  Walks(gs, H, [b \in DOMAIN gs |-> Reached(gs, b, H)])
<1>. DEFINE f == [b \in DOMAIN gs |-> Reached(gs, b, H)]
            names == NamesIn(gs, H)
<1>1. SUFFICES ASSUME NEW b \in DOMAIN gs
               PROVE  f[b] = WalkStep(gs, H, b, f)
  BY DEF Walks
<1>2. CASE b \in H
  BY <1>2 DEF Reached, WalkStep
<1>. DEFINE n == gs[b].name
            super == gs[b].super
            a == FindOf(gs, DOMAIN gs, super)
<1>3. n \in NamesOf(gs) /\ SuperOf(gs, n) = super
  BY FileAt DEF SuperOf
<1>4. CASE b \notin H
  <2>1. n \notin names
    BY <1>4, InNames
  <2>2. /\ AboveOf(gs, n) \cap names = AboveOf(gs, super) \cap names
        /\ NearestOf(gs, n, names) = NearestOf(gs, super, names)
    BY <1>3, <2>1, NearestSuper
  <2>3. Complete(gs, n) <=> super = None \/ (super \in NamesOf(gs) /\ Complete(gs, super))
    BY <1>3, CompleteUnfolds
  <2>4. CASE super \notin NamesOf(gs)
    <3>1. AboveOf(gs, super) = {} /\ a = 0
      BY <2>4, NothingAbove, Find
    <3>2. f[b] = IF super = None THEN 0 ELSE Missing
      BY <1>4, <2>2, <2>3, <2>4, <3>1 DEF Reached
    <3>3. QED
      BY <1>4, <3>1, <3>2 DEF WalkStep
  <2>5. CASE super \in NamesOf(gs)
    <3>1. super # None
      BY <2>5, FileFacts DEF NoNames
    <3>2. a \in DOMAIN gs /\ a # 0 /\ gs[a].name = super
      BY <2>5, Find, Places
    <3>3. f[b] = Reached(gs, a, H)
      <4>1. CASE a \in H
        <5>1. super \in names
          BY <3>2, <4>1, InNames
        <5>2. NearestOf(gs, super, names) = super
          BY <2>5, <5>1, NearestHere
        <5>3. super \in AboveOf(gs, super) \cap names
          BY <2>5, <5>1, AboveClosed
        <5>4. f[b] = a
          BY <1>4, <2>2, <5>2, <5>3 DEF Reached
        <5>5. QED
          BY <4>1, <5>4 DEF Reached
      <4>2. CASE a \notin H
        BY <1>4, <2>2, <2>3, <2>5, <3>1, <3>2, <4>2 DEF Reached
      <4>3. QED
        BY <4>1, <4>2
    <3>4. QED
      BY <1>4, <3>1, <3>2, <3>3 DEF WalkStep
  <2>6. QED
    BY <2>4, <2>5
<1>5. QED
  BY <1>2, <1>4

LEMMA WalksAlike ==
  ASSUME NEW gs, WellFormed(gs), NEW H, NEW f, NEW g, Walks(gs, H, f), Walks(gs, H, g)
  PROVE  f = g
<1>. DEFINE S == {b \in DOMAIN gs : f[b] # g[b]}
<1>1. ASSUME S # {} PROVE FALSE
  <2>1. PICK j \in S : \A k \in S : gs[k].name # gs[j].super
    BY <1>1 DEF WellFormed
  <2>. DEFINE super == gs[j].super
              a == FindOf(gs, DOMAIN gs, super)
  <2>2. f[j] = WalkStep(gs, H, j, f) /\ g[j] = WalkStep(gs, H, j, g)
    BY DEF Walks
  <2>3. a = 0 \/ (a \in DOMAIN gs /\ gs[a].name = super)
    BY Find
  <2>4. a = 0 \/ f[a] = g[a]
    BY <2>1, <2>3
  <2>5. QED
    BY <2>2, <2>4 DEF WalkStep
<1>2. DOMAIN f = DOMAIN gs /\ DOMAIN g = DOMAIN gs
      /\ f = [b \in DOMAIN f |-> f[b]] /\ g = [b \in DOMAIN g |-> g[b]]
  BY DEF Walks
<1>3. QED
  BY <1>1, <1>2

LEMMA WalkReaches ==
  ASSUME NEW gs, WellFormed(gs), NEW H, ByName(gs, H), NEW c \in DOMAIN gs
  PROVE  WalkOf(gs, DOMAIN gs, c, H) = Reached(gs, c, H)
<1>. DEFINE f == [b \in DOMAIN gs |-> Reached(gs, b, H)]
            w == CHOOSE g : Walks(gs, H, g)
<1>1. Walks(gs, H, f)
  BY ReachedWalks
<1>2. Walks(gs, H, w)
  BY <1>1
<1>3. w = f
  BY <1>1, <1>2, WalksAlike
<1>4. WalkOf(gs, DOMAIN gs, c, H) = w[c]
  BY DEF WalkOf, Walks, WalkStep
<1>5. QED
  BY <1>3, <1>4

LEMMA WalkFinds ==
  ASSUME NEW gs, WellFormed(gs), NEW H, ByName(gs, H), NEW c \in DOMAIN gs,
         NEW w, w = WalkOf(gs, DOMAIN gs, c, H), NEW n, n = gs[c].name
  PROVE  /\ AboveOf(gs, n) \cap NamesIn(gs, H) # {} =>
              w \in H /\ w > 0 /\ gs[w].name = NearestOf(gs, n, NamesIn(gs, H))
         /\ AboveOf(gs, n) \cap NamesIn(gs, H) = {} =>
              w = IF Complete(gs, n) THEN 0 ELSE Missing
<1>. DEFINE names == NamesIn(gs, H)
<1>1. w = Reached(gs, c, H)
  BY WalkReaches
<1>2. n \in NamesOf(gs)
  BY FileAt
<1>3. CASE c \in H
  <2>1. n \in names
    BY <1>3, InNames
  <2>2. w = c /\ NearestOf(gs, n, names) = n /\ n \in AboveOf(gs, n)
    BY <1>1, <1>2, <1>3, <2>1, NearestHere, AboveClosed DEF Reached
  <2>3. QED
    BY <1>3, <2>1, <2>2, Places
<1>4. CASE c \notin H /\ AboveOf(gs, n) \cap names # {}
  <2>. DEFINE d == NearestOf(gs, n, names)
  <2>1. d \in names /\ d \in NamesOf(gs)
    BY <1>4, NearestFound, AboveClosed
  <2>2. w = FindOf(gs, DOMAIN gs, d)
    BY <1>1, <1>4 DEF Reached
  <2>3. w \in DOMAIN gs /\ w > 0 /\ gs[w].name = d
    BY <2>1, <2>2, Find
  <2>4. w \in H
    BY <2>1, <2>3, InNames
  <2>5. QED
    BY <1>4, <2>3, <2>4
<1>5. CASE c \notin H /\ AboveOf(gs, n) \cap names = {}
  BY <1>1, <1>5 DEF Reached
<1>6. QED
  BY <1>3, <1>4, <1>5

LEMMA WalkAll ==
  ASSUME NEW gs, WellFormed(gs), NEW c \in DOMAIN gs
  PROVE  WalkOf(gs, DOMAIN gs, c, {}) # Missing <=> Complete(gs, gs[c].name)
<1>1. ByName(gs, {}) /\ NamesIn(gs, {}) = {}
  BY DEF ByName, NamesIn
<1>2. WalkOf(gs, DOMAIN gs, c, {}) = IF Complete(gs, gs[c].name) THEN 0 ELSE Missing
  BY <1>1, WalkFinds
<1>3. QED
  BY <1>2 DEF Missing

-----------------------------------------------------------------------------
(* The fields of an object.                                                *)

SuperPlace(gs, b) == FindOf(gs, DOMAIN gs, gs[b].super)

(* f gives the fields of the classes A, which has the supers of its own. *)
Lists(gs, A, f) ==
  /\ A \in SUBSET DOMAIN gs
  /\ \A b \in A : SuperPlace(gs, b) = 0 \/ SuperPlace(gs, b) \in A
  /\ \A b \in A : f[b] = IF SuperPlace(gs, b) = 0 THEN OwnOf(gs, b)
                         ELSE OwnOf(gs, b) \o f[SuperPlace(gs, b)]

(* Among any places of classes there is one whose super's is not among them. *)
LEMMA GroundedPlaces ==
  ASSUME NEW gs, WellFormed(gs), NEW S \in SUBSET DOMAIN gs, S # {}
  PROVE  \E j \in S : SuperPlace(gs, j) = 0 \/ SuperPlace(gs, j) \in DOMAIN gs \ S
<1>1. PICK j \in S : \A k \in S : gs[k].name # gs[j].super
  BY DEF WellFormed
<1>2. SuperPlace(gs, j) = 0
      \/ (SuperPlace(gs, j) \in DOMAIN gs /\ gs[SuperPlace(gs, j)].name = gs[j].super)
  BY Find DEF SuperPlace
<1>3. QED
  BY <1>1, <1>2

LEMMA ListsExist ==
  ASSUME NEW gs, WellFormed(gs), NEW c \in DOMAIN gs
  PROVE  \E A, f : c \in A /\ Lists(gs, A, f)
<1>. DEFINE Bad == {b \in DOMAIN gs : ~ \E A, f : b \in A /\ Lists(gs, A, f)}
<1>1. SUFFICES ASSUME Bad # {} PROVE FALSE
  OBVIOUS
<1>2. PICK j \in Bad : SuperPlace(gs, j) = 0 \/ SuperPlace(gs, j) \in DOMAIN gs \ Bad
  <2>1. Bad \in SUBSET DOMAIN gs
    OBVIOUS
  <2>. HIDE DEF Bad
  <2>2. QED
    BY <1>1, <2>1, GroundedPlaces
<1>. DEFINE a == SuperPlace(gs, j)
<1>3. CASE a = 0
  <2>. DEFINE A == {j}
              f == [b \in A |-> OwnOf(gs, j)]
  <2>1. f[j] = OwnOf(gs, j)
    OBVIOUS
  <2>2. Lists(gs, A, f)
    BY <1>3, <2>1 DEF Lists
  <2>3. QED
    BY <1>2, <2>2
<1>4. CASE a # 0
  <2>1. PICK A, f : a \in A /\ Lists(gs, A, f)
    BY <1>2, <1>4
  <2>2. j \notin A
    BY <1>2, <2>1
  <2>. DEFINE B == A \cup {j}
              g == [b \in B |-> IF b = j THEN OwnOf(gs, j) \o f[a] ELSE f[b]]
  <2>3. g[j] = OwnOf(gs, j) \o f[a] /\ \A b \in A : g[b] = f[b]
    BY <2>2
  <2>. HIDE DEF g
  <2>4. g[j] = OwnOf(gs, j) \o g[a]
    BY <2>1, <2>3
  <2>5. B \in SUBSET DOMAIN gs /\ a \in B
    BY <2>1 DEF Lists
  <2>6. ASSUME NEW b \in B
        PROVE  /\ SuperPlace(gs, b) = 0 \/ SuperPlace(gs, b) \in B
               /\ g[b] = IF SuperPlace(gs, b) = 0 THEN OwnOf(gs, b)
                         ELSE OwnOf(gs, b) \o g[SuperPlace(gs, b)]
    <3>1. CASE b = j
      BY <1>4, <2>4, <2>5, <3>1
    <3>2. CASE b \in A
      BY <2>1, <2>3, <3>2 DEF Lists
    <3>3. QED
      BY <3>1, <3>2
  <2>7. Lists(gs, B, g)
    BY <2>5, <2>6 DEF Lists
  <2>8. QED
    BY <1>2, <2>7
<1>5. QED
  BY <1>3, <1>4

LEMMA ListsAlike ==
  ASSUME NEW gs, WellFormed(gs), NEW A, NEW B, NEW f, NEW g,
         Lists(gs, A, f), Lists(gs, B, g), NEW b \in A \cap B
  PROVE  f[b] = g[b]
<1>. DEFINE S == {k \in A \cap B : f[k] # g[k]}
<1>1. SUFFICES ASSUME S # {} PROVE FALSE
  OBVIOUS
<1>2. PICK j \in S : SuperPlace(gs, j) = 0 \/ SuperPlace(gs, j) \in DOMAIN gs \ S
  <2>1. S \in SUBSET DOMAIN gs
    BY DEF Lists
  <2>. HIDE DEF S
  <2>2. QED
    BY <1>1, <2>1, GroundedPlaces
<1>3. QED
  BY <1>2 DEF Lists

LEMMA FieldsUnfold ==
  ASSUME NEW gs, WellFormed(gs), NEW c \in DOMAIN gs
  PROVE  FieldsOf(gs, DOMAIN gs, c) =
           IF SuperPlace(gs, c) = 0 THEN OwnOf(gs, c)
           ELSE OwnOf(gs, c) \o FieldsOf(gs, DOMAIN gs, SuperPlace(gs, c))
<1>. DEFINE step(f, b) == IF SuperPlace(gs, b) = 0 THEN OwnOf(gs, b)
                          ELSE OwnOf(gs, b) \o f[SuperPlace(gs, b)]
            value(b) == CHOOSE v : \E A, f : b \in A /\ Lists(gs, A, f) /\ v = f[b]
            f == [b \in DOMAIN gs |-> value(b)]
            all == CHOOSE g : g = [b \in DOMAIN gs |-> step(g, b)]
<1>1. ASSUME NEW b \in DOMAIN gs PROVE f[b] = step(f, b)
  <2>1. PICK A, g : b \in A /\ Lists(gs, A, g)
    BY ListsExist
  <2>2. ASSUME NEW k \in A PROVE k \in DOMAIN gs /\ f[k] = g[k]
    <3>1. \E B, h : k \in B /\ Lists(gs, B, h) /\ value(k) = h[k]
      <4>1. \E v : \E B, h : k \in B /\ Lists(gs, B, h) /\ v = h[k]
        BY <2>1, <2>2
      <4>2. QED
        BY <4>1
    <3>2. PICK B, h : k \in B /\ Lists(gs, B, h) /\ value(k) = h[k]
      BY <3>1
    <3>3. h[k] = g[k]
      <4>1. k \in A \cap B
        BY <2>2, <3>2
      <4>2. QED
        BY <2>1, <3>2, <4>1, ListsAlike
    <3>4. k \in DOMAIN gs
      BY <2>1, <2>2 DEF Lists
    <3>5. QED
      BY <3>2, <3>3, <3>4
  <2>. HIDE DEF f
  <2>3. QED
    BY <2>1, <2>2 DEF Lists
<1>2. f = [b \in DOMAIN gs |-> step(f, b)]
  <2>1. f = [b \in DOMAIN gs |-> f[b]]
    OBVIOUS
  <2>. HIDE DEF f
  <2>2. QED
    BY <1>1, <2>1
<1>3. all = [b \in DOMAIN gs |-> step(all, b)]
  <2>. HIDE DEF f, step
  <2>1. QED
    BY <1>2
<1>4. \A b \in DOMAIN gs : FieldsOf(gs, DOMAIN gs, b) = all[b]
  BY DEF FieldsOf, SuperPlace
<1>5. SuperPlace(gs, c) = 0 \/ SuperPlace(gs, c) \in DOMAIN gs
  BY Find DEF SuperPlace
<1>6. all[c] = step(all, c)
  <2>. HIDE DEF all, step
  <2>1. QED
    BY <1>3
<1>7. QED
  <2>. HIDE DEF all
  <2>1. QED
    BY <1>4, <1>5, <1>6

Slots(gs) ==
  [name : STRING, type : STRING \ {None}, from : NamesOf(gs), static : BOOLEAN, value : Nat]

(* fs has the fields that class n and the supers of it declare, each once. *)
Declared(gs, n, fs) ==
  /\ fs \in Seq(Slots(gs))
  /\ \A j \in 1..Len(fs) :
       /\ fs[j].from \in AboveOf(gs, n)
       /\ \E k \in DOMAIN FileOf(gs, fs[j].from).fields :
            /\ fs[j].name = FileOf(gs, fs[j].from).fields[k].name
            /\ fs[j].type = FileOf(gs, fs[j].from).fields[k].type
  /\ \A m \in AboveOf(gs, n) : \A k \in DOMAIN FileOf(gs, m).fields :
       \E j \in 1..Len(fs) : fs[j].from = m /\ fs[j].name = FileOf(gs, m).fields[k].name
  /\ \A i, j \in 1..Len(fs) : fs[i].from = fs[j].from /\ fs[i].name = fs[j].name => i = j

LEMMA Concatenation ==
  ASSUME NEW S, NEW s \in Seq(S), NEW t \in Seq(S)
  PROVE  /\ s \o t \in Seq(S)
         /\ Len(s) \in Nat /\ Len(t) \in Nat
         /\ Len(s \o t) = Len(s) + Len(t)
         /\ \A j \in 1..(Len(s) + Len(t)) :
              (s \o t)[j] = IF j <= Len(s) THEN s[j] ELSE t[j - Len(s)]
  OBVIOUS

LEMMA OwnFacts ==
  ASSUME NEW gs, WellFormed(gs), NEW c \in DOMAIN gs
  PROVE  /\ Len(gs[c].fields) \in Nat
         /\ DOMAIN gs[c].fields = 1..Len(gs[c].fields)
         /\ OwnOf(gs, c) \in Seq(Slots(gs))
         /\ Len(OwnOf(gs, c)) = Len(gs[c].fields)
         /\ \A j \in 1..Len(gs[c].fields) :
              /\ OwnOf(gs, c)[j].name = gs[c].fields[j].name
              /\ OwnOf(gs, c)[j].type = gs[c].fields[j].type
              /\ OwnOf(gs, c)[j].from = gs[c].name
              /\ OwnOf(gs, c)[j].value = 0
<1>. DEFINE fields == gs[c].fields
            Fields == [name : STRING, type : STRING \ {None}, static : BOOLEAN]
            own(j) == [name |-> fields[j].name, type |-> fields[j].type, from |-> gs[c].name,
                       static |-> fields[j].static, value |-> 0]
<1>1. fields \in Seq(Fields)
  BY FileAt DEF ClassFile
<1>2. Len(fields) \in Nat /\ DOMAIN fields = 1..Len(fields)
      /\ \A j \in 1..Len(fields) : fields[j] \in Fields
  <2>. HIDE DEF fields, Fields
  <2>1. QED
    BY <1>1
<1>3. \A j \in 1..Len(fields) : own(j) \in Slots(gs)
  BY <1>2, FileAt DEF Slots
<1>4. OwnOf(gs, c) = [j \in 1..Len(fields) |-> own(j)]
  BY <1>2 DEF OwnOf
<1>5. OwnOf(gs, c) \in Seq(Slots(gs)) /\ Len(OwnOf(gs, c)) = Len(fields)
  <2>. HIDE DEF fields, own
  <2>1. QED
    BY <1>2, <1>3, <1>4
<1>6. QED
  BY <1>2, <1>4, <1>5

LEMMA DistinctFields ==
  ASSUME NEW gs, WellFormed(gs), NEW c \in DOMAIN gs,
         NEW i \in 1..Len(gs[c].fields), NEW j \in 1..Len(gs[c].fields),
         gs[c].fields[i].name = gs[c].fields[j].name
  PROVE  i = j
<1>1. i \in DOMAIN gs[c].fields /\ j \in DOMAIN gs[c].fields
  BY OwnFacts
<1>2. QED
  BY <1>1, FileAt DEF ClassFile

LEMMA OwnDeclared ==
  ASSUME NEW gs, WellFormed(gs), NEW c \in DOMAIN gs, SuperPlace(gs, c) = 0
  PROVE  Declared(gs, gs[c].name, OwnOf(gs, c))
<1>. DEFINE n == gs[c].name
            fs == OwnOf(gs, c)
<1>1. n \in NamesOf(gs) /\ FileOf(gs, n) = gs[c] /\ SuperOf(gs, n) = gs[c].super
  BY FileAt DEF SuperOf
<1>2. gs[c].super \notin NamesOf(gs)
  BY Find DEF SuperPlace
<1>3. AboveOf(gs, n) = {n}
  BY <1>1, <1>2, AboveUnfolds, NothingAbove
<1>4. fs \in Seq(Slots(gs)) /\ Len(fs) = Len(gs[c].fields)
  BY OwnFacts
<1>5. \A j \in 1..Len(fs) :
        /\ fs[j].from = n
        /\ j \in DOMAIN gs[c].fields
        /\ fs[j].name = gs[c].fields[j].name
        /\ fs[j].type = gs[c].fields[j].type
  BY OwnFacts
<1>6. \A k \in DOMAIN gs[c].fields : k \in 1..Len(fs)
  BY OwnFacts
<1>7. \A i, j \in 1..Len(fs) : fs[i].name = fs[j].name => i = j
  BY <1>4, <1>5, DistinctFields
<1>. HIDE DEF fs
<1>8. \A j \in 1..Len(fs) :
        /\ fs[j].from \in AboveOf(gs, n)
        /\ \E k \in DOMAIN FileOf(gs, fs[j].from).fields :
             /\ fs[j].name = FileOf(gs, fs[j].from).fields[k].name
             /\ fs[j].type = FileOf(gs, fs[j].from).fields[k].type
  BY <1>1, <1>3, <1>5
<1>9. \A m \in AboveOf(gs, n) : \A k \in DOMAIN FileOf(gs, m).fields :
        \E j \in 1..Len(fs) : fs[j].from = m /\ fs[j].name = FileOf(gs, m).fields[k].name
  BY <1>1, <1>3, <1>5, <1>6
<1>10. QED
  BY <1>4, <1>7, <1>8, <1>9 DEF Declared, fs

LEMMA MoreDeclared ==
  ASSUME NEW gs, WellFormed(gs), NEW c \in DOMAIN gs, SuperPlace(gs, c) # 0,
         NEW rest, Declared(gs, gs[c].super, rest)
  PROVE  Declared(gs, gs[c].name, OwnOf(gs, c) \o rest)
<1>. DEFINE n == gs[c].name
            super == gs[c].super
            own == OwnOf(gs, c)
            fs == own \o rest
            l == Len(own)
<1>1. n \in NamesOf(gs) /\ FileOf(gs, n) = gs[c] /\ SuperOf(gs, n) = super
  BY FileAt DEF SuperOf
<1>2. super \in NamesOf(gs)
  BY Find DEF SuperPlace
<1>3. AboveOf(gs, n) = {n} \cup AboveOf(gs, super) /\ n \in AboveOf(gs, n)
  BY <1>1, AboveUnfolds, AboveClosed
<1>4. n \notin AboveOf(gs, super)
  BY <1>1, <1>3, AboveAcyclic
<1>5. own \in Seq(Slots(gs)) /\ rest \in Seq(Slots(gs)) /\ l = Len(gs[c].fields)
  BY OwnFacts DEF Declared
<1>6. /\ fs \in Seq(Slots(gs)) /\ l \in Nat /\ Len(rest) \in Nat
      /\ Len(fs) = l + Len(rest)
      /\ \A j \in 1..Len(fs) : fs[j] = IF j <= l THEN own[j] ELSE rest[j - l]
  <2>. HIDE DEF own
  <2>1. /\ own \o rest \in Seq(Slots(gs))
        /\ Len(own) \in Nat /\ Len(rest) \in Nat
        /\ Len(own \o rest) = Len(own) + Len(rest)
        /\ \A j \in 1..(Len(own) + Len(rest)) :
             (own \o rest)[j] = IF j <= Len(own) THEN own[j] ELSE rest[j - Len(own)]
    BY <1>5, Concatenation
  <2>2. QED
    BY <2>1
<1>7. \A j \in 1..l :
        /\ own[j].from = n
        /\ j \in DOMAIN gs[c].fields
        /\ own[j].name = gs[c].fields[j].name
        /\ own[j].type = gs[c].fields[j].type
  BY <1>5, OwnFacts
<1>8. \A i, j \in 1..l : own[i].name = own[j].name => i = j
  BY <1>5, <1>7, DistinctFields
<1>9. \A k \in DOMAIN gs[c].fields : k \in 1..l
  BY <1>5, OwnFacts
<1>. HIDE DEF fs, own, n, super, l
<1>10. \A j \in 1..Len(fs) :
         \/ j \in 1..l /\ fs[j] = own[j]
         \/ j - l \in 1..Len(rest) /\ fs[j] = rest[j - l] /\ fs[j].from \in AboveOf(gs, super)
  <2>1. \A i \in 1..Len(rest) : rest[i].from \in AboveOf(gs, super)
    BY DEF Declared, super
  <2>2. QED
    BY <1>6, <2>1
<1>11. \A j \in 1..Len(fs) :
         /\ fs[j].from \in AboveOf(gs, n)
         /\ \E k \in DOMAIN FileOf(gs, fs[j].from).fields :
              /\ fs[j].name = FileOf(gs, fs[j].from).fields[k].name
              /\ fs[j].type = FileOf(gs, fs[j].from).fields[k].type
  <2>1. TAKE j \in 1..Len(fs)
  <2>2. CASE j \in 1..l /\ fs[j] = own[j]
    BY <1>1, <1>3, <1>7, <2>2
  <2>3. CASE j - l \in 1..Len(rest) /\ fs[j] = rest[j - l]
    <3>1. rest[j - l].from \in AboveOf(gs, super)
          /\ \E k \in DOMAIN FileOf(gs, rest[j - l].from).fields :
               /\ rest[j - l].name = FileOf(gs, rest[j - l].from).fields[k].name
               /\ rest[j - l].type = FileOf(gs, rest[j - l].from).fields[k].type
      BY <2>3 DEF Declared, super
    <3>2. QED
      BY <1>3, <2>3, <3>1
  <2>4. QED
    BY <1>10, <2>2, <2>3
<1>12. ASSUME NEW m \in AboveOf(gs, n), NEW k \in DOMAIN FileOf(gs, m).fields
       PROVE  \E j \in 1..Len(fs) : fs[j].from = m /\ fs[j].name = FileOf(gs, m).fields[k].name
  <2>1. CASE m = n
    <3>1. k \in 1..l /\ k \in 1..Len(fs)
      BY <1>1, <1>6, <1>9, <1>12, <2>1
    <3>2. fs[k] = own[k]
      BY <1>6, <3>1
    <3>3. QED
      BY <1>1, <1>7, <2>1, <3>1, <3>2
  <2>2. CASE m \in AboveOf(gs, super)
    <3>1. PICK i \in 1..Len(rest) :
            rest[i].from = m /\ rest[i].name = FileOf(gs, m).fields[k].name
      BY <1>12, <2>2 DEF Declared, super
    <3>2. i + l \in 1..Len(fs) /\ fs[i + l] = rest[i]
      BY <1>6
    <3>3. QED
      BY <3>1, <3>2
  <2>3. QED
    BY <1>3, <2>1, <2>2
<1>13. ASSUME NEW i \in 1..Len(fs), NEW j \in 1..Len(fs),
              fs[i].from = fs[j].from /\ fs[i].name = fs[j].name
       PROVE  i = j
  <2>1. CASE i \in 1..l /\ fs[i] = own[i]
    <3>1. j \in 1..l /\ fs[j] = own[j]
      BY <1>4, <1>7, <1>10, <1>13, <2>1
    <3>2. QED
      BY <1>8, <1>13, <2>1, <3>1
  <2>2. CASE i - l \in 1..Len(rest) /\ fs[i] = rest[i - l] /\ fs[i].from \in AboveOf(gs, super)
    <3>1. j - l \in 1..Len(rest) /\ fs[j] = rest[j - l]
      BY <1>4, <1>7, <1>10, <1>13, <2>2
    <3>2. i - l = j - l
      BY <1>13, <2>2, <3>1 DEF Declared
    <3>3. QED
      BY <1>6, <3>2
  <2>3. QED
    BY <1>10, <2>1, <2>2
<1>14. QED
  BY <1>6, <1>11, <1>12, <1>13 DEF Declared, n, fs, own

LEMMA FieldsDeclared ==
  ASSUME NEW gs, WellFormed(gs), NEW c \in DOMAIN gs
  PROVE  Declared(gs, gs[c].name, FieldsOf(gs, DOMAIN gs, c))
<1>. DEFINE Bad == {b \in DOMAIN gs : ~ Declared(gs, gs[b].name, FieldsOf(gs, DOMAIN gs, b))}
<1>1. SUFFICES ASSUME Bad # {} PROVE FALSE
  OBVIOUS
<1>2. PICK j \in Bad : SuperPlace(gs, j) = 0 \/ SuperPlace(gs, j) \in DOMAIN gs \ Bad
  <2>1. Bad \in SUBSET DOMAIN gs
    OBVIOUS
  <2>. HIDE DEF Bad
  <2>2. QED
    BY <1>1, <2>1, GroundedPlaces
<1>3. CASE SuperPlace(gs, j) = 0
  BY <1>2, <1>3, FieldsUnfold, OwnDeclared
<1>4. CASE SuperPlace(gs, j) # 0
  <2>. DEFINE a == SuperPlace(gs, j)
  <2>1. a \in DOMAIN gs /\ Declared(gs, gs[a].name, FieldsOf(gs, DOMAIN gs, a))
    BY <1>2, <1>4
  <2>2. gs[a].name = gs[j].super
    BY <1>4, Find DEF SuperPlace
  <2>3. QED
    BY <1>2, <1>4, <2>1, <2>2, FieldsUnfold, MoreDeclared
<1>5. QED
  BY <1>2, <1>3, <1>4

(* A new object's fields are 0. *)
LEMMA FieldsCleared ==
  ASSUME NEW gs, WellFormed(gs), NEW c \in DOMAIN gs
  PROVE  \A j \in 1..Len(FieldsOf(gs, DOMAIN gs, c)) : FieldsOf(gs, DOMAIN gs, c)[j].value = 0
<1>. DEFINE Cleared(b) ==
              \A j \in 1..Len(FieldsOf(gs, DOMAIN gs, b)) : FieldsOf(gs, DOMAIN gs, b)[j].value = 0
            Bad == {b \in DOMAIN gs : ~ Cleared(b)}
<1>1. SUFFICES ASSUME Bad # {} PROVE FALSE
  OBVIOUS
<1>2. PICK j \in Bad : SuperPlace(gs, j) = 0 \/ SuperPlace(gs, j) \in DOMAIN gs \ Bad
  <2>1. Bad \in SUBSET DOMAIN gs
    OBVIOUS
  <2>. HIDE DEF Bad
  <2>2. QED
    BY <1>1, <2>1, GroundedPlaces
<1>3. CASE SuperPlace(gs, j) = 0
  BY <1>2, <1>3, FieldsUnfold, OwnFacts
<1>4. CASE SuperPlace(gs, j) # 0
  <2>. DEFINE a == SuperPlace(gs, j)
              own == OwnOf(gs, j)
              rest == FieldsOf(gs, DOMAIN gs, a)
  <2>1. a \in DOMAIN gs /\ \A i \in 1..Len(rest) : rest[i].value = 0
    BY <1>2, <1>4
  <2>2. own \in Seq(Slots(gs)) /\ \A i \in 1..Len(own) : own[i].value = 0
    BY OwnFacts
  <2>3. rest \in Seq(Slots(gs))
    BY <2>1, FieldsDeclared DEF Declared
  <2>4. FieldsOf(gs, DOMAIN gs, j) = own \o rest
    BY <1>4, FieldsUnfold
  <2>. HIDE DEF own, rest
  <2>5. \A i \in 1..Len(own \o rest) : (own \o rest)[i].value = 0
    <3>1. TAKE i \in 1..Len(own \o rest)
    <3>2. i \in 1..(Len(own) + Len(rest)) /\ Len(own) \in Nat /\ Len(rest) \in Nat
      BY <2>2, <2>3, Concatenation
    <3>3. (own \o rest)[i] = IF i <= Len(own) THEN own[i] ELSE rest[i - Len(own)]
      BY <2>2, <2>3, <3>2, Concatenation
    <3>4. CASE i <= Len(own)
      BY <2>2, <3>2, <3>3, <3>4
    <3>5. CASE i > Len(own)
      <4>1. i - Len(own) \in 1..Len(rest)
        BY <3>2, <3>5
      <4>2. QED
        BY <2>1, <3>2, <3>3, <3>5, <4>1
    <3>6. QED
      BY <3>2, <3>4, <3>5
  <2>6. Cleared(j)
    BY <2>4, <2>5
  <2>7. QED
    BY <1>2, <2>6
<1>5. QED
  BY <1>2, <1>3, <1>4

LEMMA DeclaredFroms ==
  ASSUME NEW gs, WellFormed(gs), NEW n, NEW fs, Declared(gs, n, fs)
  PROVE  {x.from : x \in ToSet(fs)} = {m \in AboveOf(gs, n) : FileOf(gs, m).fields # <<>>}
<1>1. DOMAIN fs = 1..Len(fs)
  BY DEF Declared
<1>2. ASSUME NEW m \in AboveOf(gs, n)
      PROVE  FileOf(gs, m).fields # <<>> <=> DOMAIN FileOf(gs, m).fields # {}
  <2>1. m \in NamesOf(gs)
    BY AboveClosed
  <2>. DEFINE F == [name : STRING, type : STRING \ {None}, static : BOOLEAN]
              s == FileOf(gs, m).fields
  <2>2. s \in Seq(F)
    <3>1. ClassFile(FileOf(gs, m))
      BY <2>1, FileFacts
    <3>2. QED
      BY <3>1 DEF ClassFile
  <2>. HIDE DEF F, s
  <2>3. s # <<>> <=> DOMAIN s # {}
    <3>1. Len(s) \in Nat /\ DOMAIN s = 1..Len(s)
      BY <2>2
    <3>2. s = <<>> <=> Len(s) = 0
      BY <2>2
    <3>3. QED
      BY <3>1, <3>2
  <2>4. QED
    BY <2>3 DEF s
<1>3. ASSUME NEW x \in ToSet(fs)
      PROVE  x.from \in {m \in AboveOf(gs, n) : FileOf(gs, m).fields # <<>>}
  <2>1. PICK j \in 1..Len(fs) : x = fs[j]
    BY <1>1 DEF ToSet
  <2>2. x.from \in AboveOf(gs, n) /\ DOMAIN FileOf(gs, x.from).fields # {}
    BY <2>1 DEF Declared
  <2>3. QED
    BY <1>2, <2>2
<1>4. ASSUME NEW m \in AboveOf(gs, n), FileOf(gs, m).fields # <<>>
      PROVE  \E x \in ToSet(fs) : x.from = m
  <2>1. PICK k \in DOMAIN FileOf(gs, m).fields : TRUE
    BY <1>2, <1>4
  <2>2. PICK j \in 1..Len(fs) : fs[j].from = m
    BY <2>1 DEF Declared
  <2>3. fs[j] \in ToSet(fs)
    BY <1>1 DEF ToSet
  <2>4. QED
    BY <2>2, <2>3
<1>5. QED
  BY <1>3, <1>4

LEMMA DeclaredCount ==
  ASSUME NEW gs, NEW n, NEW fs, Declared(gs, n, fs)
  PROVE  Cardinality({<<fs[j].from, fs[j].name>> : j \in DOMAIN fs}) = Len(fs)
<1>. DEFINE T == {<<fs[j].from, fs[j].name>> : j \in DOMAIN fs}
            l == Len(fs)
            g == [j \in 1..l |-> <<fs[j].from, fs[j].name>>]
<1>1. l \in Nat /\ DOMAIN fs = 1..l
  BY DEF Declared
<1>2. \A i, j \in 1..l : g[i] = g[j] => i = j
  BY DEF Declared
<1>3. g \in [1..l -> T] /\ \A t \in T : \E j \in 1..l : g[j] = t
  BY <1>1
<1>. HIDE DEF g, T, l
<1>4. g \in Bijection(1..l, T)
  BY <1>2, <1>3 DEF Bijection, Injection, Surjection, IsInjective
<1>5. ExistsBijection(1..l, T)
  BY <1>4 DEF ExistsBijection
<1>6. Cardinality(T) = l
  BY <1>1, <1>5, FS_CountingElements
<1>7. QED
  BY <1>6 DEF T, l

-----------------------------------------------------------------------------
(* Types.                                                                  *)

LEMMA TypesLeast ==
  ASSUME NEW gs, NEW n, NEW S \in SUBSET NamesOf(gs),
         n \in NamesOf(gs) => n \in S,
         \A k \in S : ({SuperOf(gs, k)} \cup FileOf(gs, k).interfaces) \cap NamesOf(gs) \subseteq S
  PROVE  TypesOf(gs, n) \subseteq S
<1>. DEFINE next == [m \in NamesOf(gs) |-> {FileOf(gs, m).super} \cup FileOf(gs, m).interfaces]
<1>1. \A k \in S : next[k] = {SuperOf(gs, k)} \cup FileOf(gs, k).interfaces
  BY DEF SuperOf
<1>. HIDE DEF next
<1>2. Closed(gs, n, next, S)
  BY <1>1 DEF Closed
<1>3. QED
  BY <1>2, UpLeast DEF TypesOf, next

LEMMA TypesClosed ==
  ASSUME NEW gs, NEW n
  PROVE  /\ TypesOf(gs, n) \in SUBSET NamesOf(gs)
         /\ n \in NamesOf(gs) => n \in TypesOf(gs, n)
         /\ \A k \in TypesOf(gs, n) :
              ({SuperOf(gs, k)} \cup FileOf(gs, k).interfaces) \cap NamesOf(gs)
                \subseteq TypesOf(gs, n)
<1>. DEFINE next == [m \in NamesOf(gs) |-> {FileOf(gs, m).super} \cup FileOf(gs, m).interfaces]
<1>1. Closed(gs, n, next, TypesOf(gs, n))
  BY UpClosed DEF TypesOf
<1>2. \A k \in NamesOf(gs) : next[k] = {SuperOf(gs, k)} \cup FileOf(gs, k).interfaces
  BY DEF SuperOf
<1>. HIDE DEF next
<1>3. QED
  BY <1>1, <1>2 DEF Closed

LEMMA AboveAreTypes ==
  ASSUME NEW gs, NEW n
  PROVE  AboveOf(gs, n) \subseteq TypesOf(gs, n)
<1>1. \A k \in TypesOf(gs, n) :
        SuperOf(gs, k) \in NamesOf(gs) => SuperOf(gs, k) \in TypesOf(gs, n)
  BY TypesClosed
<1>2. QED
  BY <1>1, TypesClosed, AboveLeast

LEMMA TypesTransitive ==
  ASSUME NEW gs, NEW n, NEW m \in TypesOf(gs, n)
  PROVE  TypesOf(gs, m) \subseteq TypesOf(gs, n)
  BY TypesClosed, TypesLeast

(* The root is above every class whose supers were all given. *)
LEMMA RootAbove ==
  ASSUME NEW gs, WellFormed(gs), NEW n \in NamesOf(gs), Complete(gs, n)
  PROVE  Object \in AboveOf(gs, n)
<1>1. AboveOf(gs, n) \in SUBSET NamesOf(gs) /\ AboveOf(gs, n) # {}
  BY AboveClosed
<1>2. PICK k \in AboveOf(gs, n) : SuperOf(gs, k) \notin AboveOf(gs, n)
  BY <1>1, Grounded
<1>3. SuperOf(gs, k) = None
  BY <1>2, AboveClosed DEF Complete
<1>4. k = Object
  BY <1>1, <1>3, FileFacts
<1>5. QED
  BY <1>4

(* A type of such a class that is no interface is above it. *)
LEMMA TypesOfClass ==
  ASSUME NEW gs, WellFormed(gs), NEW n \in NamesOf(gs), Complete(gs, n),
         NEW m \in TypesOf(gs, n), ~ FileOf(gs, m).interface
  PROVE  m \in AboveOf(gs, n)
<1>. DEFINE S == {k \in NamesOf(gs) : k \in AboveOf(gs, n) \/ FileOf(gs, k).interface}
<1>1. S \in SUBSET NamesOf(gs) /\ n \in S
  BY AboveClosed
<1>2. ASSUME NEW k \in S, NEW i \in FileOf(gs, k).interfaces \cap NamesOf(gs) PROVE i \in S
  <2>1. PICK a \in DOMAIN gs : gs[a].name = k /\ FileOf(gs, k) = gs[a]
    BY NamePlace
  <2>2. PICK b \in DOMAIN gs : gs[b].name = i /\ FileOf(gs, i) = gs[b]
    BY NamePlace
  <2>3. gs[b].interface
    BY <1>2, <2>1, <2>2 DEF WellFormed
  <2>4. QED
    BY <2>2, <2>3
<1>3. ASSUME NEW k \in S, SuperOf(gs, k) \in NamesOf(gs) PROVE SuperOf(gs, k) \in S
  <2>1. CASE k \in AboveOf(gs, n)
    BY <1>3, <2>1, AboveClosed
  <2>2. CASE FileOf(gs, k).interface
    <3>1. SuperOf(gs, k) = Object
      BY <2>2, FileFacts DEF ClassFile, SuperOf
    <3>2. QED
      BY <1>3, <3>1, RootAbove
  <2>3. QED
    BY <2>1, <2>2
<1>4. TypesOf(gs, n) \subseteq S
  <2>1. \A k \in S : ({SuperOf(gs, k)} \cup FileOf(gs, k).interfaces) \cap NamesOf(gs) \subseteq S
    BY <1>2, <1>3
  <2>. HIDE DEF S
  <2>2. QED
    BY <1>1, <2>1, TypesLeast
<1>5. QED
  BY <1>4

(* jvm_IsInstanceOf. *)
LEMMA InstanceIs ==
  ASSUME NEW gs, WellFormed(gs), NEW c \in DOMAIN gs, Complete(gs, gs[c].name), NEW n
  PROVE  WalkOf(gs, DOMAIN gs, c, {b \in DOMAIN gs : gs[b].name = n}) # 0
           <=> n \in AboveOf(gs, gs[c].name)
<1>. DEFINE H == {b \in DOMAIN gs : gs[b].name = n}
<1>1. ByName(gs, H)
  BY DEF ByName
<1>2. NamesIn(gs, H) = {n} \cap NamesOf(gs)
  BY DEF NamesIn, NamesOf
<1>3. AboveOf(gs, gs[c].name) \in SUBSET NamesOf(gs)
  BY AboveClosed
<1>. HIDE DEF H
<1>4. CASE n \in AboveOf(gs, gs[c].name)
  <2>1. AboveOf(gs, gs[c].name) \cap NamesIn(gs, H) # {}
    BY <1>2, <1>3, <1>4
  <2>2. WalkOf(gs, DOMAIN gs, c, H) > 0
    BY <1>1, <2>1, WalkFinds
  <2>3. QED
    BY <1>4, <2>2 DEF H
<1>5. CASE n \notin AboveOf(gs, gs[c].name)
  <2>1. AboveOf(gs, gs[c].name) \cap NamesIn(gs, H) = {}
    BY <1>2, <1>3, <1>5
  <2>2. WalkOf(gs, DOMAIN gs, c, H) = 0
    BY <1>1, <2>1, WalkFinds
  <2>3. QED
    BY <1>5, <2>2 DEF H
<1>6. QED
  BY <1>4, <1>5

-----------------------------------------------------------------------------
(* The inductive invariant.                                                *)

IsSequence(s) == s \in Seq(ToSet(s))

StaticNames(file) == {f.name : f \in {g \in ToSet(file.fields) : g.static}}

NamesMade(gs, done, c) == IF c \in done THEN StaticNames(gs[c]) ELSE {}

(* A program starts only when every class was given its static fields. *)
Loaded ==
  /\ WellFormed(given)
  /\ IsSequence(sfields) /\ Len(sfields) <= Len(given)
  /\ made \subseteq Ids
  /\ made # {} \/ status # "loading" => Len(sfields) = Len(given)
  /\ status = "loading" => objects = <<>> /\ frames = <<>>
  /\ status = "running" => made = Ids /\ frames # <<>>

(* A static field that is found was never written or has what was written  *)
(* last; a class given twice has two sets of them, of which one is found.  *)
StaticsKept ==
  /\ \A c \in Ids : sfields[c] \in [NamesMade(given, made, c) -> Nat \cup {Unset}]
  /\ statics \in [DOMAIN statics -> Nat]
  /\ \A c \in made : \A f \in StaticNames(given[c]) :
       /\ <<given[c].name, f>> \in DOMAIN statics
       /\ status = "loading" => sfields[c][f] = Unset
       /\ c = FindOf(given, DOMAIN given, given[c].name) =>
            sfields[c][f] \in {Unset, statics[<<given[c].name, f>>]}

(* An object has one field for each that its class and the supers of it     *)
(* declare, with the value that was written last.                          *)
ObjectRight(gs, ob) ==
  /\ ob = [class |-> ob.class, fields |-> ob.fields, java |-> ob.java]
  /\ ob.class \in DOMAIN gs
  /\ Complete(gs, gs[ob.class].name)
  /\ Declared(gs, gs[ob.class].name, ob.fields)
  /\ ob.java \in [{<<ob.fields[j].from, ob.fields[j].name>> : j \in DOMAIN ob.fields} -> Nat]
  /\ \A j \in DOMAIN ob.fields :
       ob.fields[j].value = ob.java[<<ob.fields[j].from, ob.fields[j].name>>]

ObjectsRight == IsSequence(objects) /\ \A o \in DOMAIN objects : ObjectRight(given, objects[o])

FrameRight(gs, frame) ==
  /\ frame.as \in DOMAIN gs /\ frame.in \in DOMAIN gs
  /\ gs[frame.in].name = frame.should

FramesRight ==
  /\ IsSequence(frames) /\ Len(frames) <= MaxDepth
  /\ \A d \in DOMAIN frames : FrameRight(given, frames[d])

(* Why the process may end for want of something. *)
ReferredOf(gs) ==
  ({gs[j].super : j \in DOMAIN gs}
   \cup {f.type : f \in UNION {ToSet(gs[j].fields) : j \in DOMAIN gs}}
   \cup {k.class : k \in UNION {ToSet(gs[j].pool) : j \in DOMAIN gs}}
   \cup {Entry}) \ NoNames

HavingMethod(gs, meth) == {d \in NamesOf(gs) : meth \in DOMAIN FileOf(gs, d).methods}

LacksClass(gs) == ~(ReferredOf(gs) \subseteq NamesOf(gs))
LacksMethod(gs, c) ==
  \E i \in DOMAIN gs[c].pool :
    /\ gs[c].pool[i].kind = "method"
    /\ NearestOf(gs, gs[c].pool[i].class, HavingMethod(gs, gs[c].pool[i].name)) = None
RootHasStatic(gs) ==
  \E n \in NamesOf(gs) :
    FileOf(gs, n).super = None /\ \E f \in ToSet(FileOf(gs, n).fields) : f.static
HasNative(gs) ==
  \E j \in 2..Len(gs) :
    \E n \in AboveOf(gs, gs[j].name) : "native" \in Range(FileOf(gs, n).methods)

Reasons ==
  /\ status \in {"loading", "running", "returned", "noentry", "missing", "nomain", "misled",
                 "crashed", "exit4", "exit9", "nofield", "nomethod", "null", "wild", "nocode"}
  /\ status = "missing" => LacksClass(given)
  /\ status = "nomethod" => LacksMethod(given, frames[Len(frames)].in)
  /\ status = "nofield" => RootHasStatic(given)
  /\ status = "wild" => HasNative(given)

Inv ==
  /\ Loaded
  /\ StaticsKept
  /\ ObjectsRight
  /\ FramesRight
  /\ Reasons
  /\ ReadsRight

-----------------------------------------------------------------------------
(* Sequences that grow by one, lose one, or have one replaced.             *)

LEMMA SeqPlaces ==
  ASSUME NEW s, IsSequence(s)
  PROVE  Len(s) \in Nat /\ DOMAIN s = 1..Len(s)
  BY DEF IsSequence

LEMMA SameLength ==
  ASSUME NEW m \in Nat, NEW n \in Nat, 1..m = 1..n
  PROVE  m = n
<1>1. \A k \in Int : k \in 1..m <=> k \in 1..n
  OBVIOUS
<1>2. m \in Int /\ n \in Int /\ m + 1 \in Int /\ n + 1 \in Int
  OBVIOUS
<1>3. (m \in 1..m <=> m \in 1..n) /\ (n \in 1..m <=> n \in 1..n)
  BY <1>1, <1>2
<1>4. QED
  BY <1>3

LEMMA SeqNothing == IsSequence(<<>>) /\ Len(<<>>) = 0 /\ DOMAIN <<>> = {}
  BY DEF IsSequence

LEMMA SeqItself ==
  ASSUME NEW S, NEW t \in Seq(S)
  PROVE  IsSequence(t)
<1>1. DOMAIN t = 1..Len(t) /\ Len(t) \in Nat
  OBVIOUS
<1>2. \A j \in 1..Len(t) : t[j] \in ToSet(t)
  BY <1>1 DEF ToSet
<1>3. t = [j \in 1..Len(t) |-> t[j]]
  OBVIOUS
<1>4. QED
  BY <1>1, <1>2, <1>3 DEF IsSequence

LEMMA SeqAppend ==
  ASSUME NEW s, IsSequence(s), NEW e, NEW t, t = Append(s, e)
  PROVE  /\ IsSequence(t)
         /\ Len(t) = Len(s) + 1
         /\ DOMAIN t = DOMAIN s \cup {Len(s) + 1}
         /\ t[Len(s) + 1] = e
         /\ \A j \in DOMAIN s : t[j] = s[j]
<1>. DEFINE S == ToSet(s) \cup {e}
<1>1. s \in Seq(S)
  <2>1. s \in Seq(ToSet(s)) /\ ToSet(s) \subseteq S
    BY DEF IsSequence
  <2>. HIDE DEF S
  <2>2. QED
    BY <2>1
<1>2. e \in S
  OBVIOUS
<1>. HIDE DEF S
<1>3. t \in Seq(S) /\ Len(t) = Len(s) + 1 /\ Len(s) \in Nat
  BY <1>1, <1>2
<1>4. t[Len(s) + 1] = e /\ \A j \in 1..Len(s) : t[j] = s[j]
  BY <1>1, <1>2
<1>5. DOMAIN t = 1..Len(t) /\ DOMAIN s = 1..Len(s)
  BY <1>1, <1>3
<1>6. DOMAIN t = DOMAIN s \cup {Len(s) + 1}
  BY <1>3, <1>5
<1>7. IsSequence(t)
  BY <1>3, SeqItself
<1>8. QED
  BY <1>3, <1>4, <1>5, <1>6, <1>7

LEMMA SeqSame ==
  ASSUME NEW s, IsSequence(s), NEW t, t = [j \in DOMAIN s |-> t[j]]
  PROVE  IsSequence(t) /\ Len(t) = Len(s) /\ DOMAIN t = DOMAIN s
<1>1. Len(s) \in Nat /\ DOMAIN s = 1..Len(s)
  BY SeqPlaces
<1>2. DOMAIN t = DOMAIN s
  OBVIOUS
<1>3. t = [j \in 1..Len(s) |-> t[j]] /\ \A j \in 1..Len(s) : t[j] \in ToSet(t)
  BY <1>1, <1>2 DEF ToSet
<1>4. t \in Seq(ToSet(t)) /\ Len(t) = Len(s)
  BY <1>1, <1>3
<1>5. QED
  BY <1>2, <1>4 DEF IsSequence

LEMMA SeqFront ==
  ASSUME NEW s, IsSequence(s), s # <<>>, NEW t, t = Front(s)
  PROVE  /\ IsSequence(t)
         /\ Len(s) \in Nat \ {0} /\ Len(t) = Len(s) - 1
         /\ DOMAIN t \subseteq DOMAIN s
         /\ \A j \in DOMAIN t : t[j] = s[j]
         /\ t = <<>> <=> Len(s) = 1
<1>. DEFINE S == ToSet(s)
<1>1. s \in Seq(S)
  BY DEF IsSequence
<1>. HIDE DEF S
<1>2. Len(s) \in Nat \ {0} /\ DOMAIN s = 1..Len(s)
  BY <1>1
<1>3. t = SubSeq(s, 1, Len(s) - 1)
  BY DEF Front
<1>4. t \in Seq(S) /\ Len(t) = Len(s) - 1 /\ \A j \in 1..(Len(s) - 1) : t[j] = s[j]
  BY <1>1, <1>2, <1>3
<1>5. DOMAIN t = 1..Len(t)
  BY <1>4
<1>6. t = <<>> <=> Len(t) = 0
  BY <1>4
<1>7. IsSequence(t)
  BY <1>4, SeqItself
<1>8. QED
  BY <1>2, <1>4, <1>5, <1>6, <1>7

-----------------------------------------------------------------------------
(* The lookups, once every class is loaded.                                *)

LEMMA AllLoaded ==
  ASSUME Loaded
  PROVE  /\ made # {} \/ status # "loading" => Ids = DOMAIN given
         /\ made = DOMAIN given => Ids = DOMAIN given
         /\ Ids \subseteq DOMAIN given
         /\ Len(sfields) = Len(given) => Ids = DOMAIN given
<1>1. Len(sfields) \in Nat /\ DOMAIN sfields = 1..Len(sfields)
  BY SeqPlaces DEF Loaded
<1>2. Len(given) \in Nat /\ DOMAIN given = 1..Len(given)
  BY Places DEF Loaded
<1>3. Len(sfields) <= Len(given) /\ made \subseteq 1..Len(sfields)
  BY <1>1 DEF Loaded, Ids
<1>4. Ids \subseteq DOMAIN given
  BY <1>1, <1>2, <1>3 DEF Ids
<1>5. Len(sfields) = Len(given) => Ids = DOMAIN given
  BY <1>1, <1>2 DEF Ids
<1>6. made = DOMAIN given => Ids = DOMAIN given
  BY <1>4 DEF Loaded
<1>7. QED
  BY <1>4, <1>5, <1>6 DEF Loaded

LEMMA FindPlace ==
  ASSUME WellFormed(given), Ids = DOMAIN given, NEW n
  PROVE  /\ n \in Names => FindClass(n) \in Ids /\ FindClass(n) > 0 /\ Name(FindClass(n)) = n
         /\ n \notin Names <=> FindClass(n) = 0
         /\ FindClass(n) = FindOf(given, DOMAIN given, n)
<1>1. FindClass(n) = FindOf(given, DOMAIN given, n) /\ Names = NamesOf(given)
  BY FindIs, NamesAre
<1>2. QED
  BY <1>1, Find DEF Name

LEMMA MethodFound ==
  ASSUME WellFormed(given), Ids = DOMAIN given, NEW c \in Ids, NEW meth,
         NEW w, w = FindMethod(c, meth),
         NEW should, should = NearestOf(given, Name(c), HavingMethod(given, meth))
  PROVE  /\ w \in DOMAIN given \cup {0, Missing}
         /\ w = Missing => ~ Complete(given, Name(c))
         /\ w = 0 => should = None
         /\ w > 0 => /\ w \in DOMAIN given
                     /\ Name(w) = should
                     /\ should \in AboveOf(given, Name(c))
                     /\ meth \in DOMAIN given[w].methods
<1>. DEFINE H == {b \in DOMAIN given : meth \in DOMAIN given[b].methods}
            n == Name(c)
<1>1. w = WalkOf(given, DOMAIN given, c, H)
  BY WalkIs DEF FindMethod
<1>2. ByName(given, H)
  BY DEF ByName, WellFormed
<1>3. NamesIn(given, H) = HavingMethod(given, meth)
  <2>1. ASSUME NEW d \in NamesIn(given, H) PROVE d \in HavingMethod(given, meth)
    <3>1. PICK b \in H : d = given[b].name
      BY DEF NamesIn
    <3>2. QED
      BY <3>1, FileAt DEF HavingMethod
  <2>2. ASSUME NEW d \in HavingMethod(given, meth) PROVE d \in NamesIn(given, H)
    <3>1. PICK b \in DOMAIN given : given[b].name = d /\ FileOf(given, d) = given[b]
      BY NamePlace DEF HavingMethod
    <3>2. QED
      BY <3>1 DEF HavingMethod, NamesIn
  <2>3. QED
    BY <2>1, <2>2
<1>4. c \in DOMAIN given /\ n = given[c].name
  BY DEF Name
<1>5. \A b \in H : b \in DOMAIN given /\ meth \in DOMAIN given[b].methods
  OBVIOUS
<1>. HIDE DEF H, n
<1>6. CASE AboveOf(given, n) \cap HavingMethod(given, meth) # {}
  <2>1. w \in H /\ w > 0 /\ given[w].name = should
    BY <1>1, <1>2, <1>3, <1>4, <1>6, WalkFinds DEF n
  <2>2. should \in AboveOf(given, n)
    BY <1>6, NearestFound DEF n
  <2>3. w # 0 /\ w # Missing
    BY <2>1 DEF Missing
  <2>4. QED
    BY <1>5, <2>1, <2>2, <2>3 DEF n, Name
<1>7. CASE AboveOf(given, n) \cap HavingMethod(given, meth) = {}
  <2>1. w = IF Complete(given, n) THEN 0 ELSE Missing
    BY <1>1, <1>2, <1>3, <1>4, <1>7, WalkFinds
  <2>2. should = None
    BY <1>7, NearestFound DEF n
  <2>3. QED
    BY <2>1, <2>2 DEF n, Missing
<1>8. QED
  BY <1>6, <1>7

LEMMA LacksSuper ==
  ASSUME NEW gs, WellFormed(gs), NEW n, ~ Complete(gs, n)
  PROVE  LacksClass(gs)
<1>1. PICK k \in AboveOf(gs, n) : SuperOf(gs, k) \notin NamesOf(gs) /\ SuperOf(gs, k) # None
  BY DEF Complete
<1>2. k \in NamesOf(gs)
  BY AboveClosed
<1>3. PICK j \in DOMAIN gs : gs[j].name = k /\ FileOf(gs, k) = gs[j]
  BY <1>2, NamePlace
<1>4. gs[j].super = SuperOf(gs, k) /\ gs[j].super \notin NoNames
  BY <1>1, <1>2, <1>3, FileFacts DEF SuperOf, NoNames
<1>5. gs[j].super \in ReferredOf(gs)
  BY <1>4 DEF ReferredOf
<1>6. QED
  BY <1>1, <1>4, <1>5 DEF LacksClass

LEMMA LacksType ==
  ASSUME NEW gs, WellFormed(gs), NEW n \in NamesOf(gs),
         NEW k \in DOMAIN FileOf(gs, n).fields, NEW type,
         type = FileOf(gs, n).fields[k].type, type # "int", type \notin NamesOf(gs)
  PROVE  LacksClass(gs)
<1>1. PICK j \in DOMAIN gs : gs[j].name = n /\ FileOf(gs, n) = gs[j]
  BY NamePlace
<1>. DEFINE F == [name : STRING, type : STRING \ {None}, static : BOOLEAN]
            s == gs[j].fields
<1>2. ClassFile(gs[j])
  BY FileAt
<1>3. s \in Seq(F)
  BY <1>2 DEF ClassFile
<1>4. k \in DOMAIN s /\ s[k] \in F
  <2>1. k \in DOMAIN s
    BY <1>1
  <2>. HIDE DEF F, s
  <2>2. QED
    BY <1>3, <2>1
<1>5. type # None
  BY <1>1, <1>4
<1>6. s[k] \in ToSet(gs[j].fields) /\ s[k].type = type
  BY <1>1, <1>4 DEF ToSet
<1>7. type \in {f.type : f \in UNION {ToSet(gs[i].fields) : i \in DOMAIN gs}}
  <2>. HIDE DEF s
  <2>1. QED
    BY <1>6
<1>8. type \in ReferredOf(gs)
  BY <1>5, <1>7 DEF ReferredOf, NoNames
<1>9. QED
  BY <1>8 DEF LacksClass

LEMMA LacksConstant ==
  ASSUME NEW gs, WellFormed(gs), NEW c \in DOMAIN gs, NEW i \in DOMAIN gs[c].pool,
         gs[c].pool[i].class \notin NamesOf(gs)
  PROVE  LacksClass(gs)
<1>1. gs[c].pool[i] \in ToSet(gs[c].pool)
  BY DEF ToSet
<1>2. gs[c].pool[i].class \in {k.class : k \in UNION {ToSet(gs[j].pool) : j \in DOMAIN gs}}
  BY <1>1
<1>3. ClassFile(gs[c])
  BY FileAt
<1>4. gs[c].pool[i].class \notin NoNames
  BY <1>3 DEF ClassFile
<1>5. gs[c].pool[i].class \in ReferredOf(gs)
  BY <1>2, <1>4 DEF ReferredOf
<1>6. QED
  BY <1>5 DEF LacksClass

LEMMA LacksEntry ==
  ASSUME NEW gs, Entry \notin NamesOf(gs)
  PROVE  LacksClass(gs)
  BY ClassAssumption DEF ReferredOf, LacksClass

LEMMA MakeAnswers ==
  ASSUME WellFormed(given), Ids = DOMAIN given, NEW c \in Ids
  PROVE  /\ CanMake(c) => Complete(given, Name(c))
         /\ ~ CanMake(c) => LacksClass(given)
<1>1. Walk(c, {}) # Missing <=> Complete(given, Name(c))
  BY WalkIs, WalkAll DEF Name
<1>2. ASSUME ~ TypesFound(ToSet(AllFields(c))) PROVE LacksClass(given)
  <2>. DEFINE fs == FieldsOf(given, DOMAIN given, c)
              n == Name(c)
  <2>1. AllFields(c) = fs /\ Declared(given, n, fs)
    BY FieldsAre, FieldsDeclared DEF Name
  <2>2. DOMAIN fs = 1..Len(fs)
    BY <2>1 DEF Declared
  <2>. HIDE DEF fs, n
  <2>3. PICK f \in ToSet(fs) : f.type # "int" /\ FindClass(f.type) = 0
    BY <1>2, <2>1 DEF TypesFound
  <2>4. PICK j \in 1..Len(fs) : f = fs[j]
    BY <2>2, <2>3 DEF ToSet
  <2>5. PICK k \in DOMAIN FileOf(given, f.from).fields :
          f.type = FileOf(given, f.from).fields[k].type
    BY <2>1, <2>4 DEF Declared
  <2>6. f.from \in NamesOf(given)
    BY <2>1, <2>4, AboveClosed DEF Declared
  <2>7. f.type \notin NamesOf(given)
    BY <2>3, FindPlace, NamesAre
  <2>8. QED
    BY <2>3, <2>5, <2>6, <2>7, LacksType
<1>3. QED
  BY <1>1, <1>2, LacksSuper DEF CanMake

LEMMA Instance ==
  ASSUME WellFormed(given), Ids = DOMAIN given, ObjectsRight, NEW o \in DOMAIN objects, NEW n
  PROVE  /\ IsInstanceOf(o, n) <=> n \in AboveOf(given, Name(objects[o].class))
         /\ IsInstanceOf(o, n) => n \in Types(Name(objects[o].class))
         /\ ~ Overlooked(o, n) /\ n \in Types(Name(objects[o].class)) => IsInstanceOf(o, n)
<1>. DEFINE c == objects[o].class
            m == Name(c)
<1>1. c \in DOMAIN given /\ Complete(given, m) /\ m = given[c].name
  BY DEF ObjectsRight, ObjectRight, Name
<1>2. {b \in Ids : Name(b) = n} = {b \in DOMAIN given : given[b].name = n}
  BY DEF Name
<1>3. IsInstanceOf(o, n) <=> n \in AboveOf(given, m)
  BY <1>1, <1>2, WalkIs, InstanceIs DEF IsInstanceOf
<1>4. m \in NamesOf(given)
  BY <1>1, FileAt
<1>. HIDE DEF m
<1>5. Types(m) = TypesOf(given, m)
  BY TypesAre
<1>6. ASSUME ~ Overlooked(o, n), n \in TypesOf(given, m), ~ IsInstanceOf(o, n) PROVE FALSE
  <2>1. n \in NamesOf(given)
    BY <1>6, TypesClosed
  <2>2. ~ FileOf(given, n).interface
    BY <1>6, <2>1, NamesAre, FileIs DEF Overlooked
  <2>3. n \in AboveOf(given, m)
    BY <1>1, <1>4, <1>6, <2>2, TypesOfClass
  <2>4. QED
    BY <1>3, <1>6, <2>3
<1>7. n \in AboveOf(given, m) => n \in TypesOf(given, m)
  BY AboveAreTypes
<1>8. QED
  BY <1>3, <1>5, <1>6, <1>7 DEF m

LEMMA WalkPlace ==
  ASSUME NEW gs, WellFormed(gs), NEW H, ByName(gs, H), NEW n \in NamesOf(gs),
         AboveOf(gs, n) \cap NamesIn(gs, H) # {}
  PROVE  WalkOf(gs, DOMAIN gs, FindOf(gs, DOMAIN gs, n), H)
           = FindOf(gs, DOMAIN gs, NearestOf(gs, n, NamesIn(gs, H)))
<1>. DEFINE c == FindOf(gs, DOMAIN gs, n)
<1>1. c \in DOMAIN gs /\ gs[c].name = n
  BY Find
<1>. HIDE DEF c
<1>2. WalkOf(gs, DOMAIN gs, c, H) = Reached(gs, c, H)
  BY <1>1, WalkReaches
<1>3. CASE c \in H
  <2>1. n \in NamesIn(gs, H)
    BY <1>1, <1>3, InNames
  <2>2. NearestOf(gs, n, NamesIn(gs, H)) = n
    BY <2>1, NearestHere
  <2>3. QED
    BY <1>2, <1>3, <2>2 DEF Reached, c
<1>4. CASE c \notin H
  BY <1>1, <1>2, <1>4 DEF Reached, c
<1>5. QED
  BY <1>3, <1>4

LEMMA DeclaresStatic ==
  ASSUME NEW n, NEW f
  PROVE  Declares(n, TRUE, f) <=> f \in StaticNames(FileOf(given, n))
<1>1. File(n) = FileOf(given, n)
  BY FileIs
<1>2. ASSUME Declares(n, TRUE, f) PROVE f \in StaticNames(FileOf(given, n))
  <2>1. PICK j \in DOMAIN File(n).fields :
          File(n).fields[j].name = f /\ File(n).fields[j].static = TRUE
    BY <1>2 DEF Declares
  <2>2. QED
    BY <1>1, <2>1 DEF StaticNames, ToSet
<1>3. ASSUME f \in StaticNames(FileOf(given, n)) PROVE Declares(n, TRUE, f)
  BY <1>1, <1>3 DEF StaticNames, ToSet, Declares
<1>4. QED
  BY <1>2, <1>3

StaticIn(n, f) == Home(n, TRUE, f)

(* A static field is found where the language has it, but for the root. *)
LEMMA StaticFound ==
  ASSUME WellFormed(given), Ids = DOMAIN given, made = Ids, StaticsKept,
         NEW n, NEW f, NEW home, home = StaticIn(n, f), home # None,
         NEW c, c = IF FindClass(n) = 0 THEN Missing ELSE FindStatic(FindClass(n), f)
  PROVE  /\ c = Missing => LacksClass(given)
         /\ c = 0 => RootHasStatic(given)
         /\ c # Missing /\ c # 0 =>
              /\ c \in DOMAIN given /\ c > 0
              /\ c = FindOf(given, DOMAIN given, home)
              /\ given[c].name = home /\ home \in NamesOf(given)
              /\ f \in StaticNames(given[c])
<1>. DEFINE Decl == {d \in NamesOf(given) : f \in StaticNames(FileOf(given, d))}
            H == {b \in DOMAIN given : given[b].super # None /\ f \in StaticNames(given[b])}
            names == {d \in Decl : SuperOf(given, d) # None}
<1>1. home = NearestOf(given, n, Decl)
  <2>1. {d \in Names : Declares(d, TRUE, f)} = Decl
    BY DeclaresStatic, NamesAre
  <2>2. QED
    BY <2>1, NearestIs DEF Home, StaticIn
<1>2. AboveOf(given, n) \cap Decl # {}
      /\ home \in AboveOf(given, n) \cap Decl
      /\ AboveOf(given, n) \cap Decl \subseteq AboveOf(given, home)
  <2>. HIDE DEF Decl
  <2>1. AboveOf(given, n) \cap Decl # {}
    BY <1>1, NearestFound
  <2>2. /\ NearestOf(given, n, Decl) \in AboveOf(given, n) \cap Decl
        /\ AboveOf(given, n) \cap Decl \subseteq AboveOf(given, NearestOf(given, n, Decl))
    BY <2>1, NearestFound
  <2>3. QED
    BY <1>1, <2>1, <2>2
<1>3. n \in NamesOf(given)
  BY <1>2, NothingAbove
<1>4. FindClass(n) = FindOf(given, DOMAIN given, n) /\ FindClass(n) # 0
      /\ FindClass(n) \in DOMAIN given /\ given[FindClass(n)].name = n
  BY <1>3, FindPlace, NamesAre DEF Name
<1>5. c = WalkOf(given, DOMAIN given, FindOf(given, DOMAIN given, n), H)
  <2>1. {b \in Ids : given[b].super # None /\ f \in DOMAIN sfields[b]} = H
    BY DEF StaticsKept, NamesMade
  <2>2. QED
    BY <1>4, <2>1, WalkIs DEF FindStatic
<1>6. ByName(given, H)
  BY DEF ByName, WellFormed
<1>7. NamesIn(given, H) = names
  <2>1. ASSUME NEW d \in NamesIn(given, H) PROVE d \in names
    <3>1. PICK b \in H : d = given[b].name
      BY DEF NamesIn
    <3>2. QED
      BY <3>1, FileAt DEF SuperOf
  <2>2. ASSUME NEW d \in names PROVE d \in NamesIn(given, H)
    <3>1. PICK b \in DOMAIN given : given[b].name = d /\ FileOf(given, d) = given[b]
      BY NamePlace
    <3>2. QED
      BY <3>1 DEF SuperOf, NamesIn
  <2>3. QED
    BY <2>1, <2>2
<1>8. \A b \in H : b \in DOMAIN given /\ f \in StaticNames(given[b])
  OBVIOUS
<1>9. \A d \in Decl : f \in StaticNames(FileOf(given, d)) /\ d \in NamesOf(given)
  OBVIOUS
<1>10. \A d \in Decl : d \in names <=> SuperOf(given, d) # None
  OBVIOUS
<1>11. names \subseteq Decl
  OBVIOUS
<1>. HIDE DEF H, names, Decl
<1>12. CASE AboveOf(given, n) \cap names = {}
  <2>1. c = IF Complete(given, n) THEN 0 ELSE Missing
    BY <1>4, <1>5, <1>6, <1>7, <1>12, WalkFinds
  <2>2. SuperOf(given, home) = None /\ f \in StaticNames(FileOf(given, home))
        /\ home \in NamesOf(given)
    BY <1>2, <1>9, <1>10, <1>12
  <2>3. RootHasStatic(given)
    BY <2>2 DEF RootHasStatic, StaticNames, SuperOf
  <2>4. c = Missing => LacksClass(given)
    BY <2>1, LacksSuper DEF Missing
  <2>5. c = 0 \/ c = Missing
    BY <2>1
  <2>6. QED
    BY <2>3, <2>4, <2>5
<1>13. CASE AboveOf(given, n) \cap names # {}
  <2>. DEFINE d == NearestOf(given, n, names)
  <2>1. d \in AboveOf(given, n) \cap names
        /\ AboveOf(given, n) \cap names \subseteq AboveOf(given, d)
    BY <1>13, NearestFound
  <2>2. d \in NamesOf(given) /\ d \in Decl /\ SuperOf(given, d) # None /\ d # Object
    <3>1. d \in NamesOf(given) /\ d \in Decl
      BY <1>9, <1>11, <2>1
    <3>2. QED
      BY <1>10, <2>1, <3>1, FileFacts
  <2>. HIDE DEF d
  <2>3. ASSUME NEW e \in AboveOf(given, n) \cap Decl PROVE e \in AboveOf(given, d)
    <3>1. CASE e \in names
      BY <2>1, <3>1
    <3>2. CASE e \notin names
      <4>1. e \in NamesOf(given) /\ SuperOf(given, e) = None
        BY <1>9, <1>10, <3>2
      <4>2. SuperOf(given, e) \notin NamesOf(given)
        BY <4>1, FileFacts DEF NoNames
      <4>3. AboveOf(given, e) = {e}
        BY <4>1, <4>2, AboveUnfolds, NothingAbove
      <4>4. d # e
        BY <2>2, <4>1
      <4>5. QED
        BY <2>1, <2>3, <4>3, <4>4, AboveChain
    <3>3. QED
      BY <3>1, <3>2
  <2>4. home = d
    BY <1>1, <2>1, <2>2, <2>3, NearestUnique
  <2>5. c = FindOf(given, DOMAIN given, d)
    BY <1>3, <1>5, <1>6, <1>7, <1>13, WalkPlace DEF d
  <2>6. c \in H /\ c > 0 /\ given[c].name = d
    BY <1>4, <1>5, <1>6, <1>7, <1>13, WalkFinds DEF d
  <2>7. c # Missing /\ c # 0
    BY <2>6 DEF Missing
  <2>8. c \in DOMAIN given /\ f \in StaticNames(given[c])
    BY <1>8, <2>6
  <2>9. QED
    BY <2>2, <2>4, <2>5, <2>6, <2>7, <2>8
<1>14. QED
  BY <1>12, <1>13

-----------------------------------------------------------------------------
(* The steps of main, and the ways the process ends.                       *)

LEMMA InitInv == Init => Inv
<1>. SUFFICES ASSUME Init PROVE Inv
  OBVIOUS
<1>1. WellFormed(given)
  BY ClassAssumption DEF Init
<1>2. Len(given) \in Nat
  BY <1>1, Places
<1>3. Loaded
  BY <1>1, <1>2, SeqNothing DEF Init, Loaded, Ids
<1>4. StaticsKept
  BY SeqNothing DEF Init, StaticsKept, Ids
<1>5. ObjectsRight /\ FramesRight
  BY SeqNothing, BundleAssumption DEF Init, ObjectsRight, FramesRight
<1>6. Reasons /\ ReadsRight
  BY DEF Init, Reasons, ReadsRight
<1>7. QED
  BY <1>3, <1>4, <1>5, <1>6 DEF Inv

LEMMA StaticsUnchanged ==
  ASSUME StaticsKept, UNCHANGED <<given, sfields, made, statics>>,
         status # "loading" => status' # "loading"
  PROVE  StaticsKept'
  BY DEF StaticsKept, Ids

LEMMA ObjectsUnchanged ==
  ASSUME ObjectsRight, UNCHANGED <<given, objects>>
  PROVE  ObjectsRight'
  BY DEF ObjectsRight

LEMMA FramesUnchanged ==
  ASSUME FramesRight, UNCHANGED <<given, frames>>
  PROVE  FramesRight'
  BY DEF FramesRight

LEMMA EndsInv ==
  ASSUME Inv, Ids = DOMAIN given, NEW how, Ends(how),
         how \in {"returned", "noentry", "missing", "nomain", "misled", "crashed", "exit4", "exit9",
                  "nofield", "nomethod", "null", "wild", "nocode"},
         how = "missing" => LacksClass(given),
         how = "nomethod" => LacksMethod(given, frames[Len(frames)].in),
         how = "nofield" => RootHasStatic(given),
         how = "wild" => HasNative(given)
  PROVE  Inv'
<1>1. Len(sfields) = Len(given)
  <2>1. Len(sfields) \in Nat /\ DOMAIN sfields = 1..Len(sfields)
    BY SeqPlaces DEF Inv, Loaded
  <2>2. Len(given) \in Nat /\ DOMAIN given = 1..Len(given)
    BY Places DEF Inv, Loaded
  <2>3. 1..Len(sfields) = 1..Len(given)
    BY <2>1, <2>2 DEF Ids
  <2>4. QED
    BY <2>1, <2>2, <2>3, SameLength
<1>2. Loaded'
  BY <1>1 DEF Inv, Loaded, Ends, Ids
<1>3. StaticsKept'
  BY StaticsUnchanged DEF Inv, Ends
<1>4. ObjectsRight' /\ FramesRight'
  BY ObjectsUnchanged, FramesUnchanged DEF Inv, Ends
<1>5. Reasons' /\ ReadsRight'
  BY DEF Inv, Reasons, ReadsRight, Ends
<1>6. QED
  BY <1>2, <1>3, <1>4, <1>5 DEF Inv

LEMMA LoadInv ==
  ASSUME Inv, Load
  PROVE  Inv'
<1>. DEFINE none == [f \in {} |-> 0]
<1>1. /\ IsSequence(sfields') /\ Len(sfields') = Len(sfields) + 1
      /\ DOMAIN sfields' = DOMAIN sfields \cup {Len(sfields) + 1}
      /\ sfields'[Len(sfields) + 1] = none
      /\ \A c \in DOMAIN sfields : sfields'[c] = sfields[c]
  <2>. HIDE DEF none
  <2>1. IsSequence(sfields) /\ sfields' = Append(sfields, none)
    BY DEF Inv, Loaded, Load, none
  <2>2. /\ IsSequence(sfields') /\ Len(sfields') = Len(sfields) + 1
        /\ DOMAIN sfields' = DOMAIN sfields \cup {Len(sfields) + 1}
        /\ sfields'[Len(sfields) + 1] = none
    BY <2>1, SeqAppend
  <2>3. \A c \in DOMAIN sfields : sfields'[c] = sfields[c]
    BY <2>1, SeqAppend
  <2>4. QED
    BY <2>2, <2>3
<1>2. Len(sfields) \in Nat /\ Len(given) \in Nat /\ Len(sfields) < Len(given)
  BY SeqPlaces, Places DEF Inv, Loaded, Load
<1>3. made = {}
  BY <1>2 DEF Inv, Loaded
<1>4. Loaded'
  BY <1>1, <1>2, <1>3 DEF Inv, Loaded, Load, Ids
<1>5. StaticsKept'
  <2>1. \A c \in DOMAIN sfields' : sfields'[c] \in [{} -> Nat \cup {Unset}]
    BY <1>1, <1>3 DEF Inv, StaticsKept, Ids, NamesMade
  <2>2. \A c \in DOMAIN sfields' : NamesMade(given', made', c) = {}
    BY <1>3 DEF Load, NamesMade
  <2>3. QED
    BY <1>3, <2>1, <2>2 DEF Inv, StaticsKept, Load, Ids
<1>6. ObjectsRight' /\ FramesRight'
  BY ObjectsUnchanged, FramesUnchanged DEF Inv, Load
<1>7. Reasons' /\ ReadsRight'
  BY DEF Inv, Reasons, ReadsRight, Load
<1>8. QED
  BY <1>4, <1>5, <1>6, <1>7 DEF Inv

LEMMA StaticTypes ==
  ASSUME WellFormed(given), Ids = DOMAIN given, NEW c \in Ids,
         ~ TypesFound({f \in ToSet(given[c].fields) : f.static})
  PROVE  LacksClass(given)
<1>1. PICK f \in ToSet(given[c].fields) : f.type # "int" /\ FindClass(f.type) = 0
  BY DEF TypesFound
<1>2. PICK k \in DOMAIN given[c].fields : f = given[c].fields[k]
  BY DEF ToSet
<1>3. FileOf(given, given[c].name) = given[c] /\ given[c].name \in NamesOf(given)
  BY FileAt
<1>4. f.type \notin NamesOf(given)
  BY <1>1, FindPlace, NamesAre
<1>5. QED
  BY <1>1, <1>2, <1>3, <1>4, LacksType

LEMMA MakeStaticsInv ==
  ASSUME Inv, NEW c \in Ids, MakeStatics(c)
  PROVE  Inv'
<1>. DEFINE fs == {f \in ToSet(given[c].fields) : f.static}
            clinit == FindMethod(c, Clinit)
<1>1. /\ WellFormed(given) /\ status = "loading" /\ Len(sfields) = Len(given)
      /\ Ids = DOMAIN given /\ c \in DOMAIN given /\ c \notin made
      /\ UNCHANGED <<given, objects, frames, got, want>>
  BY AllLoaded DEF Inv, Loaded, MakeStatics
<1>2. StaticNames(given[c]) = {f.name : f \in fs}
  BY DEF StaticNames
<1>3. sfields[c] \in [{} -> Nat \cup {Unset}]
  BY <1>1 DEF Inv, StaticsKept, NamesMade
<1>4. ObjectsRight' /\ FramesRight' /\ ReadsRight'
  BY <1>1, ObjectsUnchanged, FramesUnchanged DEF Inv, ReadsRight
<1>5. CASE fs = {}
  <2>1. made' = made \cup {c} /\ UNCHANGED <<sfields, statics, initialised, status>>
    BY <1>5 DEF MakeStatics
  <2>2. Loaded'
    BY <1>1, <2>1 DEF Inv, Loaded, Ids
  <2>3. StaticNames(given[c]) = {}
    BY <1>2, <1>5
  <2>4. StaticsKept'
    <3>1. \A b \in Ids : NamesMade(given, made', b) = NamesMade(given, made, b)
      BY <1>1, <2>1, <2>3 DEF NamesMade
    <3>2. QED
      BY <1>1, <2>1, <2>3, <3>1 DEF Inv, StaticsKept, Ids
  <2>5. Reasons'
    BY <1>1, <2>1 DEF Inv, Reasons
  <2>6. QED
    BY <1>4, <2>2, <2>4, <2>5 DEF Inv
<1>6. CASE fs # {} /\ (~ TypesFound(fs) \/ clinit = Missing)
  <2>1. status' = "missing" /\ UNCHANGED <<sfields, made, statics, initialised>>
    BY <1>6 DEF MakeStatics
  <2>2. LacksClass(given)
    <3>1. ~ TypesFound(fs) => LacksClass(given)
      BY <1>1, StaticTypes
    <3>2. clinit = Missing => ~ Complete(given, Name(c))
      BY <1>1, MethodFound
    <3>3. QED
      BY <1>1, <1>6, <3>1, <3>2, LacksSuper
  <2>3. Ends("missing")
    BY <1>1, <2>1 DEF Ends
  <2>4. QED
    BY <1>1, <2>2, <2>3, EndsInv
<1>7. CASE fs # {} /\ TypesFound(fs) /\ clinit # Missing
  <2>. DEFINE names == StaticNames(given[c])
              unset == [n \in names |-> Unset]
  <2>1. /\ made' = made \cup {c} /\ UNCHANGED status
        /\ sfields' = [sfields EXCEPT ![c] = unset]
        /\ statics' = [x \in DOMAIN statics \cup {<<Name(c), f.name>> : f \in fs} |-> 0]
    BY <1>2, <1>7 DEF MakeStatics
  <2>2. \A f \in names : <<given[c].name, f>> \in DOMAIN statics'
    BY <1>2, <2>1 DEF Name
  <2>3. /\ DOMAIN statics \subseteq DOMAIN statics'
        /\ \A x \in DOMAIN statics' : statics'[x] = 0
        /\ statics' \in [DOMAIN statics' -> Nat]
    BY <2>1
  <2>4. /\ IsSequence(sfields') /\ Len(sfields') = Len(sfields) /\ DOMAIN sfields' = DOMAIN sfields
        /\ sfields'[c] = unset
        /\ \A b \in DOMAIN sfields \ {c} : sfields'[b] = sfields[b]
    <3>. HIDE DEF unset
    <3>1. IsSequence(sfields) /\ c \in DOMAIN sfields
      BY DEF Inv, Loaded, Ids
    <3>2. DOMAIN sfields' = DOMAIN sfields /\ sfields' = [b \in DOMAIN sfields |-> sfields'[b]]
      BY <2>1
    <3>3. IsSequence(sfields') /\ Len(sfields') = Len(sfields)
      BY <3>1, <3>2, SeqSame
    <3>4. sfields'[c] = unset /\ \A b \in DOMAIN sfields \ {c} : sfields'[b] = sfields[b]
      BY <2>1, <3>1
    <3>5. QED
      BY <3>2, <3>3, <3>4
  <2>5. unset \in [names -> Nat \cup {Unset}] /\ \A f \in names : unset[f] = Unset
    OBVIOUS
  <2>. HIDE DEF unset, names
  <2>6. Loaded'
    BY <1>1, <2>1, <2>4 DEF Inv, Loaded, Ids
  <2>7. \A b \in Ids' : sfields'[b] \in [NamesMade(given', made', b) -> Nat \cup {Unset}]
    <3>1. TAKE b \in Ids'
    <3>2. CASE b = c
      <4>1. NamesMade(given', made', b) = names
        BY <1>1, <2>1, <3>2 DEF names, NamesMade
      <4>2. QED
        BY <2>4, <2>5, <3>2, <4>1
    <3>3. CASE b # c
      <4>1. NamesMade(given', made', b) = NamesMade(given, made, b)
        BY <1>1, <2>1, <3>3 DEF NamesMade
      <4>2. QED
        BY <2>4, <3>3, <4>1 DEF Inv, StaticsKept, Ids
    <3>4. QED
      BY <3>2, <3>3
  <2>8. \A b \in made' : \A f \in StaticNames(given'[b]) :
          <<given'[b].name, f>> \in DOMAIN statics' /\ sfields'[b][f] = Unset
    <3>. TAKE b \in made'
    <3>1. TAKE f \in StaticNames(given'[b])
    <3>2. CASE b = c
      BY <1>1, <2>2, <2>4, <2>5, <3>2 DEF names
    <3>3. CASE b # c
      BY <1>1, <2>1, <2>3, <2>4, <3>3 DEF Inv, Loaded, StaticsKept, Ids
    <3>4. QED
      BY <3>2, <3>3
  <2>9. StaticsKept'
    <3>1. \A b \in made' : \A f \in StaticNames(given'[b]) :
            /\ <<given'[b].name, f>> \in DOMAIN statics'
            /\ status' = "loading" => sfields'[b][f] = Unset
            /\ b = FindOf(given', DOMAIN given', given'[b].name) =>
                 sfields'[b][f] \in {Unset, statics'[<<given'[b].name, f>>]}
      BY <2>8
    <3>2. statics' \in [DOMAIN statics' -> Nat]
      BY <2>3
    <3>3. QED
      BY <2>7, <3>1, <3>2 DEF StaticsKept
  <2>10. Reasons'
    BY <1>1, <2>1 DEF Inv, Reasons
  <2>11. QED
    BY <1>4, <2>6, <2>9, <2>10 DEF Inv
<1>8. QED
  BY <1>5, <1>6, <1>7

-----------------------------------------------------------------------------
(* New objects and new frames.                                             *)

LEMMA NewObjectRight ==
  ASSUME WellFormed(given), Ids = DOMAIN given, NEW c \in Ids, CanMake(c)
  PROVE  ObjectRight(given, NewObject(c))
<1>. DEFINE fs == FieldsOf(given, DOMAIN given, c)
            ob == NewObject(c)
<1>1. AllFields(c) = fs
  BY FieldsAre
<1>2. Declared(given, given[c].name, fs)
  BY FieldsDeclared
<1>3. \A j \in 1..Len(fs) : fs[j].value = 0
  BY FieldsCleared
<1>4. DOMAIN fs = 1..Len(fs)
  BY <1>2 DEF Declared
<1>5. Complete(given, given[c].name)
  BY MakeAnswers DEF Name
<1>6. ob = [class |-> c, fields |-> fs,
            java |-> [x \in {<<fs[j].from, fs[j].name>> : j \in DOMAIN fs} |-> 0]]
  BY <1>1 DEF NewObject
<1>. HIDE DEF ob, fs
<1>7. /\ ob.class = c /\ ob.fields = fs
      /\ ob.java = [x \in {<<fs[j].from, fs[j].name>> : j \in DOMAIN fs} |-> 0]
      /\ ob = [class |-> ob.class, fields |-> ob.fields, java |-> ob.java]
  BY <1>6
<1>8. ob.java \in [{<<ob.fields[j].from, ob.fields[j].name>> : j \in DOMAIN ob.fields} -> Nat]
  BY <1>7
<1>9. \A j \in DOMAIN ob.fields :
        ob.fields[j].value = ob.java[<<ob.fields[j].from, ob.fields[j].name>>]
  BY <1>3, <1>4, <1>7
<1>10. QED
  BY <1>2, <1>5, <1>7, <1>8, <1>9 DEF ObjectRight, ob

LEMMA ObjectAdded ==
  ASSUME ObjectsRight, NEW ob, ObjectRight(given, ob), given' = given,
         objects' = Append(objects, ob)
  PROVE  ObjectsRight'
<1>1. IsSequence(objects)
  BY DEF ObjectsRight
<1>2. /\ IsSequence(objects') /\ DOMAIN objects' = DOMAIN objects \cup {Len(objects) + 1}
      /\ objects'[Len(objects) + 1] = ob
  BY <1>1, SeqAppend
<1>3. \A o \in DOMAIN objects : objects'[o] = objects[o]
  BY <1>1, SeqAppend
<1>4. \A o \in DOMAIN objects' : ObjectRight(given, objects'[o])
  BY <1>2, <1>3 DEF ObjectsRight
<1>5. QED
  BY <1>2, <1>4 DEF ObjectsRight

LEMMA FrameAdded ==
  ASSUME FramesRight, NEW frame, FrameRight(given, frame), given' = given,
         Len(frames) < MaxDepth, frames' = Append(frames, frame)
  PROVE  FramesRight' /\ frames' # <<>>
<1>1. IsSequence(frames) /\ Len(frames) \in Nat
  BY SeqPlaces DEF FramesRight
<1>2. /\ IsSequence(frames') /\ DOMAIN frames' = DOMAIN frames \cup {Len(frames) + 1}
      /\ frames'[Len(frames) + 1] = frame
  BY <1>1, SeqAppend
<1>3. \A d \in DOMAIN frames : frames'[d] = frames[d]
  BY <1>1, SeqAppend
<1>4. \A d \in DOMAIN frames' : FrameRight(given, frames'[d])
  BY <1>2, <1>3 DEF FramesRight
<1>5. Len(frames') = Len(frames) + 1
  BY <1>1, SeqAppend
<1>6. Len(frames') <= MaxDepth
  BY <1>1, <1>5, BundleAssumption
<1>7. frames' # <<>>
  BY <1>2, SeqNothing
<1>8. QED
  BY <1>2, <1>4, <1>6, <1>7 DEF FramesRight

(* The method that is found is the one that should run. *)
LEMMA FrameFound ==
  ASSUME WellFormed(given), Ids = DOMAIN given, NEW c \in Ids, NEW meth, HasCode(c, meth)
  PROVE  FrameRight(given, Frame(c, meth, Selected(Name(c), meth)))
<1>. DEFINE w == FindMethod(c, meth)
            should == NearestOf(given, Name(c), HavingMethod(given, meth))
<1>1. w > 0
  BY DEF HasCode
<1>2. w \in DOMAIN given /\ Name(w) = should
  BY <1>1, MethodFound
<1>3. Selected(Name(c), meth) = should
  <2>1. {d \in Names : meth \in DOMAIN File(d).methods} = HavingMethod(given, meth)
    BY NamesAre, FileIs DEF HavingMethod
  <2>2. QED
    BY <2>1, NearestIs DEF Selected
<1>4. Frame(c, meth, should) = [as |-> c, in |-> w, should |-> should]
  BY DEF Frame
<1>5. QED
  BY <1>2, <1>3, <1>4 DEF FrameRight, Name

LEMMA NoEntryInv ==
  ASSUME Inv, NoEntry
  PROVE  Inv'
<1>1. status = "loading" /\ made = DOMAIN given /\ Ends("noentry")
  BY DEF NoEntry
<1>2. Ids = DOMAIN given
  BY <1>1, AllLoaded DEF Inv, Loaded
<1>3. QED
  BY <1>1, <1>2, EndsInv

LEMMA StartInv ==
  ASSUME Inv, Start
  PROVE  Inv'
<1>. DEFINE c == FindClass(Entry)
            frame == Frame(c, "main", Selected(Entry, "main"))
<1>1. /\ WellFormed(given) /\ status = "loading" /\ made = DOMAIN given
      /\ Ids = DOMAIN given /\ objects = <<>> /\ frames = <<>>
      /\ UNCHANGED <<given, sfields, made, statics, got, want>>
  BY AllLoaded DEF Inv, Loaded, Start, Ends
<1>2. CASE c = 0 \/ ~ CanMake(c)
  <2>1. Ends("missing")
    BY <1>2 DEF Start
  <2>2. c = 0 => LacksClass(given)
    BY <1>1, FindPlace, NamesAre, LacksEntry
  <2>3. c # 0 => c \in Ids
    BY <1>1, FindPlace
  <2>4. LacksClass(given)
    BY <1>1, <1>2, <2>2, <2>3, MakeAnswers
  <2>5. QED
    BY <1>1, <2>1, <2>4, EndsInv
<1>3. CASE c # 0 /\ CanMake(c)
  <2>1. c \in Ids /\ Name(c) = Entry
    BY <1>1, <1>3, FindPlace
  <2>2. CASE ~ HasCode(c, "main")
    <3>1. Ends("nomain")
      BY <1>3, <2>2 DEF Start
    <3>2. QED
      BY <1>1, <3>1, EndsInv
  <2>3. CASE HasCode(c, "main")
    <3>1. /\ objects' = <<NewObject(c)>> /\ frames' = <<frame>> /\ status' = "running"
      BY <1>3, <2>3 DEF Start
    <3>2. ObjectRight(given, NewObject(c)) /\ FrameRight(given, frame)
      BY <1>1, <1>3, <2>1, <2>3, NewObjectRight, FrameFound
    <3>. HIDE DEF c, frame
    <3>3. objects' = Append(objects, NewObject(c)) /\ frames' = Append(frames, frame)
      BY <1>1, <3>1
    <3>4. ObjectsRight'
      BY <1>1, <3>2, <3>3, ObjectAdded DEF Inv
    <3>5. Len(frames) < MaxDepth
      BY <1>1, BundleAssumption, SeqNothing
    <3>6. FramesRight' /\ frames' # <<>>
      BY <1>1, <3>2, <3>3, <3>5, FrameAdded DEF Inv
    <3>7. Loaded'
      <4>1. made' # {} \/ status' # "loading" => Len(sfields') = Len(given')
        <5>1. Len(sfields) \in Nat /\ DOMAIN sfields = 1..Len(sfields)
          BY SeqPlaces DEF Inv, Loaded
        <5>2. Len(given) \in Nat /\ DOMAIN given = 1..Len(given)
          BY <1>1, Places
        <5>3. 1..Len(sfields) = 1..Len(given)
          BY <1>1, <5>1, <5>2 DEF Ids
        <5>4. QED
          BY <1>1, <5>1, <5>2, <5>3, SameLength
      <4>2. QED
        BY <1>1, <3>1, <3>6, <4>1 DEF Inv, Loaded, Ids
    <3>8. StaticsKept'
      BY <1>1, <3>1, StaticsUnchanged DEF Inv
    <3>9. Reasons' /\ ReadsRight'
      BY <1>1, <3>1 DEF Inv, Reasons, ReadsRight
    <3>10. QED
      BY <3>4, <3>6, <3>7, <3>8, <3>9 DEF Inv
  <2>4. QED
    BY <2>2, <2>3
<1>4. QED
  BY <1>2, <1>3

-----------------------------------------------------------------------------
(* A program that runs.                                                    *)

LEMMA RunningFacts ==
  ASSUME Inv, status = "running"
  PROVE  /\ WellFormed(given) /\ Ids = DOMAIN given /\ made = Ids
         /\ Names = NamesOf(given)
         /\ ObjectsRight /\ FramesRight /\ StaticsKept
         /\ Len(frames) \in Nat \ {0} /\ Top = frames[Len(frames)]
         /\ Top.as \in DOMAIN given /\ Top.in \in DOMAIN given
         /\ given[Top.in].name = Top.should
<1>1. WellFormed(given) /\ Ids = DOMAIN given /\ made = Ids /\ frames # <<>>
  BY AllLoaded DEF Inv, Loaded
<1>2. Len(frames) \in Nat \ {0} /\ DOMAIN frames = 1..Len(frames)
  <2>1. frames \in Seq(ToSet(frames))
    BY DEF Inv, FramesRight, IsSequence
  <2>2. QED
    BY <1>1, <2>1
<1>3. Top = frames[Len(frames)] /\ Len(frames) \in DOMAIN frames
  BY <1>2 DEF Top, Last
<1>4. FrameRight(given, Top)
  BY <1>3 DEF Inv, FramesRight
<1>5. QED
  BY <1>1, <1>2, <1>3, <1>4, NamesAre DEF Inv, FrameRight

LEMMA Constant0 ==
  ASSUME Inv, NEW i, NEW kind, Opcode(i, kind)
  PROVE  /\ status = "running" /\ Written(i) = given[Top.in].pool[i]
         /\ i \in DOMAIN given[Top.in].pool /\ Written(i).kind = kind
         /\ Written(i).class \notin NoNames
         /\ Written(i).class \notin Names => LacksClass(given)
<1>1. /\ status = "running" /\ Written(i) = given[Top.in].pool[i]
      /\ i \in DOMAIN given[Top.in].pool /\ Written(i).kind = kind
  BY DEF Opcode, Written
<1>2. Top.in \in DOMAIN given /\ WellFormed(given) /\ Names = NamesOf(given)
  BY <1>1, RunningFacts
<1>3. ClassFile(given[Top.in])
  BY <1>2, FileAt
<1>4. QED
  BY <1>1, <1>2, <1>3, LacksConstant DEF ClassFile

LEMMA Misled ==
  ASSUME Inv, status = "running", NEW how, Ends(how),
         how \in {"misled", "crashed", "null", "nocode"}
  PROVE  Inv'
  BY RunningFacts, EndsInv

LEMMA StillLoaded ==
  ASSUME Inv, status = "running", UNCHANGED <<given, sfields, made>>,
         status' = "running" => frames' # <<>>, status' # "loading"
  PROVE  Loaded'
<1>1. Len(sfields) = Len(given)
  BY DEF Inv, Loaded
<1>2. QED
  BY <1>1 DEF Inv, Loaded, Ids

LEMMA NewInv ==
  ASSUME Inv, NEW i, New(i)
  PROVE  Inv'
<1>. DEFINE c == FindClass(Written(i).class)
<1>1. Opcode(i, "class")
  BY DEF New
<1>2. status = "running" /\ (Written(i).class \notin Names => LacksClass(given))
  BY <1>1, Constant0
<1>3. WellFormed(given) /\ Ids = DOMAIN given
  BY <1>2, RunningFacts
<1>4. c = 0 => LacksClass(given)
  BY <1>2, <1>3, FindPlace
<1>5. c # 0 => c \in Ids
  BY <1>3, FindPlace
<1>6. CASE PoolMisleads(Top.as, i)
  <2>1. Ends("misled")
    BY <1>6 DEF New
  <2>2. QED
    BY <1>2, <2>1, Misled
<1>7. CASE ~ PoolMisleads(Top.as, i) /\ (c = 0 \/ ~ CanMake(c))
  <2>1. Ends("missing")
    BY <1>7 DEF New
  <2>2. LacksClass(given)
    BY <1>3, <1>4, <1>5, <1>7, MakeAnswers
  <2>3. QED
    BY <1>3, <2>1, <2>2, EndsInv
<1>8. CASE ~ PoolMisleads(Top.as, i) /\ c # 0 /\ CanMake(c)
  <2>1. /\ objects' = Append(objects, NewObject(c))
        /\ UNCHANGED <<given, sfields, made, frames, status, statics, initialised, got, want>>
    BY <1>8 DEF New
  <2>2. ObjectRight(given, NewObject(c))
    BY <1>3, <1>5, <1>8, NewObjectRight
  <2>. HIDE DEF c
  <2>3. ObjectsRight'
    BY <2>1, <2>2, ObjectAdded DEF Inv
  <2>4. Loaded'
    BY <1>2, <2>1, StillLoaded DEF Inv, Loaded
  <2>5. StaticsKept' /\ FramesRight'
    BY <2>1, StaticsUnchanged, FramesUnchanged DEF Inv
  <2>6. Reasons' /\ ReadsRight'
    BY <1>2, <2>1 DEF Inv, Reasons, ReadsRight
  <2>7. QED
    BY <2>3, <2>4, <2>5, <2>6 DEF Inv
<1>9. QED
  BY <1>6, <1>7, <1>8

(* A step that changes neither what the program keeps nor its frames. *)
LEMMA ReadInv ==
  ASSUME Inv, status = "running", UNCHANGED <<given, sfields, made, objects, frames, statics>>,
         status' \in {"running", "exit9"}, got' = want'
  PROVE  Inv'
<1>1. Loaded'
  BY StillLoaded DEF Inv, Loaded
<1>2. StaticsKept' /\ ObjectsRight' /\ FramesRight'
  BY StaticsUnchanged, ObjectsUnchanged, FramesUnchanged DEF Inv
<1>3. Reasons' /\ ReadsRight'
  BY DEF Reasons, ReadsRight
<1>4. QED
  BY <1>1, <1>2, <1>3 DEF Inv

LEMMA CheckCastInv ==
  ASSUME Inv, NEW o, NEW i, CheckCast(o, i)
  PROVE  Inv'
<1>. DEFINE n == Written(i).class
<1>1. Opcode(i, "class") /\ o \in 0..Len(objects)
  BY DEF CheckCast
<1>2. status = "running"
  BY <1>1, Constant0
<1>3. WellFormed(given) /\ Ids = DOMAIN given /\ ObjectsRight
  BY <1>2, RunningFacts
<1>4. CASE PoolMisleads(Top.as, i)
  <2>1. Ends("misled")
    BY <1>4 DEF CheckCast
  <2>2. QED
    BY <1>2, <2>1, Misled
<1>5. CASE ~ PoolMisleads(Top.as, i) /\ o = 0
  <2>1. Ends("crashed")
    BY <1>5 DEF CheckCast
  <2>2. QED
    BY <1>2, <2>1, Misled
<1>6. CASE ~ PoolMisleads(Top.as, i) /\ o # 0 /\ Overlooked(o, n)
  <2>1. Ends("misled")
    BY <1>6 DEF CheckCast
  <2>2. QED
    BY <1>2, <2>1, Misled
<1>7. CASE ~ PoolMisleads(Top.as, i) /\ o # 0 /\ ~ Overlooked(o, n)
  <2>. DEFINE is == IsInstanceOf(o, n)
              type == n \in Types(Name(objects[o].class))
  <2>1. /\ got' = IF is THEN o ELSE 0
        /\ want' = IF type THEN o ELSE 0
        /\ status' = IF is THEN "running" ELSE "exit9"
        /\ UNCHANGED <<given, sfields, made, objects, frames, statics, initialised>>
    BY <1>7 DEF CheckCast
  <2>2. o \in DOMAIN objects
    BY <1>1, <1>3, <1>7, SeqPlaces DEF ObjectsRight
  <2>3. is <=> type
    BY <1>3, <1>7, <2>2, Instance
  <2>. HIDE DEF is, type
  <2>4. got' = want' /\ status' \in {"running", "exit9"}
    BY <2>1, <2>3
  <2>5. QED
    BY <1>2, <2>1, <2>4, ReadInv
<1>8. QED
  BY <1>4, <1>5, <1>6, <1>7

-----------------------------------------------------------------------------
(* The fields of objects.                                                  *)

LEMMA Least ==
  ASSUME NEW n \in Nat, NEW cs \in SUBSET (1..n), cs # {}
  PROVE  \E c \in cs : \A b \in cs : c <= b
<1>. DEFINE ds == {n + 1 - k : k \in cs}
<1>1. ds \in SUBSET (1..n) /\ ds # {}
  <2>1. \A k \in cs : k \in 1..n /\ n + 1 - k \in 1..n
    OBVIOUS
  <2>2. QED
    BY <2>1
<1>2. PICK d \in ds : \A b \in ds : b <= d
  <2>. HIDE DEF ds
  <2>1. QED
    BY <1>1, Greatest
<1>3. PICK c \in cs : d = n + 1 - c
  BY <1>2
<1>4. ASSUME NEW b \in cs PROVE c <= b
  <2>1. n + 1 - b <= d
    BY <1>2
  <2>2. b \in 1..n /\ c \in 1..n
    OBVIOUS
  <2>3. QED
    BY <1>3, <2>1, <2>2
<1>5. QED
  BY <1>4

(* The first of s that has name f. *)
FirstNamed(s, f) ==
  LET I == {k \in 1..Len(s) : s[k].name = f} IN IF I # {} THEN Min(I) ELSE 0

LEMMA SlotIs == \A o, f : Slot(o, f) = FirstNamed(objects[o].fields, f)
  BY DEF Slot, SelectInSeq, FirstNamed

LEMMA FieldTypeIs ==
  ASSUME NEW i, NEW d, d = File(Home(Written(i).class, FALSE, Written(i).name))
  PROVE  FieldType(i, FALSE) = d.fields[FirstNamed(d.fields, Written(i).name)].type
  BY DEF FieldType, SelectInSeq, FirstNamed

(* What is selected by name has that name, where anything has. *)
LEMMA FirstOf ==
  ASSUME NEW S, NEW s \in Seq(S), NEW f, NEW j \in 1..Len(s), s[j].name = f,
         NEW w, w = FirstNamed(s, f)
  PROVE  w \in 1..Len(s) /\ s[w].name = f
<1>. DEFINE I == {k \in 1..Len(s) : s[k].name = f}
<1>1. I # {} /\ I \in SUBSET (1..Len(s)) /\ Len(s) \in Nat
  OBVIOUS
<1>2. w = Min(I)
  BY <1>1 DEF FirstNamed
<1>3. Min(I) = CHOOSE x \in I : \A y \in I : x =< y
  BY DEF Min
<1>4. \E x \in I : \A y \in I : x =< y
  <2>. HIDE DEF I
  <2>1. QED
    BY <1>1, Least
<1>5. w \in I
  BY <1>2, <1>3, <1>4
<1>6. QED
  BY <1>5

(* A field that is named and not static is one that objects of that type    *)
(* have: an interface has none.                                            *)
LEMMA FieldFound ==
  ASSUME Inv, NEW i, IsField(i, FALSE), NEW o, o # 0, Operand(o, Written(i).class),
         NEW w, w = Slot(o, Written(i).name), ~ Hidden(o, i)
  PROVE  /\ o \in DOMAIN objects /\ ObjectRight(given, objects[o])
         /\ w \in DOMAIN objects[o].fields
         /\ <<objects[o].fields[w].from, objects[o].fields[w].name>> = Meant(o, i)
         /\ objects[o].fields[w].value = objects[o].java[Meant(o, i)]
         /\ objects[o].fields[w].type = FieldType(i, FALSE)
<1>. DEFINE n == Written(i).class
            f == Written(i).name
            d == Home(n, FALSE, f)
            ob == objects[o]
            m == given[ob.class].name
            Decl == {e \in Names : Declares(e, FALSE, f)}
<1>1. status = "running" /\ n \notin NoNames /\ d # None
  BY Constant0 DEF IsField
<1>2. WellFormed(given) /\ Names = NamesOf(given) /\ ObjectsRight
  BY <1>1, RunningFacts
<1>3. o \in DOMAIN objects /\ n \in TypesOf(given, m)
  BY <1>1, TypesAre DEF Operand, NoNames, Name
<1>4. ObjectRight(given, ob)
  BY <1>2, <1>3 DEF ObjectsRight
<1>5. d = NearestOf(given, n, Decl)
  BY NearestIs DEF Home
<1>6. d \in AboveOf(given, n) /\ d \in Names /\ Declares(d, FALSE, f)
  <2>. HIDE DEF Decl
  <2>1. d \in AboveOf(given, n) \cap Decl
    BY <1>1, <1>2, <1>5, NearestFound
  <2>2. QED
    BY <2>1 DEF Decl
<1>7. PICK c \in DOMAIN given : given[c].name = d /\ FileOf(given, d) = given[c]
  BY <1>2, <1>6, NamePlace
<1>8. File(d) = given[c]
  BY <1>7, FileIs
<1>9. PICK k \in DOMAIN given[c].fields :
        given[c].fields[k].name = f /\ given[c].fields[k].static = FALSE
  BY <1>6, <1>8 DEF Declares
<1>10. ~ given[c].interface
  BY <1>2, <1>9, FileAt DEF ClassFile
<1>11. Len(given[c].fields) \in Nat /\ DOMAIN given[c].fields = 1..Len(given[c].fields)
  BY <1>2, OwnFacts
<1>. HIDE DEF Decl, d, n, f, m, ob
<1>12. d \in AboveOf(given, m)
  <2>1. d \in TypesOf(given, m)
    BY <1>3, <1>6, AboveAreTypes, TypesTransitive
  <2>2. m \in NamesOf(given) /\ Complete(given, m)
    BY <1>2, <1>4, FileAt DEF ObjectRight, m
  <2>3. QED
    BY <1>2, <1>7, <1>10, <2>1, <2>2, TypesOfClass
<1>13. Declared(given, m, ob.fields)
  BY <1>4 DEF ObjectRight, m
<1>14. PICK j \in 1..Len(ob.fields) : ob.fields[j].name = f
  BY <1>7, <1>9, <1>12, <1>13 DEF Declared
<1>15. ob.fields \in Seq(Slots(given)) /\ DOMAIN ob.fields = 1..Len(ob.fields)
  BY <1>13 DEF Declared
<1>16. w = FirstNamed(ob.fields, f)
  BY SlotIs DEF ob, f
<1>17. w \in 1..Len(ob.fields) /\ ob.fields[w].name = f
  BY <1>14, <1>15, <1>16, FirstOf
<1>18. <<ob.fields[w].from, ob.fields[w].name>> = Meant(o, i) /\ Meant(o, i) = <<d, f>>
  BY DEF Hidden, Found, Meant, ob, f, d, n
<1>19. ob.fields[w].value = ob.java[Meant(o, i)]
  BY <1>4, <1>15, <1>17, <1>18 DEF ObjectRight
<1>20. ob.fields[w].type = FieldType(i, FALSE)
  <2>1. PICK l \in DOMAIN FileOf(given, d).fields :
          /\ ob.fields[w].name = FileOf(given, d).fields[l].name
          /\ ob.fields[w].type = FileOf(given, d).fields[l].type
    <3>1. ob.fields[w].from = d
      BY <1>18
    <3>2. QED
      BY <1>13, <1>17, <3>1 DEF Declared
  <2>. DEFINE v == FirstNamed(given[c].fields, f)
  <2>2. FieldType(i, FALSE) = given[c].fields[v].type
    BY <1>8, FieldTypeIs DEF d, n, f
  <2>3. given[c].fields \in Seq([name : STRING, type : STRING \ {None}, static : BOOLEAN])
    BY <1>2, FileAt DEF ClassFile
  <2>4. l \in 1..Len(given[c].fields) /\ given[c].fields[l].name = f
    BY <1>7, <1>11, <1>17, <2>1
  <2>5. v \in 1..Len(given[c].fields) /\ given[c].fields[v].name = f
    BY <2>3, <2>4, FirstOf
  <2>. HIDE DEF v
  <2>6. v = l
    BY <1>2, <2>4, <2>5, DistinctFields
  <2>7. QED
    BY <1>7, <2>1, <2>2, <2>6
<1>21. QED
  BY <1>3, <1>4, <1>15, <1>17, <1>18, <1>19, <1>20 DEF ob

LEMMA GetFieldInv ==
  ASSUME Inv, NEW o, NEW i, GetField(o, i)
  PROVE  Inv'
<1>1. IsField(i, FALSE) /\ Operand(o, Written(i).class)
  BY DEF GetField
<1>2. status = "running"
  BY <1>1, Constant0 DEF IsField
<1>3. CASE o = 0
  <2>1. Ends("crashed")
    BY <1>3 DEF GetField
  <2>2. QED
    BY <1>2, <2>1, Misled
<1>4. CASE o # 0 /\ (PoolMisleads(objects[o].class, i) \/ Hidden(o, i))
  <2>1. Ends("misled")
    BY <1>4 DEF GetField
  <2>2. QED
    BY <1>2, <2>1, Misled
<1>5. CASE o # 0 /\ ~ PoolMisleads(objects[o].class, i) /\ ~ Hidden(o, i)
  <2>1. /\ got' = objects[o].fields[Slot(o, Written(i).name)].value
        /\ want' = objects[o].java[Meant(o, i)]
        /\ UNCHANGED <<given, sfields, made, objects, frames, status, statics, initialised>>
    BY <1>5 DEF GetField
  <2>2. got' = want'
    BY <1>1, <1>5, <2>1, FieldFound
  <2>3. QED
    BY <1>2, <2>1, <2>2, ReadInv
<1>6. QED
  BY <1>3, <1>4, <1>5

(* Only the value of a field changes: a list of fields stays one. *)
LEMMA StillDeclared ==
  ASSUME NEW gs, NEW n, NEW fs, Declared(gs, n, fs),
         NEW gives, gives \in Seq(Slots(gs)), Len(gives) = Len(fs),
         \A j \in 1..Len(fs) : /\ gives[j].from = fs[j].from
                               /\ gives[j].name = fs[j].name
                               /\ gives[j].type = fs[j].type
  PROVE  Declared(gs, n, gives)
<1>1. \A j \in 1..Len(gives) :
        /\ gives[j].from \in AboveOf(gs, n)
        /\ \E k \in DOMAIN FileOf(gs, gives[j].from).fields :
             /\ gives[j].name = FileOf(gs, gives[j].from).fields[k].name
             /\ gives[j].type = FileOf(gs, gives[j].from).fields[k].type
  <2>1. TAKE j \in 1..Len(gives)
  <2>2. /\ fs[j].from \in AboveOf(gs, n)
        /\ \E k \in DOMAIN FileOf(gs, fs[j].from).fields :
             /\ fs[j].name = FileOf(gs, fs[j].from).fields[k].name
             /\ fs[j].type = FileOf(gs, fs[j].from).fields[k].type
    BY DEF Declared
  <2>3. gives[j].from = fs[j].from /\ gives[j].name = fs[j].name /\ gives[j].type = fs[j].type
    OBVIOUS
  <2>4. QED
    BY <2>2, <2>3
<1>2. \A m \in AboveOf(gs, n) : \A k \in DOMAIN FileOf(gs, m).fields :
        \E j \in 1..Len(gives) : gives[j].from = m /\ gives[j].name = FileOf(gs, m).fields[k].name
  BY DEF Declared
<1>3. \A i, j \in 1..Len(gives) :
        gives[i].from = gives[j].from /\ gives[i].name = gives[j].name => i = j
  BY DEF Declared
<1>4. QED
  BY <1>1, <1>2, <1>3 DEF Declared

LEMMA ObjectWritten ==
  ASSUME NEW gs, NEW ob, ObjectRight(gs, ob), NEW w \in DOMAIN ob.fields, NEW key,
         key = <<ob.fields[w].from, ob.fields[w].name>>, NEW v \in Nat,
         NEW new, new = [ob EXCEPT !.fields[w].value = v, !.java[key] = v]
  PROVE  ObjectRight(gs, new)
<1>. DEFINE fs == ob.fields
            gives == [fs EXCEPT ![w] = [fs[w] EXCEPT !.value = v]]
            java == [ob.java EXCEPT ![key] = v]
            keys(s) == {<<s[j].from, s[j].name>> : j \in DOMAIN s}
<1>1. new = [class |-> ob.class, fields |-> gives, java |-> java]
  BY DEF ObjectRight
<1>2. new.class = ob.class /\ new.fields = gives /\ new.java = java
      /\ new = [class |-> new.class, fields |-> new.fields, java |-> new.java]
  BY <1>1
<1>3. /\ ob.class \in DOMAIN gs /\ Complete(gs, gs[ob.class].name)
      /\ Declared(gs, gs[ob.class].name, fs)
      /\ ob.java \in [keys(fs) -> Nat]
      /\ \A j \in DOMAIN fs : fs[j].value = ob.java[<<fs[j].from, fs[j].name>>]
  BY DEF ObjectRight
<1>4. fs \in Seq(Slots(gs)) /\ DOMAIN fs = 1..Len(fs) /\ Len(fs) \in Nat
      /\ \A i, j \in 1..Len(fs) : fs[i].from = fs[j].from /\ fs[i].name = fs[j].name => i = j
  BY <1>3 DEF Declared
<1>5. fs[w] \in Slots(gs) /\ [fs[w] EXCEPT !.value = v] \in Slots(gs)
  <2>1. fs[w] \in Slots(gs)
    BY <1>4
  <2>2. QED
    BY <2>1 DEF Slots
<1>6. gives \in Seq(Slots(gs)) /\ Len(gives) = Len(fs) /\ DOMAIN gives = DOMAIN fs
  BY <1>4, <1>5
<1>7. /\ gives[w].value = v
      /\ \A j \in DOMAIN fs : gives[j].from = fs[j].from /\ gives[j].name = fs[j].name
                              /\ gives[j].type = fs[j].type
      /\ \A j \in DOMAIN fs \ {w} : gives[j].value = fs[j].value
  BY <1>5 DEF Slots
<1>8. key \in keys(fs)
  OBVIOUS
<1>9. \A j \in DOMAIN fs \ {w} : <<fs[j].from, fs[j].name>> # key
  BY <1>4
<1>10. java \in [keys(fs) -> Nat] /\ java[key] = v
       /\ \A k \in keys(fs) \ {key} : java[k] = ob.java[k]
  <2>. HIDE DEF keys
  <2>1. QED
    BY <1>3, <1>8
<1>. HIDE DEF fs, gives, java
<1>11. keys(gives) = keys(fs)
  BY <1>6, <1>7
<1>12. \A j \in DOMAIN gives : gives[j].value = java[<<gives[j].from, gives[j].name>>]
  <2>1. TAKE j \in DOMAIN gives
  <2>2. CASE j = w
    BY <1>6, <1>7, <1>10, <2>2 DEF fs
  <2>3. CASE j # w
    <3>1. <<fs[j].from, fs[j].name>> \in keys(fs) \ {key}
      BY <1>6, <1>9, <2>3
    <3>2. QED
      BY <1>3, <1>6, <1>7, <1>10, <2>3, <3>1
  <2>4. QED
    BY <2>2, <2>3
<1>13. Declared(gs, gs[ob.class].name, gives)
  BY <1>3, <1>4, <1>6, <1>7, StillDeclared
<1>14. new.class \in DOMAIN gs /\ Complete(gs, gs[new.class].name)
       /\ Declared(gs, gs[new.class].name, new.fields)
  BY <1>2, <1>3, <1>13
<1>15. /\ new.java \in [{<<new.fields[j].from, new.fields[j].name>> : j \in DOMAIN new.fields} -> Nat]
       /\ \A j \in DOMAIN new.fields :
            new.fields[j].value = new.java[<<new.fields[j].from, new.fields[j].name>>]
  <2>1. new.fields = gives /\ new.java = java
    BY <1>2
  <2>2. new.java \in [{<<new.fields[j].from, new.fields[j].name>> : j \in DOMAIN new.fields} -> Nat]
    <3>1. new.java \in [keys(new.fields) -> Nat]
      <4>. HIDE DEF keys
      <4>1. keys(new.fields) = keys(gives)
        BY <2>1
      <4>2. QED
        BY <1>10, <1>11, <2>1, <4>1
    <3>2. QED
      BY <3>1
  <2>3. \A j \in DOMAIN new.fields :
          new.fields[j].value = new.java[<<new.fields[j].from, new.fields[j].name>>]
    BY <1>12, <2>1
  <2>4. QED
    BY <2>2, <2>3
<1>16. QED
  BY <1>2, <1>14, <1>15 DEF ObjectRight

LEMMA PutFieldInv ==
  ASSUME Inv, NEW o, NEW i, NEW v, PutField(o, i, v)
  PROVE  Inv'
<1>. DEFINE w == Slot(o, Written(i).name)
            type == objects[o].fields[w].type
            refused == type # "int" /\ v # 0 /\ ~ IsInstanceOf(v, type)
            overlooked == type # "int" /\ v # 0 /\ Overlooked(v, type)
<1>1. IsField(i, FALSE) /\ Operand(o, Written(i).class) /\ Operand(v, FieldType(i, FALSE))
  BY DEF PutField
<1>2. status = "running"
  BY <1>1, Constant0 DEF IsField
<1>3. WellFormed(given) /\ Ids = DOMAIN given /\ ObjectsRight
  BY <1>2, RunningFacts
<1>4. CASE o = 0
  <2>1. Ends("crashed")
    BY <1>4 DEF PutField
  <2>2. QED
    BY <1>2, <2>1, Misled
<1>5. CASE o # 0 /\ (PoolMisleads(Top.as, i) \/ Hidden(o, i) \/ overlooked)
  <2>1. Ends("misled")
    BY <1>5 DEF PutField
  <2>2. QED
    BY <1>2, <2>1, Misled
<1>6. CASE o # 0 /\ ~ PoolMisleads(Top.as, i) /\ ~ Hidden(o, i) /\ ~ overlooked
  <2>1. /\ o \in DOMAIN objects /\ ObjectRight(given, objects[o])
        /\ w \in DOMAIN objects[o].fields
        /\ <<objects[o].fields[w].from, objects[o].fields[w].name>> = Meant(o, i)
        /\ type = FieldType(i, FALSE)
    BY <1>1, <1>6, FieldFound
  <2>2. v \in Nat
    <3>1. DOMAIN objects = 1..Len(objects) /\ Len(objects) \in Nat
      BY <1>3, SeqPlaces DEF ObjectsRight
    <3>2. v \in 0..1 \/ v = 0 \/ v \in DOMAIN objects
      BY <1>1 DEF Operand
    <3>3. QED
      BY <3>1, <3>2
  <2>3. ~ refused
    <3>1. SUFFICES ASSUME type # "int", v # 0 PROVE IsInstanceOf(v, type)
      OBVIOUS
    <3>2. v \in DOMAIN objects /\ type \in Types(Name(objects[v].class))
      BY <1>1, <2>1, <3>1 DEF Operand
    <3>3. ~ Overlooked(v, type)
      BY <1>6, <3>1
    <3>. HIDE DEF type
    <3>4. QED
      BY <1>3, <3>2, <3>3, Instance
  <2>4. /\ objects' = [objects EXCEPT ![o].fields[w].value = v, ![o].java[Meant(o, i)] = v]
        /\ UNCHANGED <<given, sfields, made, frames, status, statics, initialised, got, want>>
    BY <1>6, <2>3 DEF PutField
  <2>. DEFINE new == [objects[o] EXCEPT !.fields[w].value = v, !.java[Meant(o, i)] = v]
  <2>5. objects' = [objects EXCEPT ![o] = new]
    BY <2>1, <2>4 DEF ObjectRight
  <2>6. ObjectRight(given, new)
    <3>. HIDE DEF w
    <3>1. QED
      BY <2>1, <2>2, ObjectWritten
  <2>. HIDE DEF new, w, type, refused, overlooked
  <2>7. ObjectsRight'
    <3>1. DOMAIN objects' = DOMAIN objects /\ objects' = [j \in DOMAIN objects |-> objects'[j]]
      BY <2>5
    <3>2. IsSequence(objects')
      BY <1>3, <3>1, SeqSame DEF ObjectsRight
    <3>3. \A j \in DOMAIN objects : objects'[j] = objects[j] \/ objects'[j] = new
      BY <2>1, <2>5
    <3>4. \A j \in DOMAIN objects' : ObjectRight(given, objects'[j])
      BY <1>3, <2>6, <3>1, <3>3 DEF ObjectsRight
    <3>5. QED
      BY <2>4, <3>2, <3>4 DEF ObjectsRight
  <2>8. Loaded'
    BY <1>2, <2>4, StillLoaded DEF Inv, Loaded
  <2>9. StaticsKept' /\ FramesRight'
    BY <2>4, StaticsUnchanged, FramesUnchanged DEF Inv
  <2>10. Reasons' /\ ReadsRight'
    BY <1>2, <2>4 DEF Inv, Reasons, ReadsRight
  <2>11. QED
    BY <2>7, <2>8, <2>9, <2>10 DEF Inv
<1>7. QED
  BY <1>4, <1>5, <1>6

-----------------------------------------------------------------------------
(* Static fields.                                                          *)

StaticNamed(i) == IsField(i, TRUE)

LEMMA StaticHomeFound ==
  ASSUME Inv, NEW i, StaticNamed(i), NEW c, c = StaticHome(i), NEW f, f = Written(i).name,
         NEW home, home = StaticIn(Written(i).class, f)
  PROVE  /\ c = Missing => LacksClass(given)
         /\ c = 0 => RootHasStatic(given)
         /\ c # Missing /\ c # 0 =>
              /\ c \in DOMAIN given /\ c = FindOf(given, DOMAIN given, home)
              /\ given[c].name = home
              /\ f \in StaticNames(given[c]) /\ f \in DOMAIN sfields[c]
              /\ <<home, f>> \in DOMAIN statics
              /\ sfields[c][f] \in {Unset, statics[<<home, f>>]}
<1>. DEFINE n == Written(i).class
<1>1. status = "running" /\ home # None /\ home = StaticIn(n, f)
  BY Constant0 DEF StaticNamed, IsField, StaticIn
<1>2. WellFormed(given) /\ Ids = DOMAIN given /\ made = Ids /\ StaticsKept
  BY <1>1, RunningFacts
<1>3. c = IF FindClass(n) = 0 THEN Missing ELSE FindStatic(FindClass(n), f)
  BY DEF StaticHome
<1>. HIDE DEF n
<1>4. /\ c = Missing => LacksClass(given)
      /\ c = 0 => RootHasStatic(given)
      /\ c # Missing /\ c # 0 =>
           /\ c \in DOMAIN given
           /\ c = FindOf(given, DOMAIN given, home)
           /\ given[c].name = home
           /\ f \in StaticNames(given[c])
  BY <1>1, <1>2, <1>3, StaticFound
<1>5. c # Missing /\ c # 0 => DOMAIN sfields[c] = StaticNames(given[c])
  BY <1>2, <1>4 DEF StaticsKept, NamesMade
<1>6. c # Missing /\ c # 0 =>
        <<home, f>> \in DOMAIN statics /\ sfields[c][f] \in {Unset, statics[<<home, f>>]}
  BY <1>2, <1>4 DEF StaticsKept
<1>7. QED
  BY <1>4, <1>5, <1>6

LEMMA GetStaticInv ==
  ASSUME Inv, NEW i, GetStatic(i)
  PROVE  Inv'
<1>. DEFINE c == StaticHome(i)
            f == Written(i).name
            home == StaticIn(Written(i).class, f)
<1>1. StaticNamed(i)
  BY DEF GetStatic, StaticNamed
<1>2. status = "running"
  BY <1>1, Constant0 DEF StaticNamed, IsField
<1>3. Ids = DOMAIN given
  BY <1>2, RunningFacts
<1>4. /\ c = Missing => LacksClass(given)
      /\ c = 0 => RootHasStatic(given)
      /\ c # Missing /\ c # 0 => sfields[c][f] \in {Unset, statics[<<home, f>>]}
  <2>1. f = Written(i).name /\ c = StaticHome(i) /\ home = StaticIn(Written(i).class, f)
    OBVIOUS
  <2>. HIDE DEF c, f, home
  <2>2. QED
    BY <1>1, <2>1, StaticHomeFound
<1>5. CASE PoolMisleads(Top.as, i)
  <2>1. Ends("misled")
    BY <1>5 DEF GetStatic
  <2>2. QED
    BY <1>2, <2>1, Misled
<1>6. CASE ~ PoolMisleads(Top.as, i) /\ c = Missing
  <2>1. Ends("missing")
    BY <1>6 DEF GetStatic
  <2>2. QED
    BY <1>3, <1>4, <1>6, <2>1, EndsInv
<1>7. CASE ~ PoolMisleads(Top.as, i) /\ c # Missing /\ c = 0
  <2>1. Ends("nofield")
    BY <1>7 DEF GetStatic
  <2>2. QED
    BY <1>3, <1>4, <1>7, <2>1, EndsInv
<1>8. CASE ~ PoolMisleads(Top.as, i) /\ c # Missing /\ c # 0 /\ sfields[c][f] = Unset
  <2>1. Ends("misled")
    BY <1>8 DEF GetStatic
  <2>2. QED
    BY <1>2, <2>1, Misled
<1>9. CASE ~ PoolMisleads(Top.as, i) /\ c # Missing /\ c # 0 /\ sfields[c][f] # Unset
  <2>1. /\ got' = sfields[c][f] /\ want' = statics[<<home, f>>]
        /\ UNCHANGED <<given, sfields, made, objects, frames, status, statics, initialised>>
    BY <1>9 DEF GetStatic, StaticIn
  <2>2. got' = want'
    BY <1>4, <1>9, <2>1
  <2>3. QED
    BY <1>2, <2>1, <2>2, ReadInv
<1>10. QED
  BY <1>5, <1>6, <1>7, <1>8, <1>9

LEMMA PutStaticInv ==
  ASSUME Inv, NEW i, NEW v, PutStatic(i, v)
  PROVE  Inv'
<1>. DEFINE c == StaticHome(i)
            f == Written(i).name
            home == StaticIn(Written(i).class, f)
<1>1. StaticNamed(i) /\ Operand(v, FieldType(i, TRUE))
  BY DEF PutStatic, StaticNamed
<1>2. status = "running"
  BY <1>1, Constant0 DEF StaticNamed, IsField
<1>3. Ids = DOMAIN given /\ made = Ids /\ ObjectsRight /\ StaticsKept /\ WellFormed(given)
  BY <1>2, RunningFacts
<1>4. /\ c = Missing => LacksClass(given)
      /\ c = 0 => RootHasStatic(given)
      /\ c # Missing /\ c # 0 =>
           /\ c \in DOMAIN given /\ c = FindOf(given, DOMAIN given, home)
           /\ given[c].name = home
           /\ f \in StaticNames(given[c]) /\ f \in DOMAIN sfields[c]
           /\ <<home, f>> \in DOMAIN statics
  <2>1. f = Written(i).name /\ c = StaticHome(i) /\ home = StaticIn(Written(i).class, f)
    OBVIOUS
  <2>. HIDE DEF c, f, home
  <2>2. QED
    BY <1>1, <2>1, StaticHomeFound
<1>5. CASE PoolMisleads(Top.as, i)
  <2>1. Ends("misled")
    BY <1>5 DEF PutStatic
  <2>2. QED
    BY <1>2, <2>1, Misled
<1>6. CASE ~ PoolMisleads(Top.as, i) /\ c = Missing
  <2>1. Ends("missing")
    BY <1>6 DEF PutStatic
  <2>2. QED
    BY <1>3, <1>4, <1>6, <2>1, EndsInv
<1>7. CASE ~ PoolMisleads(Top.as, i) /\ c # Missing /\ c = 0
  <2>1. Ends("nofield")
    BY <1>7 DEF PutStatic
  <2>2. QED
    BY <1>3, <1>4, <1>7, <2>1, EndsInv
<1>8. CASE ~ PoolMisleads(Top.as, i) /\ c # Missing /\ c # 0
  <2>1. /\ sfields' = [sfields EXCEPT ![c][f] = v]
        /\ statics' = [statics EXCEPT ![<<home, f>>] = v]
        /\ UNCHANGED <<given, made, objects, frames, status, initialised, got, want>>
    BY <1>8 DEF PutStatic, StaticIn
  <2>2. v \in Nat
    <3>1. DOMAIN objects = 1..Len(objects) /\ Len(objects) \in Nat
      BY <1>3, SeqPlaces DEF ObjectsRight
    <3>2. v \in 0..1 \/ v = 0 \/ v \in DOMAIN objects
      BY <1>1 DEF Operand
    <3>3. QED
      BY <3>1, <3>2
  <2>3. /\ c \in DOMAIN sfields /\ c = FindOf(given, DOMAIN given, home)
        /\ given[c].name = home
        /\ f \in DOMAIN sfields[c] /\ <<home, f>> \in DOMAIN statics
    BY <1>3, <1>4, <1>8 DEF Ids
  <2>. HIDE DEF c, f, home
  <2>4. /\ DOMAIN sfields' = DOMAIN sfields
        /\ sfields' = [b \in DOMAIN sfields |-> sfields'[b]]
        /\ sfields'[c] = [sfields[c] EXCEPT ![f] = v]
        /\ \A b \in DOMAIN sfields \ {c} : sfields'[b] = sfields[b]
    BY <2>1, <2>3
  <2>5. IsSequence(sfields') /\ Len(sfields') = Len(sfields)
    BY <2>4, SeqSame DEF Inv, Loaded
  <2>6. sfields'[c][f] = v /\ \A g \in DOMAIN sfields[c] \ {f} : sfields'[c][g] = sfields[c][g]
    BY <2>3, <2>4
  <2>7. \A b \in Ids : sfields'[b] \in [NamesMade(given, made, b) -> Nat \cup {Unset}]
    BY <1>3, <2>2, <2>4 DEF StaticsKept, Ids
  <2>8. /\ DOMAIN statics' = DOMAIN statics
        /\ statics' \in [DOMAIN statics -> Nat]
        /\ statics'[<<home, f>>] = v
        /\ \A k \in DOMAIN statics \ {<<home, f>>} : statics'[k] = statics[k]
    BY <1>3, <2>1, <2>2, <2>3 DEF StaticsKept
  <2>9. Loaded'
    <3>1. Len(sfields) = Len(given)
      BY <1>2 DEF Inv, Loaded
    <3>2. QED
      BY <1>2, <2>1, <2>4, <2>5, <3>1 DEF Inv, Loaded, Ids
  <2>10. ASSUME NEW b \in made, NEW g \in StaticNames(given[b])
         PROVE  /\ <<given[b].name, g>> \in DOMAIN statics'
                /\ b = FindOf(given, DOMAIN given, given[b].name) =>
                     sfields'[b][g] \in {Unset, statics'[<<given[b].name, g>>]}
    <3>1. b \in DOMAIN sfields /\ DOMAIN sfields[b] = StaticNames(given[b])
      BY <1>3 DEF StaticsKept, NamesMade, Ids
    <3>2. /\ <<given[b].name, g>> \in DOMAIN statics
          /\ b = FindOf(given, DOMAIN given, given[b].name) =>
               sfields[b][g] \in {Unset, statics[<<given[b].name, g>>]}
      BY <1>3 DEF StaticsKept
    <3>3. CASE b = c /\ g = f
      BY <2>3, <2>6, <2>8, <3>2, <3>3
    <3>4. CASE b = c /\ g # f
      <4>1. sfields'[b][g] = sfields[b][g]
        BY <2>6, <3>1, <3>4
      <4>2. QED
        BY <2>8, <3>2, <3>4, <4>1
    <3>5. CASE b # c
      <4>1. b = FindOf(given, DOMAIN given, given[b].name) => given[b].name # home
        BY <2>3, <3>5
      <4>2. sfields'[b] = sfields[b]
        BY <2>4, <3>1, <3>5
      <4>3. QED
        BY <2>8, <3>2, <4>1, <4>2
    <3>6. QED
      BY <3>3, <3>4, <3>5
  <2>11. StaticsKept'
    <3>1. \A b \in Ids' : sfields'[b] \in [NamesMade(given', made', b) -> Nat \cup {Unset}]
      BY <2>1, <2>4, <2>7 DEF Ids
    <3>2. statics' \in [DOMAIN statics' -> Nat]
      BY <2>8
    <3>3. \A b \in made' : \A g \in StaticNames(given'[b]) :
            /\ <<given'[b].name, g>> \in DOMAIN statics'
            /\ status' = "loading" => sfields'[b][g] = Unset
            /\ b = FindOf(given', DOMAIN given', given'[b].name) =>
                 sfields'[b][g] \in {Unset, statics'[<<given'[b].name, g>>]}
      BY <1>2, <2>1, <2>10
    <3>4. QED
      BY <3>1, <3>2, <3>3 DEF StaticsKept
  <2>12. ObjectsRight' /\ FramesRight'
    BY <2>1, ObjectsUnchanged, FramesUnchanged DEF Inv
  <2>13. Reasons' /\ ReadsRight'
    BY <1>2, <2>1 DEF Inv, Reasons, ReadsRight
  <2>14. QED
    BY <2>9, <2>11, <2>12, <2>13 DEF Inv
<1>9. QED
  BY <1>5, <1>6, <1>7, <1>8

-----------------------------------------------------------------------------
(* Calls and returns.                                                      *)

LEMMA Stutter ==
  ASSUME Inv, UNCHANGED vars
  PROVE  Inv'
<1>1. Loaded' /\ Reasons' /\ ReadsRight'
  BY DEF Inv, vars, Loaded, Reasons, ReadsRight, Ids
<1>2. StaticsKept' /\ ObjectsRight' /\ FramesRight'
  BY StaticsUnchanged, ObjectsUnchanged, FramesUnchanged DEF Inv, vars
<1>3. QED
  BY <1>1, <1>2 DEF Inv

(* The handler of another class than the Core is asked for a native method  *)
(* that the class has, or one above it.                                    *)
LEMMA JunkHasNative ==
  ASSUME WellFormed(given), Ids = DOMAIN given, NEW c \in Ids, c # 1, NEW meth,
         FindMethod(c, meth) # 0, FindMethod(c, meth) # Missing, IsNative(c, meth)
  PROVE  HasNative(given)
<1>. DEFINE w == FindMethod(c, meth)
            should == NearestOf(given, Name(c), HavingMethod(given, meth))
<1>1. /\ w \in DOMAIN given \cup {0, Missing}
      /\ w > 0 => /\ Name(w) = should /\ should \in AboveOf(given, Name(c))
                  /\ meth \in DOMAIN given[w].methods
  BY MethodFound
<1>2. Len(given) \in Nat /\ DOMAIN given = 1..Len(given)
  BY Places
<1>3. given[w].methods[meth] = "native"
  BY DEF IsNative, Method
<1>. HIDE DEF w, should
<1>4. w \in DOMAIN given /\ w > 0 /\ c \in 2..Len(given)
  BY <1>1, <1>2 DEF w
<1>5. "native" \in Range(FileOf(given, should).methods)
  BY <1>1, <1>3, <1>4, FileAt DEF Range, Name
<1>6. QED
  BY <1>1, <1>4, <1>5 DEF HasNative, Name

(* The class a method is run as is one of the classes, and the method the   *)
(* language would run is the nearest above it.                             *)
LEMMA RunsAs ==
  ASSUME WellFormed(given), Ids = DOMAIN given, ObjectsRight,
         NEW how, NEW o, NEW i, NEW c \in Ids, Name(c) = Written(i).class,
         how = "virtual" => o \in DOMAIN objects
  PROVE  /\ RunAs(how, o, c) \in Ids
         /\ Should(how, o, i) = Selected(Name(RunAs(how, o, c)), Written(i).name)
<1>1. how = "virtual" => objects[o].class \in DOMAIN given
  BY DEF ObjectsRight, ObjectRight
<1>2. CASE how = "virtual"
  BY <1>1, <1>2 DEF RunAs, Should
<1>3. CASE how # "virtual"
  BY <1>3 DEF RunAs, Should
<1>4. QED
  BY <1>2, <1>3

LEMMA CallJavaInv ==
  ASSUME Inv, status = "running", NEW how, NEW o, NEW i, NEW c \in Ids,
         Name(c) = Written(i).class, how = "virtual" => o \in DOMAIN objects,
         CallJava(how, o, i, c)
  PROVE  Inv'
<1>. DEFINE meth == Written(i).name
            as == RunAs(how, o, c)
            frame == Frame(as, meth, Should(how, o, i))
<1>1. WellFormed(given) /\ Ids = DOMAIN given /\ ObjectsRight
  BY RunningFacts
<1>2. as \in Ids /\ Should(how, o, i) = Selected(Name(as), meth)
  BY <1>1, RunsAs
<1>3. CASE ~ HasCode(as, meth)
  <2>1. Ends("nocode")
    BY <1>3 DEF CallJava
  <2>2. QED
    BY <2>1, Misled
<1>4. CASE HasCode(as, meth)
  <2>1. /\ Len(frames) < MaxDepth
        /\ frames' = Append(frames, frame)
        /\ UNCHANGED <<given, sfields, made, objects, status, statics, initialised, got, want>>
    BY <1>4 DEF CallJava
  <2>2. FrameRight(given, frame)
    BY <1>1, <1>2, <1>4, FrameFound
  <2>. HIDE DEF frame
  <2>3. FramesRight' /\ frames' # <<>>
    BY <2>1, <2>2, FrameAdded DEF Inv
  <2>4. Loaded'
    BY <2>1, <2>3, StillLoaded DEF Inv, Loaded
  <2>5. StaticsKept' /\ ObjectsRight'
    BY <2>1, StaticsUnchanged, ObjectsUnchanged DEF Inv
  <2>6. Reasons' /\ ReadsRight'
    BY <2>1 DEF Inv, Reasons, ReadsRight
  <2>7. QED
    BY <2>3, <2>4, <2>5, <2>6 DEF Inv
<1>5. QED
  BY <1>3, <1>4

LEMMA InvokeInv ==
  ASSUME Inv, NEW how, NEW o, NEW i, Invoke(how, o, i)
  PROVE  Inv'
<1>. DEFINE n == Written(i).class
            c == FindClass(n)
            meth == Written(i).name
<1>1. /\ Opcode(i, "method")
      /\ IF Written(i).static THEN how = "static" /\ o = 0 ELSE how # "static" /\ Operand(o, n)
  BY DEF Invoke
<1>2. /\ status = "running" /\ Written(i) = given[Top.in].pool[i]
      /\ i \in DOMAIN given[Top.in].pool /\ Written(i).kind = "method"
      /\ n \notin NoNames
      /\ n \notin Names => LacksClass(given)
  BY <1>1, Constant0
<1>3. /\ WellFormed(given) /\ Ids = DOMAIN given /\ Names = NamesOf(given)
      /\ Top = frames[Len(frames)]
  BY <1>2, RunningFacts
<1>4. /\ c = 0 => LacksClass(given)
      /\ c # 0 => c \in Ids /\ Name(c) = n
  BY <1>2, <1>3, FindPlace
<1>5. CASE PoolMisleads(Top.as, i)
  <2>1. Ends("misled")
    BY <1>5 DEF Invoke
  <2>2. QED
    BY <1>2, <2>1, Misled
<1>6. CASE ~ PoolMisleads(Top.as, i) /\ (c = 0 \/ FindMethod(c, meth) = Missing)
  <2>1. Ends("missing")
    BY <1>6 DEF Invoke
  <2>2. c # 0 /\ FindMethod(c, meth) = Missing => ~ Complete(given, Name(c))
    BY <1>3, <1>4, MethodFound
  <2>3. LacksClass(given)
    BY <1>3, <1>4, <1>6, <2>2, LacksSuper
  <2>4. QED
    BY <1>3, <2>1, <2>3, EndsInv
<1>7. CASE /\ ~ PoolMisleads(Top.as, i) /\ c # 0 /\ FindMethod(c, meth) # Missing
           /\ FindMethod(c, meth) = 0
  <2>1. Ends("nomethod")
    BY <1>7 DEF Invoke
  <2>2. NearestOf(given, n, HavingMethod(given, meth)) = None
    BY <1>3, <1>4, <1>7, MethodFound
  <2>3. LacksMethod(given, frames[Len(frames)].in)
    BY <1>2, <1>3, <2>2 DEF LacksMethod
  <2>4. QED
    BY <1>3, <2>1, <2>3, EndsInv
<1>8. CASE /\ ~ PoolMisleads(Top.as, i) /\ c # 0 /\ FindMethod(c, meth) # Missing
           /\ FindMethod(c, meth) # 0 /\ how # "static" /\ o = 0
  <2>1. Ends("null")
    BY <1>8 DEF Invoke
  <2>2. QED
    BY <1>2, <2>1, Misled
<1>9. CASE /\ ~ PoolMisleads(Top.as, i) /\ c # 0 /\ FindMethod(c, meth) # Missing
           /\ FindMethod(c, meth) # 0 /\ ~ (how # "static" /\ o = 0)
  <2>1. CallNative(how, o, i, c) \/ CallJunk(c, meth) \/ CallJava(how, o, i, c)
    BY <1>9 DEF Invoke
  <2>2. CASE CallNative(how, o, i, c)
    <3>1. Ends("misled") \/ UNCHANGED vars
      BY <2>2 DEF CallNative
    <3>2. QED
      BY <1>2, <3>1, Misled, Stutter
  <2>3. CASE CallJunk(c, meth)
    <3>1. IsNative(c, meth) /\ c # 1 /\ Ends("wild")
      BY <2>3 DEF CallJunk
    <3>2. HasNative(given)
      BY <1>3, <1>4, <1>9, <3>1, JunkHasNative
    <3>3. QED
      BY <1>3, <3>1, <3>2, EndsInv
  <2>4. CASE CallJava(how, o, i, c)
    <3>1. how = "virtual" => o \in DOMAIN objects
      BY <1>1, <1>2, <1>9 DEF Operand, NoNames
    <3>2. QED
      BY <1>2, <1>4, <1>9, <2>4, <3>1, CallJavaInv
  <2>5. QED
    BY <2>1, <2>2, <2>3, <2>4
<1>10. QED
  BY <1>5, <1>6, <1>7, <1>8, <1>9

LEMMA ReturnInv ==
  ASSUME Inv, Return
  PROVE  Inv'
<1>1. /\ status = "running" /\ frames' = Front(frames)
      /\ status' = IF Len(frames) = 1 THEN "returned" ELSE status
      /\ UNCHANGED <<given, sfields, made, objects, statics, initialised, got, want>>
  BY DEF Return
<1>2. IsSequence(frames) /\ frames # <<>> /\ Len(frames) <= MaxDepth
  BY <1>1 DEF Inv, Loaded, FramesRight
<1>3. /\ IsSequence(frames')
      /\ Len(frames) \in Nat \ {0} /\ Len(frames') = Len(frames) - 1
      /\ DOMAIN frames' \subseteq DOMAIN frames
      /\ \A d \in DOMAIN frames' : frames'[d] = frames[d]
      /\ frames' = <<>> <=> Len(frames) = 1
  BY <1>1, <1>2, SeqFront
<1>4. FramesRight'
  <2>1. Len(frames') <= MaxDepth
    BY <1>2, <1>3, BundleAssumption
  <2>2. \A d \in DOMAIN frames' : FrameRight(given, frames'[d])
    BY <1>3 DEF Inv, FramesRight
  <2>3. QED
    BY <1>1, <1>3, <2>1, <2>2 DEF FramesRight
<1>5. Loaded'
  BY <1>1, <1>3, StillLoaded DEF Inv, Loaded
<1>6. StaticsKept' /\ ObjectsRight'
  BY <1>1, StaticsUnchanged, ObjectsUnchanged DEF Inv
<1>7. Reasons' /\ ReadsRight'
  BY <1>1 DEF Inv, Reasons, ReadsRight
<1>8. QED
  BY <1>4, <1>5, <1>6, <1>7 DEF Inv

LEMMA NextInv ==
  ASSUME Inv, [Next]_vars
  PROVE  Inv'
<1>1. CASE Load
  BY <1>1, LoadInv
<1>2. CASE \E c \in Ids : MakeStatics(c)
  BY <1>2, MakeStaticsInv
<1>3. CASE Start
  BY <1>3, StartInv
<1>4. ASSUME NEW i, New(i) PROVE Inv'
  BY <1>4, NewInv
<1>5. ASSUME NEW i, GetStatic(i) PROVE Inv'
  BY <1>5, GetStaticInv
<1>6. ASSUME NEW i, NEW v, PutStatic(i, v) PROVE Inv'
  BY <1>6, PutStaticInv
<1>7. ASSUME NEW i, NEW o, CheckCast(o, i) PROVE Inv'
  BY <1>7, CheckCastInv
<1>8. ASSUME NEW i, NEW o, GetField(o, i) PROVE Inv'
  BY <1>8, GetFieldInv
<1>9. ASSUME NEW i, NEW o, NEW v, PutField(o, i, v) PROVE Inv'
  BY <1>9, PutFieldInv
<1>10. ASSUME NEW i, NEW o, NEW how, Invoke(how, o, i) PROVE Inv'
  BY <1>10, InvokeInv
<1>11. CASE Return
  BY <1>11, ReturnInv
<1>12. CASE NoEntry
  BY <1>12, NoEntryInv
<1>13. CASE UNCHANGED vars
  BY <1>13, Stutter
<1>14. QED
  BY <1>1, <1>2, <1>3, <1>4, <1>5, <1>6, <1>7, <1>8, <1>9, <1>10, <1>11, <1>12, <1>13
     DEF Next

-----------------------------------------------------------------------------
(* What the invariant gives.                                               *)

LEMMA InvTypes ==
  ASSUME Inv
  PROVE  TypeOK
<1>1. ASSUME NEW o \in DOMAIN objects
      PROVE  /\ objects[o].class \in Ids
             /\ {x.from : x \in ToSet(objects[o].fields)} =
                  {n \in Above(Name(objects[o].class)) : File(n).fields # <<>>}
             /\ Len(objects[o].fields) = Cardinality(DOMAIN objects[o].java)
  <2>. DEFINE ob == objects[o]
              n == Name(ob.class)
  <2>1. WellFormed(given) /\ ObjectRight(given, ob)
    BY DEF Inv, Loaded, ObjectsRight
  <2>2. status # "loading"
    BY SeqNothing DEF Inv, Loaded
  <2>3. ob.class \in Ids
    BY <2>1, <2>2, AllLoaded DEF Inv, ObjectRight
  <2>4. Declared(given, n, ob.fields)
    BY <2>1 DEF ObjectRight, Name
  <2>5. DOMAIN ob.java = {<<ob.fields[j].from, ob.fields[j].name>> : j \in DOMAIN ob.fields}
    BY <2>1 DEF ObjectRight
  <2>. HIDE DEF ob, n
  <2>6. {x.from : x \in ToSet(ob.fields)} = {m \in AboveOf(given, n) : FileOf(given, m).fields # <<>>}
    BY <2>1, <2>4, DeclaredFroms
  <2>7. {m \in AboveOf(given, n) : FileOf(given, m).fields # <<>>}
          = {m \in Above(n) : File(m).fields # <<>>}
    BY AboveIs, FileIs
  <2>8. Len(ob.fields) = Cardinality(DOMAIN ob.java)
    BY <2>4, <2>5, DeclaredCount
  <2>9. QED
    BY <2>3, <2>6, <2>7, <2>8 DEF ob, n
<1>2. ASSUME NEW d \in DOMAIN frames PROVE frames[d].as \in Ids /\ frames[d].in \in Ids
  <2>1. status # "loading"
    BY SeqNothing DEF Inv, Loaded
  <2>2. QED
    BY <2>1, AllLoaded DEF Inv, FramesRight, FrameRight
<1>3. Len(sfields) <= Len(given) /\ made \subseteq Ids
      /\ (status = "running" => made = Ids /\ frames # <<>>) /\ Len(frames) <= MaxDepth
  BY DEF Inv, Loaded, FramesRight
<1>4. status \in {"loading", "running", "returned", "noentry", "missing", "nomain", "misled",
                  "crashed", "exit4", "exit9", "nofield", "nomethod", "null", "wild", "nocode"}
  BY DEF Inv, Reasons
<1>5. QED
  BY <1>1, <1>2, <1>3, <1>4 DEF TypeOK

LEMMA InvReasons ==
  ASSUME Inv
  PROVE  EndsWithReason
<1>1. Names = NamesOf(given) /\ \A n : File(n) = FileOf(given, n) /\ Above(n) = AboveOf(given, n)
  BY NamesAre, FileIs, AboveIs
<1>2. status = "missing" => ~(Referred \subseteq Names)
  BY <1>1 DEF Inv, Reasons, LacksClass, Referred, ReferredOf
<1>3. ASSUME status = "nomethod"
      PROVE  \E i \in DOMAIN given[Top.in].pool :
               Written(i).kind = "method" /\ Selected(Written(i).class, Written(i).name) = None
  <2>. DEFINE c == frames[Len(frames)].in
  <2>1. c = Top.in
    BY DEF Top, Last
  <2>2. PICK i \in DOMAIN given[c].pool :
          /\ given[c].pool[i].kind = "method"
          /\ NearestOf(given, given[c].pool[i].class, HavingMethod(given, given[c].pool[i].name))
               = None
    BY <1>3 DEF Inv, Reasons, LacksMethod
  <2>3. Written(i) = given[c].pool[i]
    BY <2>1 DEF Written
  <2>4. HavingMethod(given, given[c].pool[i].name)
          = {d \in Names : given[c].pool[i].name \in DOMAIN File(d).methods}
    BY <1>1 DEF HavingMethod
  <2>5. Selected(Written(i).class, Written(i).name) = None
    BY <2>2, <2>3, <2>4, NearestIs DEF Selected
  <2>6. QED
    BY <2>1, <2>2, <2>3, <2>5
<1>4. status = "nofield" =>
        \E n \in Names : File(n).super = None /\ \E f \in ToSet(File(n).fields) : f.static
  BY <1>1 DEF Inv, Reasons, RootHasStatic
<1>5. status = "wild" =>
        \E j \in 2..Len(given) : \E n \in Above(given[j].name) : "native" \in Range(File(n).methods)
  BY <1>1 DEF Inv, Reasons, HasNative
<1>6. QED
  BY <1>2, <1>3, <1>4, <1>5 DEF EndsWithReason

(* The invariant holds from the first class main loads to the end of the    *)
(* process.                                                                *)
THEOREM Keeps == Spec => []Inv
<1>1. Init => Inv
  BY InitInv
<1>2. Inv /\ [Next]_vars => Inv'
  BY NextInv
<1>3. QED
  BY <1>1, <1>2, PTL DEF Spec

(* Every object has one slot for each field its class and the supers of it  *)
(* declare, however many those are and whichever classes were loaded twice *)
(* (jvm_CountObjectFields, jvm_MakeObjectFields); a program runs only when *)
(* all classes have their static fields.                                   *)
THEOREM TypesKept == Spec => []TypeOK
<1>1. Inv => TypeOK
  BY InvTypes
<1>2. QED
  BY <1>1, Keeps, PTL

(* The method that runs is the one the language selects, for every          *)
(* hierarchy of classes and every order of loading them (exec.c:1524).     *)
THEOREM RunsRightMethod == Spec => []RightMethod
<1>1. Inv => RightMethod
  BY DEF Inv, FramesRight, FrameRight, RightMethod, Name
<1>2. QED
  BY <1>1, Keeps, PTL

(* What is read from a field is what was written to it last, and no cast    *)
(* or putfield is refused that the language allows (rjvm.c:669, 695,       *)
(* exec.c:402, 1203, 1298), as long as the code looks up the right constant *)
(* and the field is not hidden.                                            *)
THEOREM ReadsWhatWasWritten == Spec => []ReadsRight
<1>1. Inv => ReadsRight
  BY DEF Inv
<1>2. QED
  BY <1>1, Keeps, PTL

(* The process ends for want of a class, a method, a field or a handler     *)
(* only where the classes that were given explain it.                      *)
THEOREM EndsForAReason == Spec => []EndsWithReason
<1>1. Inv => EndsWithReason
  BY InvReasons
<1>2. QED
  BY <1>1, Keeps, PTL
=============================================================================
