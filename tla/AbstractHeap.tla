---------------------------- MODULE AbstractHeap ----------------------------
(***************************************************************************)
(* What the collected heap promises to the program that runs on it: an     *)
(* object stays as long as the program can get at it.  Nothing is said of  *)
(* counts, marks or lists: objects refer to objects, the program has some  *)
(* of them in hand, and a set of objects may be reclaimed at once when     *)
(* nothing in hand, and nothing that stays, refers into it.                *)
(***************************************************************************)
CONSTANT Obj

VARIABLES
  objs, \* the objects that exist
  refs, \* refs[o]: the objects that o refers to, {} when o does not exist
  hand  \* the objects the program holds directly

absVars == <<objs, refs, hand>>

AbsInit ==
  /\ objs = {}
  /\ refs = [o \in Obj |-> {}]
  /\ hand = {}

Create(o) ==
  /\ o \notin objs
  /\ objs' = objs \cup {o}
  /\ hand' = hand \cup {o}
  /\ UNCHANGED refs

(* The program makes p refer to things it holds, or no longer refer. *)
Relink(p, S) ==
  /\ p \in hand
  /\ S \subseteq refs[p] \cup hand
  /\ refs' = [refs EXCEPT ![p] = S]
  /\ UNCHANGED <<objs, hand>>

(* The program follows a reference of an object it holds. *)
Take(p, o) ==
  /\ p \in hand
  /\ o \in refs[p]
  /\ hand' = hand \cup {o}
  /\ UNCHANGED <<objs, refs>>

Drop(o) ==
  /\ hand' = hand \ {o}
  /\ UNCHANGED <<objs, refs>>

Reclaim(U) ==
  /\ U \subseteq objs
  /\ U \cap hand = {}
  /\ \A o \in objs \ U : refs[o] \cap U = {}
  /\ objs' = objs \ U
  /\ refs' = [o \in Obj |-> IF o \in U THEN {} ELSE refs[o]]
  /\ UNCHANGED hand

AbsNext ==
  \/ \E o \in Obj : Create(o) \/ Drop(o)
  \/ \E p \in Obj : \E S \in SUBSET Obj : Relink(p, S)
  \/ \E p, o \in Obj : Take(p, o)
  \/ \E U \in SUBSET Obj : Reclaim(U)

AbsSpec == AbsInit /\ [][AbsNext]_absVars

(***************************************************************************)
(* The promise: what the program holds exists, and what an existing object *)
(* refers to exists, so no path of references ever leaves the heap.        *)
(***************************************************************************)
AbsSafe ==
  /\ objs \subseteq Obj
  /\ hand \subseteq objs
  /\ refs \in [Obj -> SUBSET objs]
  /\ \A o \in Obj \ objs : refs[o] = {}
=============================================================================
