-------------------------- MODULE ResolveHierarchy --------------------------
(***************************************************************************)
(* The class hierarchy that zxdb's member resolution works on              *)
(* (src/bin/zxdb/symbols/inherited_from.cc), and the reference result of   *)
(* a member lookup, stated over base-class paths.  Shared by the contract  *)
(* of member resolution (ResolveContract) and by its implementation        *)
(* (ResolveCollection).                                                    *)
(*                                                                         *)
(* Classes are 1..NClasses; a class's direct bases are higher-numbered     *)
(* classes (so the hierarchy is acyclic), declared in increasing order.    *)
(* A member named n sits at byte n of the class that declares it.          *)
(***************************************************************************)
EXTENDS Integers, Sequences, SequencesExt

CONSTANTS
  NClasses,     \* number of classes in the hierarchy
  Names,        \* member names, as small positive numbers (their offsets)
  BaseOffsets,  \* the offsets a base class may have in a derived class
  Calls,        \* ResolveMemberByPointer invocations
  Ptrs          \* pointer values the calls dereference

ASSUME CollectionAssumption ==
  /\ NClasses \in Nat \ {0}
  /\ Names \subseteq Nat \ {0}
  /\ BaseOffsets \subseteq Nat
  /\ Ptrs \subseteq Nat

VARIABLES
  bases,      \* bases[c]: the direct base classes of c
  decl,       \* decl[c]: the names of the data members declared on c
  boff        \* boff[<<c, b>>]: InheritedFrom offset of base b in c

Classes == 1..NClasses

NotFound == -1

\* What a callback receives: an error, or the value read; "none" records
\* that the callback has not run.
Result(st, v) == [st |-> st, val |-> v]
NoCallback == Result("none", 0)

\* The InheritedFrom edges of the hierarchy.
Edges(bs) == {<<c, b>> \in Classes \X Classes : b \in bs[c]}

\* Every acyclic hierarchy of NClasses classes, with its members and the
\* offsets of its bases.
HierarchyInit ==
  /\ bases \in {bs \in [Classes -> SUBSET Classes] :
                  \A c \in Classes : \A b \in bs[c] : b > c}
  /\ decl \in [Classes -> SUBSET Names]
  /\ boff \in [Edges(bases) -> BaseOffsets]

-----------------------------------------------------------------------------
(* The reference lookup, stated over paths rather than by search          *)

\* The base-class paths from c: c, a direct base of c, a direct base of
\* that, and so on.
Paths(c) ==
  UNION {{p \in [1..len -> Classes] :
            p[1] = c /\ \A i \in 1..len - 1 : p[i + 1] \in bases[p[i]]}
         : len \in 1..NClasses}

\* The paths that end at a class declaring n.
PathsTo(c, n) == {p \in Paths(c) : n \in decl[p[Len(p)]]}

\* Lexicographic order on paths, a path before its extensions: the order
\* in which a depth-first walk visits them.
PathBefore(p, q) ==
  \/ Len(p) < Len(q) /\ p = SubSeq(q, 1, Len(p))
  \/ \E i \in 1..Len(p) :
       /\ i <= Len(q) /\ p[i] < q[i]
       /\ \A j \in 1..i - 1 : p[j] = q[j]

\* The offset of member n reached along path p.
PathOffset(p, n) ==
  FoldLeft(LAMBDA acc, i : acc + boff[<<p[i], p[i + 1]>>], n,
           [i \in 1..Len(p) - 1 |-> i])

\* The reference result: NotFound when no path reaches a class declaring
\* n, and otherwise the offset along the first such path a depth-first
\* walk visits.
RefOffset(c, n) ==
  IF PathsTo(c, n) = {} THEN NotFound
  ELSE LET first == CHOOSE p \in PathsTo(c, n) :
                      \A q \in PathsTo(c, n) : q = p \/ PathBefore(p, q)
       IN  PathOffset(first, n)

=============================================================================
