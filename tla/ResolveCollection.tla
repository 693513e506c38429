-------------------------- MODULE ResolveCollection --------------------------
(***************************************************************************)
(* zxdb's member and base-class resolution (src/bin/zxdb/expr/             *)
(* resolve_collection.h, src/bin/zxdb/symbols/inherited_from.cc).          *)
(*                                                                         *)
(* The synchronous part is a pure function of the type symbols: a member   *)
(* named n is looked up on the class and, failing that, depth-first        *)
(* through its base classes (InheritedFrom edges, each with the base's     *)
(* byte offset in the derived class).  The asynchronous part,              *)
(* ResolveMemberByPointer, does the same lookup and then one memory read   *)
(* at pointer + offset; the read's callback reaches the evaluation         *)
(* context through a weak reference and does nothing once it is gone.      *)
(*                                                                         *)
(* Classes are 1..NClasses; a class's direct bases are higher-numbered     *)
(* classes (so the hierarchy is acyclic), declared in increasing order.    *)
(* A member named n sits at byte n of the class that declares it.  Memory  *)
(* holds at each address its own value, so a value read is the address    *)
(* it was read from.                                                       *)
(***************************************************************************)
EXTENDS ResolveHierarchy

VARIABLES
  issued,     \* the calls made, with their class, name and pointer
  reads,      \* the memory reads in flight: call -> address
  ctxAlive,   \* the ExprEvalContext still exists
  cb          \* cb[k]: what call k's callback received, if it ran

vars == <<bases, decl, boff, issued, reads, ctxAlive, cb>>

\* The direct bases of c in declaration order.
BaseSeq(c) == SetToSortSeq(bases[c], <)

-----------------------------------------------------------------------------
(* ResolveMember by name: the depth-first search                           *)

RECURSIVE FindMember(_, _), SearchBases(_, _, _)

\* Mutant: the bases are searched before the class's own members.
FindMemberBasesFirst(c, n) ==
  LET r == SearchBases(BaseSeq(c), c, n)
  IN  IF r # NotFound THEN r ELSE IF n \in decl[c] THEN n ELSE NotFound

\* The offset of member n in an object of class c, or NotFound: a member
\* of c itself first, otherwise the first base, in declaration order,
\* whose own search finds it, shifted by that base's offset.
FindMember(c, n) ==
  IF n \in decl[c] THEN n ELSE SearchBases(BaseSeq(c), c, n)

SearchBases(bs, c, n) ==
  IF bs = <<>> THEN NotFound
  ELSE LET r == FindMember(Head(bs), n)
       IN  IF r # NotFound THEN boff[<<c, Head(bs)>>] + r
           ELSE SearchBases(Tail(bs), c, n)

\* ResolveInherited: the offset of a direct base, an error for any other.
ResolveInherited(c, b) == IF b \in bases[c] THEN boff[<<c, b>>] ELSE NotFound

-----------------------------------------------------------------------------
(* ResolveMemberByPointer                                                  *)

Init ==
  /\ HierarchyInit
  /\ issued = [k \in {} |-> <<>>]
  /\ reads = [k \in {} |-> 0]
  /\ ctxAlive = TRUE
  /\ cb = [k \in Calls |-> NoCallback]

\* Mutant: the read is issued without checking that the lookup succeeded.
FoundUnchecked(r) == TRUE

\* Whether the member lookup succeeded.
Found(r) == r # NotFound

\* Mutant: the read is made at the pointer itself, not at the member.
MemberAddressBase(p, r) == p

\* The address of the member: the pointer plus the member's offset.
MemberAddress(p, r) == p + r

\* ResolveMemberByPointer(context, base_ptr, member_name, cb): a member
\* that is not found is reported to cb at once; otherwise exactly one
\* memory read is issued at the pointer plus the member's offset.
ResolveMemberByPointer(k, c, n, p) ==
  /\ k \notin DOMAIN issued /\ ctxAlive
  /\ issued' = [x \in DOMAIN issued \cup {k} |->
                  IF x = k THEN <<c, n, p>> ELSE issued[x]]
  /\ LET r == FindMember(c, n)
     IN  IF Found(r)
           THEN /\ reads' = [x \in DOMAIN reads \cup {k} |->
                               IF x = k THEN MemberAddress(p, r) ELSE reads[x]]
                /\ UNCHANGED cb
           ELSE /\ cb' = [cb EXCEPT ![k] = Result("notFound", 0)]
                /\ UNCHANGED reads
  /\ UNCHANGED <<bases, decl, boff, ctxAlive>>

\* The weak reference to the context is still valid.
WeakLive == ctxAlive

\* The memory read of call k completes, with the bytes or with an error
\* (an unmapped address).  Through the weak reference, the callback gets
\* the member's value or the error, or nothing if the context is gone.
ReadDone(k) ==
  /\ k \in DOMAIN reads
  /\ reads' = [x \in DOMAIN reads \ {k} |-> reads[x]]
  /\ \/ WeakLive /\ cb' = [cb EXCEPT ![k] = Result("ok", reads[k])]
     \/ WeakLive /\ cb' = [cb EXCEPT ![k] = Result("readError", 0)]
     \/ ~WeakLive /\ UNCHANGED cb
  /\ UNCHANGED <<bases, decl, boff, issued, ctxAlive>>

\* The evaluation context is destroyed (its frame or thread went away).
DestroyContext ==
  /\ ctxAlive
  /\ ctxAlive' = FALSE
  /\ UNCHANGED <<bases, decl, boff, issued, reads, cb>>

Next ==
  \/ \E k \in Calls, c \in Classes, n \in Names, p \in Ptrs :
       ResolveMemberByPointer(k, c, n, p)
  \/ \E k \in Calls : ReadDone(k)
  \/ DestroyContext

Spec == Init /\ [][Next]_vars

-----------------------------------------------------------------------------
(* Properties                                                              *)

TypeOK ==
  /\ \A k \in DOMAIN issued : issued[k] \in Classes \X Names \X Ptrs
  /\ DOMAIN reads \subseteq DOMAIN issued /\ DOMAIN issued \subseteq Calls
  /\ \A k \in DOMAIN reads : reads[k] \in Nat
  /\ ctxAlive \in BOOLEAN
  /\ cb \in [Calls -> [st : {"none", "ok", "notFound", "readError"}, val : Nat]]

\* Name lookup agrees with the reference for every class and name of the
\* hierarchy: a member declared on the class wins over the bases, and
\* otherwise the first base class in declaration order that has one,
\* depth first, supplies it, at its offset plus the base offsets along the
\* way; the lookup fails exactly when no base path reaches the name.
\* A member found through a base is where ResolveInherited, one direct base
\* at a time, projects that base, plus the member's offset in the base.
LookupMatchesReference ==
  \A c \in Classes, n \in Names :
    /\ FindMember(c, n) = RefOffset(c, n)
    /\ FindMember(c, n) # NotFound /\ n \notin decl[c] =>
         \E b \in bases[c] :
           /\ ResolveInherited(c, b) # NotFound /\ FindMember(b, n) # NotFound
           /\ FindMember(c, n) = ResolveInherited(c, b) + FindMember(b, n)

\* A value delivered to a ResolveMemberByPointer callback is the memory at
\* the pointer plus the reference offset of the member; "notFound" is
\* delivered exactly for members the reference does not find.
CallbackMatchesReference ==
  \A k \in DOMAIN issued :
    LET c == issued[k][1]  n == issued[k][2]  p == issued[k][3]
    IN  /\ cb[k].st = "ok" =>
             RefOffset(c, n) # NotFound /\ cb[k].val = p + RefOffset(c, n)
        /\ cb[k].st = "notFound" <=> RefOffset(c, n) = NotFound

\* The contract of ResolveMemberByPointer, with the same hierarchy, calls,
\* context and callbacks; the reads in flight are hidden.
Contract == INSTANCE ResolveContract

\* ResolveMemberByPointer, with its lookup, its memory read and its weak
\* reference, implements the contract: each call is answered at most
\* once, a missing member at once, a found one with the value at the
\* pointer plus the reference offset or a read error, and never after
\* the context is gone.
ImplementsContract == Contract!Spec

=============================================================================
