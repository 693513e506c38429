-------------------------- MODULE ResolveContract --------------------------
(***************************************************************************)
(* What ResolveMemberByPointer promises its caller (src/bin/zxdb/expr/     *)
(* resolve_collection.h), without the memory read that implements it:     *)
(* each call is answered at most once; a member that is not found is      *)
(* reported at once; a member that is found is answered later with the     *)
(* value at the pointer plus the member's offset (the first one a          *)
(* depth-first search of the bases reaches) or with a read error; and      *)
(* nothing is answered once the evaluation context is gone.  Memory holds  *)
(* at each address its own value.                                          *)
(***************************************************************************)
EXTENDS ResolveHierarchy

VARIABLES
  issued,     \* the calls made, with their class, name and pointer
  ctxAlive,   \* the ExprEvalContext still exists
  cb          \* cb[k]: what call k's callback received, if it ran

cvars == <<bases, decl, boff, issued, ctxAlive, cb>>

Init ==
  /\ HierarchyInit
  /\ issued = [k \in {} |-> <<>>]
  /\ ctxAlive = TRUE
  /\ cb = [k \in Calls |-> NoCallback]

\* A call: an unknown member is reported to the callback at once.
Call(k, c, n, p) ==
  /\ k \notin DOMAIN issued /\ ctxAlive
  /\ issued' = [x \in DOMAIN issued \cup {k} |->
                  IF x = k THEN <<c, n, p>> ELSE issued[x]]
  /\ IF RefOffset(c, n) = NotFound
       THEN cb' = [cb EXCEPT ![k] = Result("notFound", 0)]
       ELSE UNCHANGED cb
  /\ UNCHANGED <<bases, decl, boff, ctxAlive>>

\* The single answer to a call for a member that exists, while the
\* context is alive: its value, or a read error.
Answer(k) ==
  /\ k \in DOMAIN issued /\ ctxAlive /\ cb[k] = NoCallback
  /\ LET c == issued[k][1]  n == issued[k][2]  p == issued[k][3]
     IN  /\ RefOffset(c, n) # NotFound
         /\ \/ cb' = [cb EXCEPT ![k] = Result("ok", p + RefOffset(c, n))]
            \/ cb' = [cb EXCEPT ![k] = Result("readError", 0)]
  /\ UNCHANGED <<bases, decl, boff, issued, ctxAlive>>

\* The evaluation context goes away.
Teardown ==
  /\ ctxAlive
  /\ ctxAlive' = FALSE
  /\ UNCHANGED <<bases, decl, boff, issued, cb>>

Next ==
  \/ \E k \in Calls, c \in Classes, n \in Names, p \in Ptrs : Call(k, c, n, p)
  \/ \E k \in Calls : Answer(k)
  \/ Teardown

Spec == Init /\ [][Next]_cvars

=============================================================================
