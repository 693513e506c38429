------------------- MODULE ZxdbBreakpointObservers_proofs -------------------
(***************************************************************************)
(* Proofs about ZxdbBreakpointObservers for every number of observers and *)
(* every id bound, under the discipline that an observer's callback only  *)
(* deletes a breakpoint whose own notifications are complete (~DeleteAny):*)
(* the loops in progress never hold a destroyed breakpoint, and the       *)
(* observers agree with the registry whenever no loop is running.         *)
(*                                                                         *)
(* A call made from inside a callback sees the stack and the views as the *)
(* notification just left them, so the invariant is stated once over     *)
(* explicit arguments, Inv(b, n, sn, fr), and each call is proved to take *)
(* it from the state it starts in to the state it makes.                  *)
(***************************************************************************)
EXTENDS ZxdbBreakpointObservers, SequenceTheorems, TLAPS

USE ObserversAssumption DEF Ids, Obs

\* The loops on stack fr that are about x have reached observer o exactly
\* when they are creates.
Agrees(fr, o, x) ==
  \A i \in 1..Len(fr) :
    fr[i].id = x => ((fr[i].op = "create") = (o < fr[i].next))

\* Observer o's view sn[o] agrees with registry b and stack fr at x.
ViewAt(b, sn, fr, o, x) ==
  x \in sn[o] <=> (x \in DOMAIN b /\ ~b[x] /\ Agrees(fr, o, x))

\* ObsInv over explicit arguments.
Inv(b, n, sn, fr) ==
  /\ DOMAIN b \subseteq Ids /\ b \in [DOMAIN b -> BOOLEAN]
  /\ n \in 1..MaxBreakpoints + 1
  /\ sn \in [Obs -> SUBSET Ids]
  /\ fr \in Seq(FrameType)
  /\ \A id \in DOMAIN b : id < n
  /\ \A i \in 1..Len(fr) :
       /\ fr[i].id \in DOMAIN b
       /\ ~b[fr[i].id]
       /\ \A j \in 1..Len(fr) : fr[j].id = fr[i].id => j = i
  /\ \A o \in Obs, x \in Ids : ViewAt(b, sn, fr, o, x)

\* ObsInv is Inv of the current state.
LEMMA ObsInvAt == ObsInv <=> Inv(bps, nextBpId, seen, frames)
  BY DEF ObsInv, Inv, TypeOK, ViewAt, Agrees, Told, UserBps

\* ObsInv' is Inv of the next state.
LEMMA ObsInvAtPrime == ObsInv' <=> Inv(bps', nextBpId', seen', frames')
  BY DEF ObsInv, Inv, TypeOK, ViewAt, Agrees, Told, UserBps

\* The ids of the loops on a stack.
IdsOf(fr) == {fr[i].id : i \in 1..Len(fr)}

-----------------------------------------------------------------------------
(* How Agrees changes when a loop is pushed, advanced or popped.          *)

\* A non-empty stack has a top loop.
LEMMA NonEmptyLen ==
  ASSUME NEW fr \in Seq(FrameType), fr # <<>>
  PROVE  Len(fr) \in Nat /\ Len(fr) >= 1
<1>1. \A seq \in Seq(FrameType) : seq # << >> => Len(seq) \in Nat \ {0}
  BY EmptySeq
<1>2. QED
  BY <1>1

\* Two intervals 1..a and 1..b are equal only when a = b.
LEMMA IntervalEq ==
  ASSUME NEW a \in Nat, NEW b \in Nat, 1..a = 1..b
  PROVE  a = b
<1>1. CASE a < b
  <2>1. b \in 1..b /\ b \notin 1..a
    BY <1>1
  <2>2. QED
    BY <2>1
<1>2. CASE b < a
  <2>1. a \in 1..a /\ a \notin 1..b
    BY <1>2
  <2>2. QED
    BY <2>1
<1>3. QED
  BY <1>1, <1>2

\* A stack with no loop about x agrees with every observer at x.
LEMMA AgreesNone ==
  ASSUME NEW fr, NEW o, NEW x, \A i \in 1..Len(fr) : fr[i].id # x
  PROVE  Agrees(fr, o, x)
  BY DEF Agrees

\* Pushing a loop about another breakpoint changes nothing at x.
LEMMA AgreesAppendOther ==
  ASSUME NEW fr \in Seq(FrameType), NEW e \in FrameType, NEW o, NEW x,
         e.id # x
  PROVE  Agrees(Append(fr, e), o, x) <=> Agrees(fr, o, x)
<1>1. /\ Len(Append(fr, e)) = Len(fr) + 1 /\ Len(fr) \in Nat
      /\ \A i \in 1..Len(fr) : Append(fr, e)[i] = fr[i]
      /\ Append(fr, e)[Len(fr) + 1] = e
  BY AppendProperties, LenProperties
<1>2. QED
  BY <1>1 DEF Agrees

\* Pushing the only loop about x: it agrees as that loop does.
LEMMA AgreesAppendNew ==
  ASSUME NEW fr \in Seq(FrameType), NEW e \in FrameType, NEW o, NEW x,
         e.id = x, \A i \in 1..Len(fr) : fr[i].id # x
  PROVE  Agrees(Append(fr, e), o, x) <=> ((e.op = "create") = (o < e.next))
<1>1. /\ Len(Append(fr, e)) = Len(fr) + 1 /\ Len(fr) \in Nat
      /\ \A i \in 1..Len(fr) : Append(fr, e)[i] = fr[i]
      /\ Append(fr, e)[Len(fr) + 1] = e
  BY AppendProperties, LenProperties
<1>2. QED
  BY <1>1 DEF Agrees

\* Changing the top loop, keeping its id and op, changes Agrees only at
\* that id, and there as the new top loop says.
LEMMA AgreesTop ==
  ASSUME NEW fr \in Seq(FrameType), fr # <<>>, NEW e \in FrameType,
         NEW o \in Nat, NEW x,
         e.id = fr[Len(fr)].id, e.op = fr[Len(fr)].op,
         \A j \in 1..Len(fr) : fr[j].id = fr[Len(fr)].id => j = Len(fr)
  PROVE  /\ x # e.id => (Agrees([fr EXCEPT ![Len(fr)] = e], o, x) <=> Agrees(fr, o, x))
         /\ x = e.id => (Agrees([fr EXCEPT ![Len(fr)] = e], o, x)
                            <=> (e.op = "create" <=> o < e.next))
<1> DEFINE L == Len(fr)  g == [fr EXCEPT ![L] = e]
<1>1. L \in Nat /\ L >= 1
  BY NonEmptyLen
<1>2. Len(g) = L /\ g[L] = e /\ \A i \in 1..L : i # L => g[i] = fr[i]
  BY <1>1, ExceptSeq
<1> HIDE DEF g
<1>3. x # e.id => (Agrees(g, o, x) <=> Agrees(fr, o, x))
  BY <1>1, <1>2 DEF Agrees
<1>4. x = e.id => \A i \in 1..L : i # L => fr[i].id # x
  BY <1>1
<1>5. x = e.id => (Agrees(g, o, x) <=> (e.op = "create" <=> o < e.next))
  <2> SUFFICES ASSUME x = e.id
               PROVE  Agrees(g, o, x) <=> (e.op = "create" <=> o < e.next)
    OBVIOUS
  <2>1. \A i \in 1..Len(g) : g[i].id = x <=> i = L
    BY <1>1, <1>2, <1>4
  <2>2. Agrees(g, o, x) => (e.op = "create" <=> o < e.next)
    <3>1. L \in 1..Len(g)
      BY <1>1, <1>2
    <3>3. g[L].id = x
      BY <1>2
    <3>2. QED
      BY <3>1, <3>3, <1>2 DEF Agrees
  <2>3. (e.op = "create" <=> o < e.next) => Agrees(g, o, x)
    BY <2>1, <1>2 DEF Agrees
  <2>4. QED
    BY <2>2, <2>3
<1>6. QED
  BY <1>3, <1>5 DEF g

\* Popping the top loop leaves the loops below it in place.
LEMMA PopSeq ==
  ASSUME NEW fr \in Seq(FrameType), fr # <<>>
  PROVE  /\ SubSeq(fr, 1, Len(fr) - 1) \in Seq(FrameType)
         /\ Len(SubSeq(fr, 1, Len(fr) - 1)) = Len(fr) - 1
         /\ \A i \in 1..Len(fr) - 1 : SubSeq(fr, 1, Len(fr) - 1)[i] = fr[i]
<1> DEFINE L == Len(fr)  g == SubSeq(fr, 1, L - 1)
<1>1. L \in Nat /\ L >= 1 /\ \A i \in 1..L : fr[i] \in FrameType
  BY NonEmptyLen, ElementOfSeq
<1>2. \A i \in 1..L - 1 : fr[i] \in FrameType
  BY <1>1
<1>3. g = [i \in 1..L - 1 |-> fr[i]]
  BY <1>1 DEF SubSeq
<1>4. g \in Seq(FrameType)
  BY <1>2, <1>3, <1>1, IsASeq
<1>5. DOMAIN g = 1..L - 1
  BY <1>3
<1>6. Len(g) \in Nat /\ DOMAIN g = 1..Len(g)
  BY <1>4, LenProperties
<1>7. Len(g) = L - 1
  <2>1. 1..Len(g) = 1..(L - 1) /\ L - 1 \in Nat /\ Len(g) \in Nat
    BY <1>5, <1>6, <1>1
  <2>2. QED
    BY <2>1, IntervalEq
<1>8. QED
  BY <1>3, <1>4, <1>7

\* Popping the top loop changes Agrees only at its id, where no loop is
\* left.
LEMMA AgreesPop ==
  ASSUME NEW fr \in Seq(FrameType), fr # <<>>, NEW o, NEW x,
         \A j \in 1..Len(fr) : fr[j].id = fr[Len(fr)].id => j = Len(fr)
  PROVE  /\ x # fr[Len(fr)].id =>
              (Agrees(SubSeq(fr, 1, Len(fr) - 1), o, x) <=> Agrees(fr, o, x))
         /\ x = fr[Len(fr)].id => Agrees(SubSeq(fr, 1, Len(fr) - 1), o, x)
<1> DEFINE L == Len(fr)  g == SubSeq(fr, 1, L - 1)
<1>1. L \in Nat /\ L >= 1
  BY NonEmptyLen
<1>2. Len(g) = L - 1 /\ \A i \in 1..L - 1 : g[i] = fr[i]
  BY PopSeq
<1> HIDE DEF g
<1>3. QED
  BY <1>1, <1>2 DEF Agrees

-----------------------------------------------------------------------------
(* Each call of the registry, made with stack fs and views sn, and only    *)
(* deleting a breakpoint no loop on fs is about.                           *)

\* CreateNewBreakpoint takes a fresh id and pushes the only loop about it.
LEMMA CreateNewBreakpointInv ==
  ASSUME NEW fs, NEW sn, Inv(bps, nextBpId, sn, fs),
         CreateNewBreakpoint(fs), seen' = sn
  PROVE  Inv(bps', nextBpId', seen', frames')
<1> DEFINE n == nextBpId  nf == Frame("create", n)
<1>1. n \notin DOMAIN bps /\ n \in Ids /\ fs \in Seq(FrameType)
      /\ \A i \in 1..Len(fs) : fs[i].id # n
  BY DEF Inv, CreateNewBreakpoint
<1>2. nf \in FrameType /\ nf.id = n /\ nf.op = "create" /\ nf.next = 1
  BY <1>1 DEF Frame, FrameType
<1>3. /\ frames' = Append(fs, nf) /\ frames' \in Seq(FrameType)
      /\ Len(frames') = Len(fs) + 1 /\ Len(fs) \in Nat
      /\ \A i \in 1..Len(fs) : frames'[i] = fs[i]
      /\ frames'[Len(fs) + 1] = nf
  BY <1>1, <1>2, AppendProperties, LenProperties DEF CreateNewBreakpoint
<1>4. DOMAIN bps' = DOMAIN bps \cup {n} /\ bps'[n] = FALSE
      /\ bps' \in [DOMAIN bps' -> BOOLEAN]
      /\ \A x \in DOMAIN bps : bps'[x] = bps[x]
  BY <1>1 DEF CreateNewBreakpoint, Insert, Inv
<1>5. \A o \in Obs, x \in Ids : ViewAt(bps', seen', frames', o, x)
  <2> SUFFICES ASSUME NEW o \in Obs, NEW x \in Ids
               PROVE  ViewAt(bps', seen', frames', o, x)
    OBVIOUS
  <2>1. CASE x = n
    <3>1. x \notin sn[o]
      BY <2>1, <1>1 DEF Inv, ViewAt
    <3>2. Agrees(Append(fs, nf), o, x) <=> ((nf.op = "create") = (o < nf.next))
      BY <2>1, <1>1, <1>2, AgreesAppendNew
    <3>4. ~Agrees(frames', o, x)
      BY <3>2, <1>2, <1>3
    <3>3. QED
      BY <3>1, <3>4 DEF ViewAt
  <2>2. CASE x # n
    <3>0. Agrees(Append(fs, nf), o, x) <=> Agrees(fs, o, x)
      BY <2>2, <1>1, <1>2, AgreesAppendOther
    <3>1. Agrees(frames', o, x) <=> Agrees(fs, o, x)
      BY <3>0, <1>3
    <3>2. (x \in DOMAIN bps' /\ ~bps'[x]) <=> (x \in DOMAIN bps /\ ~bps[x])
      BY <2>2, <1>4
    <3>3. QED
      BY <3>1, <3>2 DEF Inv, ViewAt
  <2>3. QED
    BY <2>1, <2>2
<1>6. \A i \in 1..Len(frames') :
        /\ frames'[i].id \in DOMAIN bps'
        /\ ~bps'[frames'[i].id]
        /\ \A j \in 1..Len(frames') : frames'[j].id = frames'[i].id => j = i
  BY <1>1, <1>2, <1>3, <1>4 DEF Inv
<1>7. /\ nextBpId \in Nat /\ nextBpId' = nextBpId + 1
      /\ nextBpId' \in 1..MaxBreakpoints + 1
      /\ seen' \in [Obs -> SUBSET Ids]
  BY <1>1 DEF Inv, CreateNewBreakpoint
<1>9. DOMAIN bps' \subseteq Ids /\ \A id \in DOMAIN bps' : id < nextBpId'
  <2>1. \A id \in DOMAIN bps : id \in Ids /\ id < nextBpId
    BY DEF Inv
  <2>2. QED
    BY <2>1, <1>1, <1>4, <1>7
<1>8. QED
  BY <1>3, <1>4, <1>5, <1>6, <1>7, <1>9 DEF Inv

\* CreateNewInternalBreakpoint registers an internal breakpoint no view
\* holds.
LEMMA CreateNewInternalBreakpointInv ==
  ASSUME NEW fs, NEW sn, Inv(bps, nextBpId, sn, fs),
         CreateNewInternalBreakpoint(fs), seen' = sn
  PROVE  Inv(bps', nextBpId', seen', frames')
<1> DEFINE n == nextBpId
<1>1. n \notin DOMAIN bps /\ n \in Ids /\ frames' = fs
  BY DEF Inv, CreateNewInternalBreakpoint
<1>2. DOMAIN bps' = DOMAIN bps \cup {n} /\ bps'[n] = TRUE
      /\ bps' \in [DOMAIN bps' -> BOOLEAN]
      /\ \A x \in DOMAIN bps : bps'[x] = bps[x]
  BY <1>1 DEF CreateNewInternalBreakpoint, Insert, Inv
<1>3. \A o \in Obs, x \in Ids : ViewAt(bps', seen', frames', o, x)
  <2> SUFFICES ASSUME NEW o \in Obs, NEW x \in Ids
               PROVE  ViewAt(bps', seen', frames', o, x)
    OBVIOUS
  <2>1. CASE x = n
    BY <2>1, <1>1, <1>2 DEF Inv, ViewAt
  <2>2. CASE x # n
    BY <2>2, <1>1, <1>2 DEF Inv, ViewAt
  <2>3. QED
    BY <2>1, <2>2
<1>4. /\ nextBpId' = n + 1 /\ nextBpId' \in 1..MaxBreakpoints + 1
      /\ seen' \in [Obs -> SUBSET Ids] /\ frames' \in Seq(FrameType)
  BY <1>1 DEF Inv, CreateNewInternalBreakpoint
<1>5. DOMAIN bps' \subseteq Ids /\ \A x \in DOMAIN bps' : x < nextBpId'
  <2>1. \A x \in DOMAIN bps : x \in Ids /\ x < n
    BY DEF Inv
  <2>2. QED
    BY <2>1, <1>1, <1>2, <1>4
<1>6. \A i \in 1..Len(frames') :
        /\ frames'[i].id \in DOMAIN bps'
        /\ ~bps'[frames'[i].id]
        /\ \A j \in 1..Len(frames') : frames'[j].id = frames'[i].id => j = i
  BY <1>1, <1>2 DEF Inv
<1>7. QED
  BY <1>2, <1>3, <1>4, <1>5, <1>6 DEF Inv

\* DeleteBreakpoint of a breakpoint no loop on fs is about: an internal one
\* is erased at once, a user one gets the only loop about it.
LEMMA DeleteBreakpointInv ==
  ASSUME NEW fs, NEW sn, NEW id, Inv(bps, nextBpId, sn, fs),
         id \notin IdsOf(fs), DeleteBreakpoint(id, fs), seen' = sn
  PROVE  Inv(bps', nextBpId', seen', frames')
<1>1. /\ id \in DOMAIN bps /\ fs \in Seq(FrameType) /\ nextBpId' = nextBpId
      /\ \A i \in 1..Len(fs) : fs[i].id # id
  BY DEF DeleteBreakpoint, IdsOf, Inv
<1>2. CASE bps[id]
  <2>1. /\ frames' = fs
        /\ DOMAIN bps' = DOMAIN bps \ {id}
        /\ bps' \in [DOMAIN bps' -> BOOLEAN]
        /\ \A x \in DOMAIN bps' : bps'[x] = bps[x]
    BY <1>2 DEF DeleteBreakpoint, Erase, Inv
  <2>2. \A o \in Obs, x \in Ids : ViewAt(bps', seen', frames', o, x)
    <3> SUFFICES ASSUME NEW o \in Obs, NEW x \in Ids
                 PROVE  ViewAt(bps', seen', frames', o, x)
      OBVIOUS
    <3>1. CASE x = id
      BY <3>1, <1>2, <2>1 DEF Inv, ViewAt
    <3>2. CASE x # id
      BY <3>2, <2>1 DEF Inv, ViewAt
    <3>3. QED
      BY <3>1, <3>2
  <2>3. DOMAIN bps' \subseteq Ids /\ \A x \in DOMAIN bps' : x < nextBpId'
    BY <1>1, <2>1 DEF Inv
  <2>4. \A i \in 1..Len(frames') :
          /\ frames'[i].id \in DOMAIN bps'
          /\ ~bps'[frames'[i].id]
          /\ \A j \in 1..Len(frames') : frames'[j].id = frames'[i].id => j = i
    BY <1>1, <2>1 DEF Inv
  <2>5. nextBpId' \in 1..MaxBreakpoints + 1 /\ seen' \in [Obs -> SUBSET Ids]
        /\ frames' \in Seq(FrameType)
    BY <1>1, <2>1 DEF Inv
  <2>6. QED
    BY <2>1, <2>2, <2>3, <2>4, <2>5 DEF Inv
<1>3. CASE ~bps[id]
  <2> DEFINE nf == Frame("destroy", id)
  <2>1. nf \in FrameType /\ nf.id = id /\ nf.op = "destroy" /\ nf.next = 1
    BY <1>1 DEF Inv, Frame, FrameType
  <2>2. /\ bps' = bps
        /\ frames' = Append(fs, nf) /\ frames' \in Seq(FrameType)
        /\ Len(frames') = Len(fs) + 1 /\ Len(fs) \in Nat
        /\ \A i \in 1..Len(fs) : frames'[i] = fs[i]
        /\ frames'[Len(fs) + 1] = nf
    BY <1>1, <1>3, <2>1, AppendProperties, LenProperties DEF DeleteBreakpoint
  <2>3. \A o \in Obs, x \in Ids : ViewAt(bps', seen', frames', o, x)
    <3> SUFFICES ASSUME NEW o \in Obs, NEW x \in Ids
                 PROVE  ViewAt(bps', seen', frames', o, x)
      OBVIOUS
    <3>1. CASE x = id
      <4>0. Agrees(Append(fs, nf), o, x) <=> ((nf.op = "create") = (o < nf.next))
        BY <3>1, <1>1, <2>1, AgreesAppendNew
      <4>3. Agrees(fs, o, x)
        BY <3>1, <1>1, AgreesNone
      <4>1. Agrees(frames', o, x) /\ Agrees(fs, o, x)
        BY <4>0, <4>3, <2>1, <2>2
      <4>2. QED
        BY <4>1, <3>1, <1>1, <1>3, <2>2 DEF Inv, ViewAt
    <3>2. CASE x # id
      <4>0. Agrees(Append(fs, nf), o, x) <=> Agrees(fs, o, x)
        BY <3>2, <1>1, <2>1, AgreesAppendOther
      <4>1. Agrees(frames', o, x) <=> Agrees(fs, o, x)
        BY <4>0, <2>2
      <4>2. QED
        BY <4>1, <2>2 DEF Inv, ViewAt
    <3>3. QED
      BY <3>1, <3>2
  <2>4. \A i \in 1..Len(frames') :
          /\ frames'[i].id \in DOMAIN bps'
          /\ ~bps'[frames'[i].id]
          /\ \A j \in 1..Len(frames') : frames'[j].id = frames'[i].id => j = i
    BY <1>1, <1>3, <2>1, <2>2 DEF Inv
  <2>5. nextBpId' \in 1..MaxBreakpoints + 1 /\ seen' \in [Obs -> SUBSET Ids]
        /\ DOMAIN bps' \subseteq Ids /\ bps' \in [DOMAIN bps' -> BOOLEAN]
        /\ \A x \in DOMAIN bps' : x < nextBpId'
    BY <1>1, <2>2 DEF Inv
  <2>6. QED
    BY <2>2, <2>3, <2>4, <2>5 DEF Inv
<1>4. QED
  BY <1>2, <1>3

\* Any one call of the registry made with stack fs and views sn.
LEMMA ACallInv ==
  ASSUME NEW fs, NEW sn, NEW D, Inv(bps, nextBpId, sn, fs),
         D \cap IdsOf(fs) = {}, ACall(fs, D), seen' = sn
  PROVE  Inv(bps', nextBpId', seen', frames')
<1>1. CASE CreateNewBreakpoint(fs)
  BY <1>1, CreateNewBreakpointInv
<1>2. CASE CreateNewInternalBreakpoint(fs)
  BY <1>2, CreateNewInternalBreakpointInv
<1>3. CASE \E id \in D : DeleteBreakpoint(id, fs)
  BY <1>3, DeleteBreakpointInv
<1>4. QED
  BY <1>1, <1>2, <1>3 DEF ACall

-----------------------------------------------------------------------------
(* The steps                                                               *)

\* Telling the innermost loop's next observer, before its callback makes a
\* call, keeps the invariant with the advanced stack and updated views.
LEMMA NotifyTold ==
  ASSUME Inv(bps, nextBpId, seen, frames), frames # <<>>,
         frames[Len(frames)].next \in Obs
  PROVE  LET f == frames[Len(frames)]
             o == f.next
         IN  Inv(bps, nextBpId, [seen EXCEPT ![o] = Tell(f, seen[o])],
                 [frames EXCEPT ![Len(frames)].next = o + 1])
<1> DEFINE L == Len(frames)  f == frames[L]  o == f.next
           fs == [frames EXCEPT ![L].next = o + 1]
           sn == [seen EXCEPT ![o] = Tell(f, seen[o])]
<1>1. L \in Nat /\ L >= 1 /\ f \in FrameType /\ o \in Obs
  BY EmptySeq, LenProperties DEF Inv
<1> DEFINE e == [f EXCEPT !.next = o + 1]
<1>2. /\ e \in FrameType /\ e.id = f.id /\ e.op = f.op /\ e.next = o + 1
      /\ fs = [frames EXCEPT ![L] = e]
  BY <1>1 DEF FrameType
<1>2a. /\ frames \in Seq(FrameType) /\ frames # <<>>
       /\ fs \in Seq(FrameType) /\ Len(fs) = L
  BY <1>1, <1>2, ExceptSeq DEF Inv
<1>3. /\ sn \in [Obs -> SUBSET Ids]
      /\ sn[o] = Tell(f, seen[o])
      /\ \A p \in Obs : p # o => sn[p] = seen[p]
  BY <1>1 DEF Inv, Tell, FrameType
<1>4. f.id \in DOMAIN bps /\ ~bps[f.id] /\ \A j \in 1..L : frames[j].id = f.id => j = L
  <2>1. L \in 1..Len(frames)
    BY <1>1
  <2>2. QED
    BY <2>1, Zenon DEF Inv
<1> HIDE DEF e
<1>5. \A p \in Obs, x \in Ids : ViewAt(bps, sn, fs, p, x)
  <2> SUFFICES ASSUME NEW p \in Obs, NEW x \in Ids
               PROVE  ViewAt(bps, sn, fs, p, x)
    OBVIOUS
  <2>0. p \in Nat
    OBVIOUS
  <2>1. CASE x = f.id
    <3>0. Agrees([frames EXCEPT ![Len(frames)] = e], p, x)
            <=> (e.op = "create" <=> p < e.next)
      <4>1. x = e.id /\ e.id = frames[Len(frames)].id /\ e.op = frames[Len(frames)].op
        BY <2>1, <1>2
      <4>2. \A j \in 1..Len(frames) : frames[j].id = frames[Len(frames)].id => j = Len(frames)
        BY <1>4
      <4>3. QED
        BY <2>0, <4>1, <4>2, <1>2, <1>2a, AgreesTop, Zenon
    <3>1. Agrees(fs, p, x) <=> ((f.op = "create") = (p < o + 1))
      BY <3>0, <1>2
    <3>2. Agrees(frames, p, x) <=> ((f.op = "create") = (p < o))
      BY <2>1, <1>1, <1>4 DEF Agrees
    <3>3. f.op \in {"create", "destroy"}
      BY <1>1 DEF FrameType
    <3>4. CASE p = o
      BY <3>1, <3>3, <3>4, <2>1, <1>1, <1>3, <1>4 DEF Tell, ViewAt
    <3>5. CASE p # o
      <4>1. (p < o + 1) = (p < o)
        BY <3>5, <1>1
      <4>2. QED
        BY <4>1, <3>1, <3>2, <3>5, <1>3 DEF Inv, ViewAt
    <3>6. QED
      BY <3>4, <3>5
  <2>2. CASE x # f.id
    <3>0. Agrees([frames EXCEPT ![Len(frames)] = e], p, x) <=> Agrees(frames, p, x)
      BY <2>0, <2>2, <1>2, <1>2a, <1>4, AgreesTop
    <3>1. Agrees(fs, p, x) <=> Agrees(frames, p, x)
      BY <3>0, <1>2
    <3>2. x \in sn[p] <=> x \in seen[p]
      BY <2>2, <1>1, <1>3 DEF Tell
    <3>3. QED
      BY <3>1, <3>2 DEF Inv, ViewAt
  <2>3. QED
    BY <2>1, <2>2
<1>6. \A i \in 1..L : fs[i].id = frames[i].id
  <2>1. \A i \in 1..L : i # L => fs[i] = frames[i]
    BY <1>1, <1>2, <1>2a, ExceptSeq
  <2>2. fs[L].id = frames[L].id
    BY <1>1, <1>2, <1>2a, ExceptSeq
  <2>3. QED
    BY <2>1, <2>2
<1>7. \A i \in 1..Len(fs) :
        /\ fs[i].id \in DOMAIN bps
        /\ ~bps[fs[i].id]
        /\ \A j \in 1..Len(fs) : fs[j].id = fs[i].id => j = i
  BY <1>2a, <1>6 DEF Inv
<1>8. QED
  <2>1. /\ DOMAIN bps \subseteq Ids /\ bps \in [DOMAIN bps -> BOOLEAN]
        /\ nextBpId \in 1..MaxBreakpoints + 1
        /\ \A id \in DOMAIN bps : id < nextBpId
    BY DEF Inv
  <2>2. QED
    BY <2>1, <1>2a, <1>3, <1>5, <1>7 DEF Inv


\* Notify: the notification, then the callback's call, if any, which may
\* not delete a breakpoint with a loop in progress (~DeleteAny).
LEMMA NotifyInv ==
  ASSUME ~DeleteAny, ObsInv, Notify
  PROVE  ObsInv'
<1> DEFINE L == Len(frames)  f == frames[L]  o == f.next
           fs == [frames EXCEPT ![L].next = o + 1]
           sn == [seen EXCEPT ![o] = Tell(f, seen[o])]
<1>1. Inv(bps, nextBpId, seen, frames) /\ frames # <<>> /\ o \in Obs
      /\ seen' = sn
  BY ObsInvAt DEF Notify
<1>2. Inv(bps, nextBpId, sn, fs)
  BY <1>1, NotifyTold
<1>3. CASE frames' = fs /\ UNCHANGED <<bps, nextBpId>>
  BY <1>1, <1>2, <1>3, ObsInvAtPrime
<1>4. CASE ACall(fs, Deletable)
  <2>1. L \in Nat /\ frames \in Seq(FrameType)
    BY <1>1, LenProperties DEF Inv
  <2>2. IdsOf(fs) = InProgress
    BY <2>1 DEF IdsOf, InProgress
  <2>3. Deletable \cap IdsOf(fs) = {}
    BY <2>2 DEF Deletable
  <2>4. QED
    BY <1>1, <1>2, <1>4, <2>3, ACallInv, ObsInvAtPrime
<1>5. QED
  BY <1>3, <1>4 DEF Notify

\* A call made by the user, with no loop in progress.
LEMMA UserCallInv ==
  ASSUME ObsInv, UserCall
  PROVE  ObsInv'
<1>1. Inv(bps, nextBpId, seen, <<>>) /\ seen' = seen
  BY ObsInvAt DEF UserCall
<1>2. DOMAIN bps \cap IdsOf(<<>>) = {}
  BY DEF IdsOf
<1>3. QED
  BY <1>1, <1>2, ACallInv, ObsInvAtPrime DEF UserCall

\* FinishLoop pops a finished loop; a destroy erases its breakpoint, which
\* every observer has by then been told is gone.
LEMMA FinishLoopInv ==
  ASSUME ObsInv, FinishLoop
  PROVE  ObsInv'
<1> DEFINE L == Len(frames)  f == frames[L]  g == SubSeq(frames, 1, L - 1)
<1>1. Inv(bps, nextBpId, seen, frames)
  BY ObsInvAt
<1>2. /\ frames # <<>> /\ frames' = g
      /\ bps' = IF f.op = "destroy" THEN Erase(f.id) ELSE bps
      /\ nextBpId' = nextBpId /\ seen' = seen
  BY DEF FinishLoop
<1>3. frames \in Seq(FrameType) /\ L \in Nat /\ L >= 1
  BY <1>1, <1>2, NonEmptyLen DEF Inv
<1>4. f \in FrameType
  BY <1>3, ElementOfSeq
<1>5. /\ g \in Seq(FrameType) /\ Len(g) = L - 1
      /\ \A i \in 1..L - 1 : g[i] = frames[i]
  BY <1>2, <1>3, PopSeq
<1>6. /\ f.id \in DOMAIN bps /\ ~bps[f.id]
      /\ \A j \in 1..L : frames[j].id = f.id => j = L
  <2>1. L \in 1..Len(frames)
    BY <1>3
  <2>2. QED
    BY <1>1, <2>1, Zenon DEF Inv
<1>7. /\ DOMAIN bps' = IF f.op = "destroy" THEN DOMAIN bps \ {f.id} ELSE DOMAIN bps
      /\ \A x \in DOMAIN bps' : bps'[x] = bps[x]
  BY <1>2 DEF Erase
<1> HIDE DEF g
<1>8. \A o \in Obs, x \in Ids : ViewAt(bps', seen', frames', o, x)
  <2> SUFFICES ASSUME NEW o \in Obs, NEW x \in Ids
               PROVE  ViewAt(bps', seen', frames', o, x)
    OBVIOUS
  <2>0. ViewAt(bps, seen, frames, o, x)
    BY <1>1 DEF Inv
  <2>1. CASE x = f.id
    <3>1. Agrees(g, o, x)
      BY <2>1, <1>2, <1>3, <1>6, AgreesPop DEF g
    <3>2. x \in seen[o] <=> x \in DOMAIN bps' /\ ~bps'[x]
      <4>1. f.op \in {"create", "destroy"} /\ f.next > NObs
        BY <1>2, <1>4 DEF FinishLoop, FrameType
      <4>2. Agrees(frames, o, x) <=> f.op = "create"
        <5>1. L \in 1..Len(frames) /\ frames[L].id = x /\ o < f.next
          BY <1>3, <1>4, <2>1, <4>1 DEF FrameType
        <5>2. \A i \in 1..L : frames[i].id = x => i = L
          BY <1>6, <2>1
        <5>3. QED
          BY <5>1, <5>2 DEF Agrees
      <4>3. QED
        BY <2>0, <2>1, <1>6, <1>7, <4>1, <4>2 DEF ViewAt
    <3>3. QED
      BY <3>1, <3>2, <1>2 DEF ViewAt
  <2>2. CASE x # f.id
    <3>1. Agrees(g, o, x) <=> Agrees(frames, o, x)
      BY <2>2, <1>2, <1>3, <1>6, AgreesPop DEF g
    <3>2. x \in DOMAIN bps' /\ ~bps'[x] <=> x \in DOMAIN bps /\ ~bps[x]
      BY <2>2, <1>7
    <3>3. QED
      BY <2>0, <3>1, <3>2, <1>2 DEF ViewAt
  <2>3. QED
    BY <2>1, <2>2
<1>9. \A i \in 1..L - 1 : frames'[i] = frames[i] /\ frames[i].id # f.id
  <2>1. \A i \in 1..L - 1 : i \in 1..L /\ i # L
    BY <1>3
  <2>2. QED
    BY <2>1, <1>2, <1>5, <1>6
<1>10. \A i \in 1..Len(frames') :
         /\ frames'[i].id \in DOMAIN bps'
         /\ ~bps'[frames'[i].id]
         /\ \A j \in 1..Len(frames') : frames'[j].id = frames'[i].id => j = i
  <2> SUFFICES ASSUME NEW i \in 1..L - 1
               PROVE  /\ frames'[i].id \in DOMAIN bps'
                      /\ ~bps'[frames'[i].id]
                      /\ \A j \in 1..L - 1 : frames'[j].id = frames'[i].id => j = i
    BY <1>2, <1>5
  <2>1. i \in 1..Len(frames)
    BY <1>3
  <2>2. frames[i].id \in DOMAIN bps /\ ~bps[frames[i].id]
        /\ \A j \in 1..L : frames[j].id = frames[i].id => j = i
    BY <1>1, <2>1, Zenon DEF Inv
  <2>3. \A j \in 1..L - 1 : j \in 1..L
    BY <1>3
  <2>4. QED
    BY <1>7, <1>9, <2>2, <2>3
<1>11. /\ DOMAIN bps' \subseteq Ids /\ bps' \in [DOMAIN bps' -> BOOLEAN]
       /\ \A id \in DOMAIN bps' : id < nextBpId'
  <2>1. CASE f.op = "destroy"
    BY <2>1, <1>1, <1>2 DEF Inv, Erase
  <2>2. CASE f.op # "destroy"
    BY <2>2, <1>1, <1>2 DEF Inv
  <2>3. QED
    BY <2>1, <2>2
<1>12. /\ nextBpId' \in 1..MaxBreakpoints + 1 /\ seen' \in [Obs -> SUBSET Ids]
       /\ frames' \in Seq(FrameType)
  BY <1>1, <1>2, <1>5 DEF Inv
<1>13. Inv(bps', nextBpId', seen', frames')
  BY <1>8, <1>10, <1>11, <1>12 DEF Inv
<1>14. QED
  BY <1>13, ObsInvAtPrime

\* The initial state satisfies ObsInv.
LEMMA InitInv == Init => ObsInv
  BY EmptySeq DEF Init, ObsInv, TypeOK, Told, UserBps

\* Every step, or stutter, preserves ObsInv.
LEMMA NextInv ==
  ASSUME ~DeleteAny, ObsInv, [Next]_vars
  PROVE  ObsInv'
<1>1. CASE UserCall
  BY <1>1, UserCallInv
<1>2. CASE Notify
  BY <1>2, NotifyInv
<1>3. CASE FinishLoop
  BY <1>3, FinishLoopInv
<1>4. CASE UNCHANGED vars
  BY <1>4 DEF vars, ObsInv, TypeOK, Told, UserBps
<1>5. QED
  BY <1>1, <1>2, <1>3, <1>4 DEF Next

-----------------------------------------------------------------------------
(* The properties                                                          *)

\* ObsInv holds in every reachable state when observers only delete
\* breakpoints whose notifications are complete.
THEOREM ObsInvHolds ==
  ASSUME ~DeleteAny
  PROVE  Spec => []ObsInv
<1>1. Init => ObsInv
  BY InitInv
<1>2. ObsInv /\ [Next]_vars => ObsInv'
  BY NextInv
<1>3. QED
  BY <1>1, <1>2, PTL DEF Spec

\* No notification loop of CreateNewBreakpoint or DeleteBreakpoint ever
\* holds a BreakpointImpl that a nested call has destroyed.
THEOREM NotifyingLiveBreakpointHolds ==
  ASSUME ~DeleteAny
  PROVE  Spec => []NotifyingLiveBreakpoint
<1>1. ObsInv => NotifyingLiveBreakpoint
  BY DEF ObsInv, NotifyingLiveBreakpoint
<1>2. QED
  BY <1>1, ObsInvHolds, PTL

\* Whenever no DidCreateBreakpoint or WillDestroyBreakpoint loop is
\* running, every observer has been told of exactly the user breakpoints.
THEOREM QuiescentViewsAgreeHolds ==
  ASSUME ~DeleteAny
  PROVE  Spec => []QuiescentViewsAgree
<1>1. ObsInv => QuiescentViewsAgree
  <2> SUFFICES ASSUME ObsInv, frames = <<>>, NEW o \in Obs
               PROVE  seen[o] = UserBps
    BY DEF QuiescentViewsAgree
  <2>1. \A x \in Ids : x \in seen[o] <=> x \in UserBps
    BY EmptySeq DEF ObsInv, Told
  <2>2. seen[o] \subseteq Ids /\ UserBps \subseteq Ids
    BY DEF ObsInv, TypeOK, UserBps
  <2>3. QED
    BY <2>1, <2>2
<1>2. QED
  BY <1>1, ObsInvHolds, PTL


-----------------------------------------------------------------------------
(* Type correctness, whatever a callback deletes                           *)

\* A call made with a well-typed stack leaves a well-typed state.
LEMMA ACallTypeOK ==
  ASSUME NEW fs \in Seq(FrameType), NEW D, TypeOK, ACall(fs, D),
         seen' \in [Obs -> SUBSET Ids]
  PROVE  TypeOK'
<1>1. CASE CreateNewBreakpoint(fs) \/ CreateNewInternalBreakpoint(fs)
  <2>0. nextBpId <= MaxBreakpoints /\ nextBpId' = nextBpId + 1
    BY <1>1 DEF CreateNewBreakpoint, CreateNewInternalBreakpoint
  <2>1. nextBpId \in Ids /\ nextBpId' = nextBpId + 1
    BY <2>0 DEF TypeOK
  <2>2. DOMAIN bps' = DOMAIN bps \cup {nextBpId} /\ bps' \in [DOMAIN bps' -> BOOLEAN]
    BY <1>1 DEF TypeOK, CreateNewBreakpoint, CreateNewInternalBreakpoint, Insert
  <2>3. frames' \in Seq(FrameType)
    <3>1. Frame("create", nextBpId) \in FrameType
      BY <2>1 DEF Frame, FrameType
    <3>2. Append(fs, Frame("create", nextBpId)) \in Seq(FrameType)
      BY <3>1, AppendProperties
    <3>3. QED
      BY <1>1, <3>2 DEF CreateNewBreakpoint, CreateNewInternalBreakpoint
  <2>4. QED
    BY <2>1, <2>2, <2>3 DEF TypeOK
<1>2. ASSUME NEW id \in D, DeleteBreakpoint(id, fs)
      PROVE  TypeOK'
  <2>1. id \in DOMAIN bps /\ id \in Ids
    BY <1>2 DEF TypeOK, DeleteBreakpoint
  <2>2. DOMAIN bps' \subseteq DOMAIN bps /\ bps' \in [DOMAIN bps' -> BOOLEAN]
    BY <1>2 DEF TypeOK, DeleteBreakpoint, Erase
  <2>3. frames' \in Seq(FrameType)
    <3>1. Frame("destroy", id) \in FrameType
      BY <2>1 DEF Frame, FrameType
    <3>2. QED
      BY <1>2, <3>1, AppendProperties DEF DeleteBreakpoint
  <2>4. QED
    BY <1>2, <2>2, <2>3 DEF TypeOK, DeleteBreakpoint
<1>3. QED
  BY <1>1, <1>2 DEF ACall

\* Telling an observer keeps its view a set of ids.
LEMMA NotifyTypeOK ==
  ASSUME TypeOK, Notify
  PROVE  TypeOK'
<1> DEFINE L == Len(frames)  f == frames[L]  o == f.next
           fs == [frames EXCEPT ![L].next = o + 1]
<1>1. L \in Nat /\ L >= 1 /\ f \in FrameType /\ o \in Obs
  BY NonEmptyLen, ElementOfSeq DEF TypeOK, Notify
<1>2. fs \in Seq(FrameType)
  <2>1. [f EXCEPT !.next = o + 1] \in FrameType
    BY <1>1 DEF FrameType
  <2>2. fs = [frames EXCEPT ![L] = [f EXCEPT !.next = o + 1]]
    OBVIOUS
  <2>3. QED
    BY <1>1, <2>1, <2>2, ExceptSeq DEF TypeOK
<1>3. seen' \in [Obs -> SUBSET Ids]
  BY <1>1 DEF TypeOK, Notify, Tell, FrameType
<1>4. CASE frames' = fs /\ UNCHANGED <<bps, nextBpId>>
  BY <1>2, <1>3, <1>4 DEF TypeOK
<1>5. CASE ACall(fs, Deletable)
  BY <1>2, <1>3, <1>5, ACallTypeOK
<1>6. QED
  BY <1>4, <1>5 DEF Notify

\* Popping a loop keeps the stack a sequence of frames.
LEMMA FinishLoopTypeOK ==
  ASSUME TypeOK, FinishLoop
  PROVE  TypeOK'
<1> DEFINE L == Len(frames)  f == frames[L]
<1>1. /\ frames # <<>> /\ frames' = SubSeq(frames, 1, L - 1)
      /\ bps' = IF f.op = "destroy" THEN Erase(f.id) ELSE bps
      /\ nextBpId' = nextBpId /\ seen' = seen
  BY DEF FinishLoop
<1>2. frames' \in Seq(FrameType)
  <2>1. frames \in Seq(FrameType)
    BY DEF TypeOK
  <2>2. QED
    BY <1>1, <2>1, PopSeq
<1>3. DOMAIN bps' \subseteq DOMAIN bps /\ bps' \in [DOMAIN bps' -> BOOLEAN]
  <2>1. CASE f.op = "destroy"
    BY <1>1, <2>1 DEF TypeOK, Erase
  <2>2. CASE f.op # "destroy"
    BY <1>1, <2>2 DEF TypeOK
  <2>3. QED
    BY <2>1, <2>2
<1>4. /\ DOMAIN bps' \subseteq Ids /\ nextBpId' \in 1..MaxBreakpoints + 1
      /\ seen' \in [Obs -> SUBSET Ids]
  BY <1>1, <1>3 DEF TypeOK
<1>5. QED
  BY <1>2, <1>3, <1>4 DEF TypeOK

LEMMA NextTypeOK ==
  ASSUME TypeOK, [Next]_vars
  PROVE  TypeOK'
<1>1. CASE UserCall
  <2>1. <<>> \in Seq(FrameType)
    OBVIOUS
  <2>2. QED
    BY <1>1, <2>1, ACallTypeOK DEF UserCall, TypeOK
<1>2. CASE Notify
  BY <1>2, NotifyTypeOK
<1>3. CASE FinishLoop
  BY <1>3, FinishLoopTypeOK
<1>4. CASE UNCHANGED vars
  BY <1>4 DEF vars, TypeOK
<1>5. QED
  BY <1>1, <1>2, <1>3, <1>4 DEF Next

\* Every reachable state is well typed: ids stay within the bound, views
\* are sets of ids, and every loop on the stack has a valid operation, id
\* and next observer, even when callbacks delete breakpoints whose loops
\* are still running.
THEOREM TypeCorrect == Spec => []TypeOK
<1>1. Init => TypeOK
  BY DEF Init, TypeOK
<1>2. TypeOK /\ [Next]_vars => TypeOK'
  BY NextTypeOK
<1>3. QED
  BY <1>1, <1>2, PTL DEF Spec

=============================================================================
