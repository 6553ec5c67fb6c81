-------------------------- MODULE SpecSafetyProofs --------------------------
(***************************************************************************)
(* In a safe configuration SafeInv is an inductive invariant of            *)
(* SpecExecutor; the safety properties follow from it.                     *)
(***************************************************************************)
EXTENDS SpecExecutorProofs

-----------------------------------------------------------------------------
(* Who holds which speculative state *)

Objects == [Tags -> StateType]

Holding(g) == OwnsHeld(g) /\ HeldByParent(g)

SameBooks(x, r) ==
    /\ x.kind = r.kind
    /\ x.pPerentState = r.pPerentState
    /\ x.specStates = r.specStates
    /\ x.finishedSpecStates = r.finishedSpecStates

LEMMA QueueTypes ==
    ASSUME NEW g \in Objects, NEW p \in Tags
    PROVE  /\ g[p] \in StateType
           /\ g[p].specStates \in Seq(Tags) /\ g[p].finishedSpecStates \in Seq(Tags)
           /\ \A i \in DOMAIN g[p].specStates : g[p].specStates[i] \in Tags
           /\ \A i \in DOMAIN g[p].finishedSpecStates : g[p].finishedSpecStates[i] \in Tags
BY DEF Objects, StateType

\* What Holding says of p, whose queues are q and f.
OwnsParts(g, p, q, f) ==
    /\ \A i \in DOMAIN q : q[i] \in Tags /\ g[q[i]].kind = "spec" /\ g[q[i]].pPerentState = p
    /\ \A i \in DOMAIN f : f[i] \in Tags /\ g[f[i]].kind = "spec" /\ g[f[i]].pPerentState = p
    /\ \A i \in DOMAIN q, j \in DOMAIN f : q[i] # f[j]
    /\ NoDuplicates(q) /\ NoDuplicates(f)
    /\ g[p].kind = "normal" /\ q = <<>> => f = <<>>
    /\ g[p].kind \in {"none", "spec"} => q = <<>> /\ f = <<>>

LEMMA OwnsPartsOf ==
    ASSUME NEW g \in Objects, NEW p \in Tags, Owns(g, p)
    PROVE  OwnsParts(g, p, g[p].specStates, g[p].finishedSpecStates)
<1> DEFINE q == g[p].specStates
           f == g[p].finishedSpecStates
<1>1. /\ \A i \in DOMAIN q : q[i] \in Tags
      /\ \A i \in DOMAIN f : f[i] \in Tags
  BY QueueTypes
<1>2. /\ \A i \in DOMAIN q : g[q[i]].kind = "spec" /\ g[q[i]].pPerentState = p
      /\ \A i \in DOMAIN f : g[f[i]].kind = "spec" /\ g[f[i]].pPerentState = p
      /\ \A i \in DOMAIN q, j \in DOMAIN f : q[i] # f[j]
      /\ NoDuplicates(q) /\ NoDuplicates(f)
      /\ g[p].kind = "normal" /\ q = <<>> => f = <<>>
      /\ g[p].kind \in {"none", "spec"} => q = <<>> /\ f = <<>>
  BY Zenon DEF Owns
<1> HIDE DEF q, f
<1>3. OwnsParts(g, p, q, f)
  BY <1>1, <1>2, Zenon DEF OwnsParts
<1> QED
  BY <1>3 DEF q, f

LEMMA OwnsFromParts ==
    ASSUME NEW g, NEW p, OwnsParts(g, p, g[p].specStates, g[p].finishedSpecStates)
    PROVE  Owns(g, p)
BY Zenon DEF Owns, OwnsParts

LEMMA HoldingOf ==
    ASSUME NEW g \in Objects, Holding(g), NEW p \in Tags
    PROVE  OwnsParts(g, p, g[p].specStates, g[p].finishedSpecStates)
BY OwnsPartsOf DEF Holding, OwnsHeld

\* The same queues hold the same states.
LEMMA OwnsTransfer ==
    ASSUME NEW g \in Objects, NEW h \in Objects, NEW p \in Tags, Owns(g, p),
           h[p].kind = g[p].kind, h[p].specStates = g[p].specStates,
           h[p].finishedSpecStates = g[p].finishedSpecStates,
           \A x \in Tags : g[x].kind = "spec" /\ g[x].pPerentState = p =>
                            h[x].kind = "spec" /\ h[x].pPerentState = p
    PROVE  Owns(h, p)
<1> DEFINE q == g[p].specStates
           f == g[p].finishedSpecStates
<1>1. OwnsParts(g, p, q, f)
  BY OwnsPartsOf
<1>2. h[p].specStates = q /\ h[p].finishedSpecStates = f
  OBVIOUS
<1> HIDE DEF q, f
<1>3. OwnsParts(h, p, q, f)
  BY <1>1 DEF OwnsParts
<1> QED
  BY <1>2, <1>3, OwnsFromParts

LEMMA SameBooksHolding ==
    ASSUME NEW g \in Objects, NEW h \in Objects, Holding(g),
           \A t \in Tags : SameBooks(h[t], g[t])
    PROVE  Holding(h)
<1>1. OwnsHeld(h)
  BY OwnsTransfer DEF Holding, OwnsHeld, SameBooks
<1>2. HeldByParent(h)
  BY QueueTypes DEF Holding, HeldByParent, SameBooks
<1> QED
  BY <1>1, <1>2 DEF Holding

\* A state that holds nothing yet is a new normal state, or is freed at once.
LEMMA NewNormalHolding ==
    ASSUME NEW g \in Objects, NEW h \in Objects, Holding(g), NEW f \in Tags,
           g[f].kind = "none", h[f].kind \in {"normal", "deleted"},
           h[f].specStates = <<>>, h[f].finishedSpecStates = <<>>,
           \A t \in Tags \ {f} : SameBooks(h[t], g[t])
    PROVE  Holding(h)
<1>1. g[f].specStates = <<>> /\ g[f].finishedSpecStates = <<>>
  BY DEF Holding, OwnsHeld, Owns
<1>2. ASSUME NEW p \in Tags PROVE Owns(h, p)
  <2>1. CASE p = f
    BY <2>1 DEF Owns, NoDuplicates
  <2>2. CASE p # f
    BY <2>2, OwnsTransfer DEF Holding, OwnsHeld, SameBooks
  <2> QED  BY <2>1, <2>2
<1>3. HeldByParent(h)
  <2> SUFFICES ASSUME NEW x \in Tags, h[x].kind = "spec"
               PROVE  /\ h[x].pPerentState \in Tags
                      /\ \/ Holds(h[h[x].pPerentState].specStates, x)
                         \/ Holds(h[h[x].pPerentState].finishedSpecStates, x)
    BY DEF HeldByParent
  <2>1. x # f /\ SameBooks(h[x], g[x])
    OBVIOUS
  <2> DEFINE o == g[x].pPerentState
  <2>2. o \in Tags /\ (Holds(g[o].specStates, x) \/ Holds(g[o].finishedSpecStates, x))
    BY <2>1 DEF Holding, HeldByParent, SameBooks
  <2>3. o # f
    BY <2>2, <1>1 DEF Holds
  <2> QED
    BY <2>1, <2>2, <2>3 DEF SameBooks
<1> QED
  BY <1>2, <1>3 DEF Holding, OwnsHeld

\* addSpeState: a new speculative state s at the end of the queue of its parent p.
LEMMA EnqueueHolding ==
    ASSUME NEW g \in Objects, NEW h \in Objects, Holding(g),
           NEW p \in Tags, NEW s \in Tags, g[p].kind = "normal", g[s].kind = "none",
           h[s].kind = "spec", h[s].pPerentState = p,
           h[s].specStates = <<>>, h[s].finishedSpecStates = <<>>,
           h[p].kind = "normal", h[p].specStates = Append(g[p].specStates, s),
           h[p].finishedSpecStates = g[p].finishedSpecStates,
           \A t \in Tags \ {s, p} : SameBooks(h[t], g[t])
    PROVE  Holding(h)
<1> DEFINE q == g[p].specStates
           f == g[p].finishedSpecStates
<1>1. q \in Seq(Tags) /\ f \in Seq(Tags) /\ p # s
  BY QueueTypes
<1>2. /\ DOMAIN Append(q, s) = DOMAIN q \cup {Len(q) + 1}
      /\ Len(q) + 1 \notin DOMAIN q
      /\ Append(q, s)[Len(q) + 1] = s
      /\ \A i \in DOMAIN q : Append(q, s)[i] = q[i]
  BY <1>1, SMTT(60)
<1>3. \A t \in Tags : /\ \A i \in DOMAIN g[t].specStates : g[t].specStates[i] # s
                      /\ \A i \in DOMAIN g[t].finishedSpecStates : g[t].finishedSpecStates[i] # s
  BY DEF Holding, OwnsHeld, Owns
<1>4. \A t \in Tags : t # s => h[t].kind = g[t].kind /\ (t # p => h[t].pPerentState = g[t].pPerentState)
  BY <1>1 DEF SameBooks
<1>5. ASSUME NEW t \in Tags PROVE Owns(h, t)
  <2>1. CASE t = s
    BY <2>1 DEF Owns, NoDuplicates
  <2>2. CASE t = p
    <3> DEFINE a == Append(q, s)
    <3>1. OwnsParts(g, p, q, f)
      BY HoldingOf
    <3>2. \A i \in DOMAIN q : q[i] # s
      BY <1>3
    <3>3. \A i \in DOMAIN f : f[i] # s
      BY <1>3
    <3>4. a # <<>>
      BY ONLY <1>1, SMTT(60) DEF q
    <3>5. h[p].specStates = a /\ h[p].finishedSpecStates = f /\ h[p].kind = "normal"
      OBVIOUS
    <3>6. \A i \in DOMAIN a : a[i] = s \/ (i \in DOMAIN q /\ a[i] = q[i])
      BY <1>2
    <3>7. NoDuplicates(a)
      <4>1. NoDuplicates(q)
        BY <3>1, Zenon DEF OwnsParts
      <4> HIDE DEF q
      <4>2. NoDuplicates(Append(q, s))
        BY ONLY <1>2, <3>2, <4>1, SMTT(60) DEF NoDuplicates
      <4> QED  BY <4>2
    <3> HIDE DEF a, q, f
    <3>8. \A x \in Tags : x # s /\ g[x].kind = "spec" /\ g[x].pPerentState = p =>
                            h[x].kind = "spec" /\ h[x].pPerentState = p
      BY <1>4
    <3>9. OwnsParts(h, p, a, f)
      BY <3>1, <3>2, <3>3, <3>4, <3>5, <3>6, <3>7, <3>8 DEF OwnsParts
    <3> QED  BY <2>2, <3>5, <3>9, OwnsFromParts
  <2>3. CASE t # s /\ t # p
    <3>1. SameBooks(h[t], g[t]) /\ Owns(g, t)
      BY <2>3 DEF Holding, OwnsHeld
    <3>2. ASSUME NEW x \in Tags, g[x].kind = "spec"
          PROVE  h[x].kind = "spec" /\ h[x].pPerentState = g[x].pPerentState
      BY <1>4, <3>2
    <3> QED
      BY <3>1, <3>2, OwnsTransfer DEF SameBooks
  <2> QED  BY <2>1, <2>2, <2>3
<1>6. HeldByParent(h)
  <2> SUFFICES ASSUME NEW x \in Tags, h[x].kind = "spec"
               PROVE  /\ h[x].pPerentState \in Tags
                      /\ \/ Holds(h[h[x].pPerentState].specStates, x)
                         \/ Holds(h[h[x].pPerentState].finishedSpecStates, x)
    BY DEF HeldByParent
  <2>1. CASE x = s
    BY <2>1, <1>2, ZenonT(60) DEF Holds
  <2>2. CASE x # s
    <3> DEFINE o == g[x].pPerentState
    <3>1. x # p /\ g[x].kind = "spec" /\ h[x].pPerentState = o
      BY <2>2, <1>4
    <3>2. o \in Tags /\ (Holds(g[o].specStates, x) \/ Holds(g[o].finishedSpecStates, x))
      BY <3>1, ZenonT(60) DEF Holding, HeldByParent
    <3>3. o # s
      <4>1. Owns(g, s) /\ g[s].kind = "none"
        BY Zenon DEF Holding, OwnsHeld
      <4>2. g[s].specStates = <<>> /\ g[s].finishedSpecStates = <<>>
        BY ONLY <4>1, ZenonT(60) DEF Owns
      <4>3. ~Holds(<<>>, x)
        BY ONLY SMTT(60) DEF Holds
      <4> HIDE DEF o
      <4> QED
        BY ONLY <3>2, <4>2, <4>3, ZenonT(60)
    <3>4. CASE o = p
      <4>1. h[p].finishedSpecStates = f /\ (Holds(q, x) \/ Holds(f, x))
        BY <3>2, <3>4, ZenonT(60)
      <4>2. h[p].specStates = Append(q, s)
        OBVIOUS
      <4> HIDE DEF q, f
      <4>3. Holds(q, x) => Holds(Append(q, s), x)
        BY ONLY <1>2, ZenonT(60) DEF Holds
      <4> HIDE DEF o
      <4> QED
        BY <3>1, <3>4, <4>1, <4>2, <4>3, ZenonT(60)
    <3>5. CASE o # p
      BY <3>1, <3>2, <3>3, <3>5 DEF SameBooks
    <3> QED  BY <3>4, <3>5
  <2> QED  BY <2>1, <2>2
<1> QED
  BY <1>5, <1>6 DEF Holding, OwnsHeld

LEMMA TailElements ==
    ASSUME NEW q \in Seq(Tags), q # <<>>
    PROVE  /\ 1 \in DOMAIN q /\ Head(q) = q[1]
           /\ \A i \in DOMAIN Tail(q) : /\ i + 1 \in DOMAIN q /\ i + 1 # 1
                                        /\ Tail(q)[i] = q[i + 1]
           /\ \A x : Holds(q, x) => x = Head(q) \/ Holds(Tail(q), x)
<1>1. /\ 1 \in DOMAIN q /\ Head(q) = q[1]
      /\ \A i \in DOMAIN Tail(q) : /\ i + 1 \in DOMAIN q /\ i + 1 # 1
                                   /\ Tail(q)[i] = q[i + 1]
  OBVIOUS
<1>2. ASSUME NEW i \in DOMAIN q, i # 1
      PROVE  i - 1 \in DOMAIN Tail(q) /\ Tail(q)[i - 1] = q[i]
  BY <1>2
<1> QED
  BY <1>1, <1>2 DEF Holds

LEMMA AppendElements ==
    ASSUME NEW f \in Seq(Tags), NEW s \in Tags
    PROVE  /\ \A i \in DOMAIN Append(f, s) :
                 Append(f, s)[i] = s \/ (i \in DOMAIN f /\ Append(f, s)[i] = f[i])
           /\ Holds(Append(f, s), s)
           /\ \A x : Holds(f, x) => Holds(Append(f, s), x)
           /\ NoDuplicates(f) /\ ~Holds(f, s) => NoDuplicates(Append(f, s))
           /\ Append(f, s) # <<>>
<1>1. /\ DOMAIN Append(f, s) = DOMAIN f \cup {Len(f) + 1}
      /\ Len(f) + 1 \notin DOMAIN f
      /\ Append(f, s)[Len(f) + 1] = s
      /\ \A i \in DOMAIN f : Append(f, s)[i] = f[i]
  OBVIOUS
<1>2. Append(f, s) # <<>>
  <2>1. Len(Append(f, s)) = Len(f) + 1 /\ Len(f) \in Nat
    OBVIOUS
  <2> QED  BY <2>1
<1> QED
  BY <1>1, <1>2 DEF Holds, NoDuplicates

\* removeHeadState, as a change of the objects: the head leaves the queue of p and
\* waits among the finished states, or is freed with all of them.
LEMMA RemoveHeadCases ==
    ASSUME TypeOK, NEW p \in Tags, st[p].specStates # <<>>
    PROVE  LET q == st[p].specStates
               f == Append(st[p].finishedSpecStates, Head(q))
               h == RemoveHeadState(p)
           IN  /\ h \in Objects
               /\ h[p].specStates = Tail(q)
               /\ h[p].kind = st[p].kind /\ h[p].ptreeNode = st[p].ptreeNode
               /\ h[p].pPerentState = st[p].pPerentState
               /\ \/ /\ h[p].finishedSpecStates = f /\ Tail(q) # <<>>
                     /\ \A t \in Tags \ {p} : h[t] = st[t]
                  \/ /\ h[p].finishedSpecStates = <<>>
                     /\ \A t \in Tags \ {p} :
                           h[t] = IF Holds(f, t) THEN Freed(st[t]) ELSE st[t]
<1> DEFINE q == st[p].specStates
           f == Append(st[p].finishedSpecStates, Head(q))
           rest == Tail(q)
           keep == Caching /\ rest # <<>>
           fin == IF keep THEN f ELSE <<>>
           h == RemoveHeadState(p)
<1>1. h \in Objects
  BY RemoveHeadStateType DEF Objects
<1>2. h[p] = [st[p] EXCEPT !.specStates = rest, !.finishedSpecStates = fin]
  BY DEF RemoveHeadState
<1>3. \A t \in Tags \ {p} : h[t] = IF ~keep /\ Holds(f, t) THEN Freed(st[t]) ELSE st[t]
  BY Zenon DEF RemoveHeadState, Holds
<1>4. /\ h[p].specStates = rest /\ h[p].finishedSpecStates = fin
      /\ h[p].kind = st[p].kind /\ h[p].ptreeNode = st[p].ptreeNode
      /\ h[p].pPerentState = st[p].pPerentState
  <2>1. st[p] \in StateType
    BY DEF TypeOK
  <2> HIDE DEF rest, fin, h
  <2> QED  BY <1>2, <2>1 DEF StateType
<1> HIDE DEF h
<1> QED
  BY <1>1, <1>3, <1>4, Zenon DEF h

LEMMA FreedFields ==
    ASSUME NEW r
    PROVE  /\ Freed(r).kind = "deleted" /\ Freed(r).specStates = r.specStates
           /\ Freed(r).finishedSpecStates = r.finishedSpecStates
BY DEF Freed, NoObject

LEMMA RemoveHeadHolding ==
    ASSUME TypeOK, Holding(st), NEW p \in Tags, st[p].kind = "normal",
           st[p].specStates # <<>>
    PROVE  /\ Holding(RemoveHeadState(p))
           /\ \A t \in Tags : st[t].kind # "spec" =>
                /\ RemoveHeadState(p)[t].kind = st[t].kind
                /\ RemoveHeadState(p)[t].ptreeNode = st[t].ptreeNode
                /\ t # p => RemoveHeadState(p)[t] = st[t]
           /\ \A t \in Tags : RemoveHeadState(p)[t].kind = "spec" => st[t].kind = "spec"
<1> DEFINE q == st[p].specStates
           d == st[p].finishedSpecStates
           f == Append(d, Head(q))
           rest == Tail(q)
           h == RemoveHeadState(p)
<1>1. st \in Objects /\ q \in Seq(Tags) /\ d \in Seq(Tags) /\ q # <<>>
  BY QueueTypes DEF TypeOK, Objects
<1>2. Head(q) \in Tags /\ f \in Seq(Tags) /\ rest \in Seq(Tags)
  BY <1>1
<1>3. /\ \A x : Holds(q, x) => x \in Tags /\ st[x].kind = "spec" /\ st[x].pPerentState = p
      /\ \A x : Holds(d, x) => x \in Tags /\ st[x].kind = "spec" /\ st[x].pPerentState = p
      /\ \A x : ~(Holds(q, x) /\ Holds(d, x))
      /\ NoDuplicates(q) /\ NoDuplicates(d)
  BY <1>1, QueueTypes DEF Holding, OwnsHeld, Owns, Holds
<1>4. Holds(q, Head(q)) /\ \A x : Holds(rest, x) => Holds(q, x) /\ x # Head(q)
  BY <1>1, <1>3, TailElements DEF Holds, NoDuplicates
<1>5. \A x : Holds(f, x) <=> x = Head(q) \/ Holds(d, x)
  <2>1. /\ \A i \in DOMAIN f : f[i] = Head(q) \/ (i \in DOMAIN d /\ f[i] = d[i])
        /\ Holds(f, Head(q)) /\ \A x : Holds(d, x) => Holds(f, x)
    BY <1>1, <1>2, AppendElements
  <2> HIDE DEF f, q, d
  <2> QED  BY <2>1, ZenonT(60) DEF Holds
<1>6. NoDuplicates(f) /\ NoDuplicates(rest)
  <2>1. NoDuplicates(rest)
    BY <1>1, <1>3, TailElements, SMTT(60) DEF NoDuplicates
  <2>2. NoDuplicates(f)
    BY <1>1, <1>2, <1>3, <1>4, AppendElements
  <2> QED  BY <2>1, <2>2
<1>7. \A x : Holds(f, x) => x \in Tags \ {p} /\ st[x].kind = "spec" /\ st[x].pPerentState = p
                            /\ ~Holds(rest, x)
  BY <1>3, <1>4, <1>5
<1>8. /\ h \in Objects
      /\ h[p].specStates = rest /\ h[p].kind = "normal" /\ h[p].ptreeNode = st[p].ptreeNode
      /\ \/ /\ h[p].finishedSpecStates = f /\ rest # <<>>
            /\ \A t \in Tags \ {p} : h[t] = st[t]
         \/ /\ h[p].finishedSpecStates = <<>>
            /\ \A t \in Tags \ {p} :
                  h[t] = IF Holds(f, t) THEN Freed(st[t]) ELSE st[t]
  BY RemoveHeadCases
<1>9. \A t \in Tags \ {p} : /\ ~Holds(f, t) => h[t] = st[t]
                            /\ h[t].specStates = st[t].specStates
                            /\ h[t].finishedSpecStates = st[t].finishedSpecStates
                            /\ h[t].kind = "spec" => h[t] = st[t]
                            /\ h[t] # st[t] => h[t].kind = "deleted"
  <2> HIDE DEF h, f
  <2> QED  BY <1>8, FreedFields
<1> HIDE DEF h, f, rest, q, d
<1>10. ASSUME NEW t \in Tags PROVE Owns(h, t)
  <2>1. CASE t = p
    <3>1. ASSUME NEW x, Holds(rest, x) PROVE h[x].kind = "spec" /\ h[x].pPerentState = p
      BY <3>1, <1>3, <1>4, <1>7, <1>9
    <3>2. CASE h[p].finishedSpecStates = f /\ rest # <<>> /\ \A x \in Tags \ {p} : h[x] = st[x]
      <4>1. ASSUME NEW x, Holds(f, x) PROVE h[x].kind = "spec" /\ h[x].pPerentState = p
        BY <4>1, <1>7, <3>2
      <4> QED
        BY <2>1, <1>6, <1>7, <1>8, <3>1, <3>2, <4>1 DEF Owns, Holds
    <3>3. CASE h[p].finishedSpecStates = <<>>
      <4>1. NoDuplicates(<<>>)
        BY DEF NoDuplicates
      <4> QED
        BY <2>1, <1>6, <1>8, <3>1, <3>3, <4>1 DEF Owns, Holds
    <3> QED  BY <1>8, <3>2, <3>3
  <2>2. CASE t # p /\ h[t] = st[t]
    <3>1. ASSUME NEW x \in Tags, st[x].kind = "spec", st[x].pPerentState = t
          PROVE  h[x].kind = "spec" /\ h[x].pPerentState = t
      BY <2>2, <3>1, <1>7, <1>9
    <3>2. Owns(st, t)
      BY ZenonT(60) DEF Holding, OwnsHeld
    <3> QED
      BY <1>1, <1>8, <2>2, <3>1, <3>2, OwnsTransfer
  <2>3. CASE t # p /\ h[t] # st[t]
    <3>1. Holds(f, t) /\ st[t].kind = "spec"
      BY <2>3, <1>7, <1>9
    <3>2. st[t].specStates = <<>> /\ st[t].finishedSpecStates = <<>>
      BY <3>1 DEF Holding, OwnsHeld, Owns
    <3> QED
      BY <2>3, <3>2, <1>9 DEF Owns, NoDuplicates
  <2> QED  BY <2>1, <2>2, <2>3
<1>11. ASSUME NEW x \in Tags, h[x].kind = "spec"
       PROVE  /\ h[x].pPerentState \in Tags
              /\ \/ Holds(h[h[x].pPerentState].specStates, x)
                 \/ Holds(h[h[x].pPerentState].finishedSpecStates, x)
  <2>1. x # p /\ h[x] = st[x]
    BY <1>8, <1>9, <1>11
  <2> DEFINE o == st[x].pPerentState
  <2>2. o \in Tags /\ (Holds(st[o].specStates, x) \/ Holds(st[o].finishedSpecStates, x))
    BY <1>11, <2>1 DEF Holding, HeldByParent
  <2>3. CASE o # p
    BY <2>1, <2>2, <2>3, <1>9
  <2>4. CASE o = p
    <3>1. Holds(rest, x) \/ Holds(f, x)
      BY <2>2, <2>4, <1>1, <1>5, TailElements DEF q, d, rest
    <3>2. CASE Holds(rest, x)
      BY <3>2, <2>1, <2>4, <1>8
    <3>3. CASE Holds(f, x)
      <4>1. Freed(st[x]).kind # "spec"
        BY FreedFields
      <4> QED
        BY <3>3, <4>1, <2>1, <2>4, <1>8, <1>11
    <3> QED  BY <3>1, <3>2, <3>3
  <2> QED  BY <2>3, <2>4
<1>12. /\ \A t \in Tags : st[t].kind # "spec" =>
             /\ h[t].kind = st[t].kind /\ h[t].ptreeNode = st[t].ptreeNode
             /\ t # p => h[t] = st[t]
       /\ \A t \in Tags : h[t].kind = "spec" => st[t].kind = "spec"
  BY <1>7, <1>8, <1>9
<1> QED
  BY <1>10, <1>11, <1>12 DEF Holding, OwnsHeld, HeldByParent, h

-----------------------------------------------------------------------------
(* The states in the process tree *)

\* The leaves of the tree are the nodes of the states in S.
TreeOf(tree, g, S) ==
    /\ WellFormed(tree)
    /\ \A n \in DOMAIN tree : tree[n] # NoState => tree[n] \in S /\ g[tree[n]].ptreeNode = n
    /\ \A t \in S : /\ g[t].kind = "normal"
                    /\ g[t].ptreeNode \in DOMAIN tree
                    /\ tree[g[t].ptreeNode] = t

SamePlace(x, r) == x.kind = r.kind /\ x.ptreeNode = r.ptreeNode

LEMMA TreeUnchanged ==
    ASSUME NEW tree, NEW g, NEW h, NEW S, TreeOf(tree, g, S),
           \A t \in S : SamePlace(h[t], g[t])
    PROVE  TreeOf(tree, h, S)
BY DEF TreeOf, SamePlace

LEMMA TreeCanSplit ==
    ASSUME NEW tree, NEW g, NEW S, S \subseteq Tags, TreeOf(tree, g, S), NEW t \in S
    PROVE  /\ CanSplit(tree, g[t].ptreeNode) /\ CanRemove(tree, g[t].ptreeNode)
           /\ g[t].ptreeNode \in Node
BY TagsNat DEF TreeOf, WellFormed, CanSplit, CanRemove

\* A fork puts the new state f in the left child and t in the right child.
LEMMA TreeSplit ==
    ASSUME NEW tree, NEW g, NEW h, NEW S, S \subseteq Tags, TreeOf(tree, g, S),
           NEW t \in S, NEW f \in Tags, f \notin S,
           h[t].kind = "normal", h[t].ptreeNode = RightChild(g[t].ptreeNode),
           h[f].kind = "normal", h[f].ptreeNode = LeftChild(g[t].ptreeNode),
           \A x \in S \ {t} : SamePlace(h[x], g[x])
    PROVE  TreeOf(Split(tree, g[t].ptreeNode, f, t), h, S \cup {f})
<1> DEFINE n == g[t].ptreeNode
           l == LeftChild(n)
           r == RightChild(n)
           new == Split(tree, n, f, t)
<1>1. CanSplit(tree, n) /\ n \in DOMAIN tree /\ n \in Node
      /\ l \notin DOMAIN tree /\ r \notin DOMAIN tree /\ tree[n] = t
  BY TreeCanSplit DEF CanSplit, IsLeaf, TreeOf
<1>2. l # r /\ n # l /\ n # r
  BY <1>1, Children
<1>3. WellFormed(new)
  BY <1>1, TagsNat, SplitWellFormed DEF TreeOf
<1>4. /\ DOMAIN new = DOMAIN tree \cup {l, r}
      /\ new[n] = NoState /\ new[l] = f /\ new[r] = t
      /\ \A m \in DOMAIN tree : m # n => new[m] = tree[m]
  BY <1>1, <1>2, ZenonT(60) DEF Split
<1>5. ASSUME NEW m \in DOMAIN new, new[m] # NoState
      PROVE  new[m] \in S \cup {f} /\ h[new[m]].ptreeNode = m
  <2>1. CASE m \in {l, r}
    BY <2>1, <1>4
  <2>2. CASE m \in DOMAIN tree /\ m # n
    <3>1. new[m] = tree[m] /\ tree[m] \in S /\ g[tree[m]].ptreeNode = m
      BY <2>2, <1>4, <1>5, ZenonT(60) DEF TreeOf
    <3> QED
      BY <2>2, <3>1, ZenonT(60) DEF SamePlace
  <2> QED  BY <1>4, <1>5, <2>1, <2>2, ZenonT(60)
<1>6. ASSUME NEW x \in S \cup {f}
      PROVE  h[x].kind = "normal" /\ h[x].ptreeNode \in DOMAIN new /\ new[h[x].ptreeNode] = x
  <2>1. CASE x \in {t, f}
    BY <2>1, <1>4, ZenonT(60)
  <2>2. CASE x \in S \ {t}
    <3>1. g[x].kind = "normal" /\ g[x].ptreeNode \in DOMAIN tree /\ tree[g[x].ptreeNode] = x
      BY <2>2 DEF TreeOf
    <3>2. g[x].ptreeNode # n
      BY <2>2, <3>1, <1>1, ZenonT(60)
    <3> QED
      BY <2>2, <3>1, <3>2, <1>4 DEF SamePlace
  <2> QED  BY <2>1, <2>2, ZenonT(60)
<1> QED
  BY <1>3, <1>5, <1>6 DEF TreeOf

\* updateStates takes the node of a removed state out of the tree.
LEMMA TreeRemove ==
    ASSUME NEW tree, NEW g, NEW h, NEW S, S \subseteq Tags, TreeOf(tree, g, S), NEW t \in S,
           \A x \in S \ {t} : SamePlace(h[x], g[x])
    PROVE  TreeOf(Remove(tree, g[t].ptreeNode), h, S \ {t})
<1> DEFINE n == g[t].ptreeNode
           new == Remove(tree, n)
<1>1. CanRemove(tree, n) /\ tree[n] = t
  BY TreeCanSplit DEF TreeOf
<1>2. /\ WellFormed(new)
      /\ DOMAIN new \subseteq DOMAIN tree /\ n \notin DOMAIN new
      /\ \A m \in DOMAIN new : new[m] = tree[m]
      /\ \A m \in DOMAIN tree : tree[m] # NoState /\ m # n => m \in DOMAIN new
  BY <1>1, RemoveWellFormed DEF TreeOf
<1>3. ASSUME NEW m \in DOMAIN new, new[m] # NoState
      PROVE  new[m] \in S \ {t} /\ h[new[m]].ptreeNode = m
  <2>1. new[m] = tree[m] /\ m # n /\ tree[m] \in S /\ g[tree[m]].ptreeNode = m
    BY <1>2, <1>3 DEF TreeOf
  <2> QED
    BY <2>1 DEF SamePlace
<1>4. ASSUME NEW x \in S \ {t}
      PROVE  h[x].kind = "normal" /\ h[x].ptreeNode \in DOMAIN new /\ new[h[x].ptreeNode] = x
  <2>1. g[x].kind = "normal" /\ g[x].ptreeNode \in DOMAIN tree /\ tree[g[x].ptreeNode] = x
        /\ x # NoState
    BY TagsNat DEF TreeOf
  <2>2. g[x].ptreeNode # n
    BY <2>1, <1>1
  <2> QED
    BY <2>1, <2>2, <1>2 DEF SamePlace
<1> QED
  BY <1>2, <1>3, <1>4 DEF TreeOf

\* A state that is freed leaves what it holds as it is.
LEMMA FreedHolding ==
    ASSUME NEW g \in Objects, NEW h \in Objects, Holding(g), NEW t \in Tags,
           g[t].kind = "normal", h[t].kind = "deleted",
           h[t].specStates = g[t].specStates,
           h[t].finishedSpecStates = g[t].finishedSpecStates,
           \A x \in Tags \ {t} : SameBooks(h[x], g[x])
    PROVE  Holding(h)
<1>1. \A x \in Tags : g[x].kind = "spec" => h[x].kind = "spec" /\ h[x].pPerentState = g[x].pPerentState
  BY DEF SameBooks
<1>2. ASSUME NEW p \in Tags PROVE Owns(h, p)
  <2>1. CASE p # t
    <3>1. SameBooks(h[p], g[p]) /\ Owns(g, p)
      BY <2>1, Zenon DEF Holding, OwnsHeld
    <3>2. /\ h[p].kind = g[p].kind /\ h[p].specStates = g[p].specStates
          /\ h[p].finishedSpecStates = g[p].finishedSpecStates
      BY <3>1, Zenon DEF SameBooks
    <3>3. \A x \in Tags : g[x].kind = "spec" /\ g[x].pPerentState = p =>
                            h[x].kind = "spec" /\ h[x].pPerentState = p
      BY <1>1, Zenon
    <3> QED
      BY ONLY g \in Objects, h \in Objects, p \in Tags, <3>1, <3>2, <3>3, OwnsTransfer, SMTT(60)
  <2>2. CASE p = t
    <3> DEFINE q == g[p].specStates
               f == g[p].finishedSpecStates
    <3>1. OwnsParts(g, p, q, f)
      BY HoldingOf
    <3>2. h[p].specStates = q /\ h[p].finishedSpecStates = f /\ h[p].kind = "deleted"
      BY <2>2, Zenon
    <3> HIDE DEF q, f
    <3>3. OwnsParts(h, p, q, f)
      BY <1>1, <3>1, <3>2, ZenonT(60) DEF OwnsParts
    <3> QED
      BY <3>2, <3>3, OwnsFromParts, ZenonT(60)
  <2> QED  BY <2>1, <2>2, ZenonT(60)
<1>3. HeldByParent(h)
  <2> SUFFICES ASSUME NEW x \in Tags, h[x].kind = "spec"
               PROVE  /\ h[x].pPerentState \in Tags
                      /\ \/ Holds(h[h[x].pPerentState].specStates, x)
                         \/ Holds(h[h[x].pPerentState].finishedSpecStates, x)
    BY Zenon DEF HeldByParent
  <2>1. x # t /\ SameBooks(h[x], g[x])
    BY Zenon
  <2> DEFINE o == g[x].pPerentState
  <2>2. o \in Tags /\ (Holds(g[o].specStates, x) \/ Holds(g[o].finishedSpecStates, x))
    BY <2>1, Zenon DEF Holding, HeldByParent, SameBooks
  <2>3. h[o].specStates = g[o].specStates /\ h[o].finishedSpecStates = g[o].finishedSpecStates
    BY <2>2 DEF SameBooks
  <2> QED
    BY <2>1, <2>2, <2>3, ZenonT(60) DEF SameBooks
<1> QED
  BY <1>2, <1>3, Zenon DEF Holding, OwnsHeld

-----------------------------------------------------------------------------
(* The parts of SafeInv *)

Known == states \cup addedStates

LEMMA SafeParts ==
    ASSUME SafeInv
    PROVE  /\ TypeOK /\ FreshTags /\ IterationInv /\ RunsHeadFirst /\ VerifiedAfterSpeculation
           /\ st \in Objects /\ Holding(st)
           /\ Known \subseteq Tags /\ TreeOf(processTree, st, Known)
BY DEF SafeInv, TypeOK, Objects, Holding, TreeMatchesStates, TreeOf, Known, IterationInv

LEMMA SafeFromParts ==
    ASSUME TypeOK', FreshTags', IterationInv', RunsHeadFirst', VerifiedAfterSpeculation',
           Holding(st'), TreeOf(processTree', st', Known')
    PROVE  SafeInv'
<1>1. OwnsHeld(st') /\ HeldByParent(st')
  BY Zenon DEF Holding
<1>2. TreeMatchesStates'
  BY Zenon DEF TreeMatchesStates, TreeOf, Known
<1> QED
  BY <1>1, <1>2, Zenon DEF SafeInv

\* What is known of the state that is executing.
LEMMA Executing ==
    ASSUME SafeInv, phase = "execute"
    PROVE  LET p == Owner(current)
           IN  /\ current \in Tags /\ p \in states /\ p \in Tags /\ st[p].kind = "normal"
               /\ removedStates = <<>> /\ addedStates = {}
               /\ IsSpec(current) =>
                    /\ p = st[current].pPerentState /\ p # current
                    /\ st[p].specStates # <<>> /\ Head(st[p].specStates) = current
               /\ ~IsSpec(current) =>
                    /\ p = current
                    /\ st[p].specStates = <<>> /\ st[p].finishedSpecStates = <<>>
<1>1. current \in Tags /\ RunsHeadFirst /\ IterationInv /\ Holding(st)
  BY SafeParts DEF TypeOK
<1>2. Owner(current) \in Tags /\ st[Owner(current)].kind = "normal"
  BY <1>1 DEF RunsHeadFirst
<1> QED
  BY <1>1, <1>2 DEF RunsHeadFirst, IterationInv, Owner, IsSpec, Holding, OwnsHeld, Owns

\* What every instruction leaves to be shown.
LEMMA AfterInstruction ==
    ASSUME SafeInv, phase = "execute", TypeOK', FreshTags', Holding(st'),
           TreeOf(processTree', st', Known'), phase' = "timers", error' = "none",
           states' = states, current' = current,
           \A s \in Tags : st'[s].kind = "spec" => Speculating,
           states \cap addedStates' = {},
           \/ removedStates' = <<>>
           \/ /\ removedStates' = <<current>> /\ ~IsSpec(current) /\ st' = st
    PROVE  SafeInv'
<1>1. IterationInv'
  <2>1. /\ NoDuplicates(removedStates')
        /\ \A i \in DOMAIN removedStates' : removedStates'[i] \in states'
    BY Executing DEF NoDuplicates
  <2> QED  BY <2>1, ZenonT(60) DEF IterationInv, IsSpec
<1>2. VerifiedAfterSpeculation'
  BY Executing DEF VerifiedAfterSpeculation
<1>3. RunsHeadFirst'
  BY ZenonT(60) DEF RunsHeadFirst
<1> QED
  BY <1>1, <1>2, <1>3, SafeFromParts

\* What is known of the state whose instruction takes several steps.
LEMMA InInstruction ==
    ASSUME SafeInv, phase \in {"forks", "branches", "ends"}
    PROVE  /\ current \in Tags /\ current \in states /\ current \in Known
           /\ Working \subseteq Known /\ states \cap addedStates = {}
           /\ st[current].specStates = <<>>
           /\ NoDuplicates(removedStates) /\ removedStates \in Seq(Tags)
           /\ \A i \in DOMAIN removedStates : removedStates[i] \in states
           /\ error = "none" /\ \A s \in Tags : st[s].kind = "spec" => Speculating
BY SafeParts, ZenonT(60) DEF TypeOK, IterationInv, Known, Working, IsSpec

\* What each of its steps leaves to be shown.
LEMMA WithinInstruction ==
    ASSUME TypeOK', FreshTags', Holding(st'), TreeOf(processTree', st', Known'),
           phase' \in {"forks", "branches", "ends", "timers"}, error' = "none",
           current' \in states', st'[current'].specStates = <<>>,
           \A s \in Tags : st'[s].kind = "spec" => Speculating,
           NoDuplicates(removedStates'),
           \A i \in DOMAIN removedStates' : removedStates'[i] \in states',
           phase' = "branches" => removedStates' = <<>>,
           states' \cap addedStates' = {}
    PROVE  SafeInv'
<1>1. IterationInv'
  BY ZenonT(60) DEF IterationInv, IsSpec
<1>2. VerifiedAfterSpeculation'
  <2>1. current' \in Tags /\ st'[current'].kind = "normal"
    BY ZenonT(60) DEF TreeOf, Known, TypeOK
  <2>2. st'[current'].finishedSpecStates = <<>>
    BY <2>1, ZenonT(60) DEF Holding, OwnsHeld, Owns
  <2> QED  BY <2>2, ZenonT(60) DEF VerifiedAfterSpeculation
<1>3. RunsHeadFirst'
  BY ZenonT(60) DEF RunsHeadFirst
<1> QED
  BY <1>1, <1>2, <1>3, SafeFromParts, ZenonT(60)

\* Tags stay fresh when none is handed out and no fresh one becomes an object.
LEMMA FreshKept ==
    ASSUME FreshTags, UNCHANGED <<count, spCount>>,
           \A x \in Tags : st[x].kind = "none" => st'[x] = st[x]
    PROVE  FreshTags'
<1>1. NoObject.kind = "none"
  BY DEF NoObject
<1>2. count' = count /\ spCount' = spCount
  OBVIOUS
<1> QED
  BY <1>1, <1>2, ZenonT(60) DEF FreshTags

LEMMA TerminateSpecSafe ==
    ASSUME SafeInv, phase = "execute", IsSpec(current), TypeOK',
           TerminateSpecState(current, "timers"), UNCHANGED current
    PROVE  SafeInv'
<1> DEFINE p == st[current].pPerentState
<1>1. /\ current \in Tags /\ p \in Tags /\ p # NoState /\ st[p].kind = "normal"
      /\ st[p].specStates # <<>> /\ Head(st[p].specStates) = current
      /\ removedStates = <<>> /\ addedStates = {}
  BY Executing, TagsNat
<1>2. SpecTerminationError(current) = "none"
  BY <1>1 DEF SpecTerminationError, IsSpec
<1>3. st' = RemoveHeadState(p) /\ phase' = "timers"
      /\ UNCHANGED <<count, spCount, processTree, states, addedStates,
                     removedStates, spStates, error>>
  BY <1>2 DEF TerminateSpecState
<1>4. TypeOK /\ Holding(st) /\ FreshTags /\ IterationInv /\ TreeOf(processTree, st, Known)
      /\ Known \subseteq Tags
  BY SafeParts, ZenonT(60)
<1>5. /\ Holding(st')
      /\ \A t \in Tags : st[t].kind # "spec" =>
            /\ st'[t].kind = st[t].kind /\ st'[t].ptreeNode = st[t].ptreeNode
            /\ t # p => st'[t] = st[t]
      /\ \A t \in Tags : st'[t].kind = "spec" => st[t].kind = "spec"
  BY <1>1, <1>3, <1>4, RemoveHeadHolding, ZenonT(60)
<1>6. FreshTags'
  <2>1. \A x \in Tags : st[x].kind = "none" => st'[x] = st[x]
    BY <1>1, <1>5, ZenonT(60)
  <2> QED
    BY <1>3, <1>4, <2>1, FreshKept, ZenonT(60)
<1>7. TreeOf(processTree', st', Known')
  <2>1. \A t \in Known : SamePlace(st'[t], st[t])
    BY <1>4, <1>5, ZenonT(60) DEF TreeOf, SamePlace
  <2> QED
    BY <1>3, <1>4, <2>1, TreeUnchanged, ZenonT(60) DEF Known
<1>8. error' = "none" /\ \A s \in Tags : st'[s].kind = "spec" => Speculating
  BY <1>3, <1>4, <1>5, ZenonT(60) DEF IterationInv, IsSpec
<1>9. states \cap addedStates' = {} /\ removedStates' = <<>>
  BY <1>1, <1>3
<1> QED
  BY <1>3, <1>5, <1>6, <1>7, <1>8, <1>9, AfterInstruction, ZenonT(60)

LEMMA TerminateNormalSafe ==
    ASSUME SafeInv, phase = "execute", ~IsSpec(current), TypeOK',
           TerminateState(current, "timers"), UNCHANGED current
    PROVE  SafeInv'
<1>1. st[current].kind = "normal" /\ removedStates = <<>> /\ addedStates = {}
  BY Executing
<1>2. /\ removedStates' = Append(removedStates, current) /\ phase' = "timers"
      /\ UNCHANGED <<st, count, spCount, processTree, states, addedStates, error>>
  BY <1>1 DEF TerminateState
<1>3. removedStates' = <<current>> /\ states \cap addedStates' = {}
  BY <1>1, <1>2
<1>4. /\ FreshTags /\ Holding(st) /\ TreeOf(processTree, st, Known)
      /\ error = "none" /\ \A s \in Tags : st[s].kind = "spec" => Speculating
  BY SafeParts, ZenonT(60) DEF IterationInv, IsSpec
<1>5. FreshTags'
  BY <1>2, <1>4 DEF FreshTags
<1>6. TreeOf(processTree', st', Known')
  BY <1>2, <1>4 DEF Known
<1> QED
  BY <1>2, <1>3, <1>4, <1>5, <1>6, AfterInstruction

LEMMA TerminateSafe ==
    ASSUME SafeInv, phase = "execute", TypeOK', TerminateState(current, "timers"),
           UNCHANGED current
    PROVE  SafeInv'
BY TerminateNormalSafe, TerminateSpecSafe DEF TerminateState, IsSpec

-----------------------------------------------------------------------------
(* SafeInv: instructions that go on, and forks *)

LEMMA SteppedFields ==
    ASSUME TypeOK, NEW t \in Tags
    PROVE  LET base == [Stepped(t) EXCEPT !.depth = @ + 1]
           IN  /\ Stepped(t) \in StateType /\ base \in StateType
               /\ SameBooks(Stepped(t), st[t]) /\ SamePlace(Stepped(t), st[t])
               /\ SameBooks(base, st[t]) /\ SamePlace(base, st[t])
<1> DEFINE next == Stepped(t)
           base == [next EXCEPT !.depth = @ + 1]
<1>1. next \in StateType /\ base \in StateType
  BY SteppedType, DeeperType
<1>2. SameBooks(next, st[t]) /\ SamePlace(next, st[t])
  BY DEF Stepped, SameBooks, SamePlace, TypeOK, StateType
<1>3. SameBooks(base, next) /\ SamePlace(base, next)
  <2> HIDE DEF next
  <2> QED  BY <1>1 DEF SameBooks, SamePlace, StateType
<1> QED
  BY <1>1, <1>2, <1>3 DEF SameBooks, SamePlace

LEMMA SpecBranchFields ==
    ASSUME NEW src \in StateType, NEW p \in Tags
    PROVE  LET new == SpecBranch(src, p)
           IN  /\ new \in StateType /\ new.kind = "spec" /\ new.pPerentState = p
               /\ new.specStates = <<>> /\ new.finishedSpecStates = <<>>
BY SpecBranchType, ZenonT(60) DEF SpecBranch, StateType

LEMMA CopyOfFields ==
    ASSUME NEW src \in StateType
    PROVE  LET new == CopyOf(src)
           IN  /\ new \in StateType /\ new.kind = src.kind
               /\ new.specStates = <<>> /\ new.finishedSpecStates = <<>>
BY CopyOfType, Zenon DEF CopyOf, StateType

LEMMA StayAliveSafe ==
    ASSUME SafeInv, phase = "execute", TypeOK', NEW next, StayAlive(next), UNCHANGED current,
           next = "timers" \/ (next \in {"forks", "branches"} /\ ~IsSpec(current))
    PROVE  SafeInv'
<1>1. /\ TypeOK /\ FreshTags /\ Holding(st) /\ st \in Objects /\ TreeOf(processTree, st, Known)
      /\ Known \subseteq Tags
      /\ error = "none" /\ \A s \in Tags : st[s].kind = "spec" => Speculating
  BY SafeParts DEF IterationInv, IsSpec
<1>2. /\ current \in Tags /\ st[current].kind # "none"
      /\ removedStates = <<>> /\ addedStates = {}
      /\ ~IsSpec(current) => current \in states /\ st[current].specStates = <<>>
  BY Executing DEF IsSpec
<1>3. st' = [st EXCEPT ![current] = Stepped(current)] /\ phase' = next
      /\ UNCHANGED <<count, spCount, processTree, states, addedStates,
                     removedStates, spStates, spStatesDone, error>>
  BY DEF StayAlive
<1>4. \A t \in Tags : SameBooks(st'[t], st[t]) /\ SamePlace(st'[t], st[t])
  BY <1>1, <1>2, <1>3, SteppedFields, ZenonT(60) DEF SameBooks, SamePlace, Objects
<1>5. \A t \in Tags : t # current => st'[t] = st[t]
  BY <1>1, <1>3 DEF Objects
<1>6. Holding(st')
  BY <1>1, <1>4, SameBooksHolding DEF TypeOK, Objects
<1>7. FreshTags'
  <2>1. \A x \in Tags : st[x].kind = "none" => st'[x] = st[x]
    BY <1>2, <1>5, ZenonT(60)
  <2> QED
    BY <1>1, <1>3, <2>1, FreshKept, ZenonT(60)
<1>8. TreeOf(processTree', st', Known')
  BY <1>1, <1>3, <1>4, TreeUnchanged, ZenonT(60) DEF Known
<1>9. \A s \in Tags : st'[s].kind = "spec" => Speculating
  BY <1>1, <1>4 DEF SameBooks
<1>10. states' = states /\ removedStates' = <<>> /\ states' \cap addedStates' = {} /\ error' = "none"
  BY <1>1, <1>2, <1>3
<1>11. CASE next = "timers"
  BY <1>3, <1>6, <1>7, <1>8, <1>9, <1>10, <1>11, AfterInstruction, ZenonT(60)
<1>12. CASE next \in {"forks", "branches"} /\ ~IsSpec(current)
  <2>1. current' \in states' /\ st'[current'].specStates = <<>>
    BY <1>2, <1>4, <1>10, <1>12, ZenonT(60) DEF SameBooks
  <2>2. NoDuplicates(removedStates') /\ \A i \in DOMAIN removedStates' : removedStates'[i] \in states'
    BY <1>10 DEF NoDuplicates
  <2> QED
    BY <1>3, <1>6, <1>7, <1>8, <1>9, <1>10, <1>12, <2>1, <2>2, WithinInstruction, ZenonT(60)
<1> QED
  BY <1>11, <1>12

LEMMA FreshTag ==
    ASSUME SafeInv
    PROVE  /\ count \in Nat /\ count % 2 = 0 /\ spCount \in Nat /\ spCount % 2 = 1
           /\ \A t \in Tags : t \in Nat
           /\ \A t \in Tags : t % 2 = 0 /\ t >= count => st[t] = NoObject
           /\ \A t \in Tags : t % 2 = 1 /\ t >= spCount => st[t] = NoObject
           /\ NoObject.kind = "none"
BY SafeParts, TagsNat DEF TypeOK, FreshTags, NoObject

LEMMA ForkKnownSafe ==
    ASSUME SafeInv, phase = "execute", TypeOK', ForkKnown, Speculating, UNCHANGED current
    PROVE  SafeInv'
<1> DEFINE t == current
           s == spCount
           p == Owner(t)
           new == SpecBranch(Stepped(t), p)
           g == [st EXCEPT ![t] = Stepped(t), ![s] = new]
<1>1. /\ TypeOK /\ FreshTags /\ Holding(st) /\ st \in Objects /\ TreeOf(processTree, st, Known)
      /\ Known \subseteq Tags /\ error = "none"
  BY SafeParts DEF IterationInv
<1>2. /\ t \in Tags /\ st[t].kind # "none" /\ removedStates = <<>>
      /\ p \in Tags /\ p # NoState /\ st[p].kind = "normal" /\ (t # p => IsSpec(t))
  BY Executing, TagsNat DEF IsSpec
<1>3. s \in Tags /\ st[s].kind = "none"
  <2>1. s \in Tags
    BY <1>1, TagsLeftType, Zenon DEF ForkKnown
  <2> QED
    BY <2>1, FreshTag
<1>4. /\ st' = [g EXCEPT ![p].specStates = Append(st[p].specStates, s)]
      /\ spCount' = NextTag(spCount) /\ phase' = "timers"
      /\ UNCHANGED <<count, processTree, states, addedStates,
                     removedStates, spStatesDone, error>>
  BY <1>2, Zenon DEF ForkKnown
<1>5. /\ new \in StateType /\ new.kind = "spec" /\ new.pPerentState = p
      /\ new.specStates = <<>> /\ new.finishedSpecStates = <<>>
  BY <1>1, <1>2, SteppedFields, SpecBranchFields, ZenonT(60)
<1>6. /\ g[s] = new
      /\ g[t] = Stepped(t) /\ \A x \in Tags : x # t /\ x # s => g[x] = st[x]
      /\ g \in Objects
  <2>1. t # s /\ Stepped(t) \in StateType
    BY <1>1, <1>2, <1>3, SteppedFields, ZenonT(60)
  <2> HIDE DEF new
  <2> QED  BY <1>1, <1>2, <1>3, <1>5, <2>1 DEF Objects
<1>7. \A x \in Tags : x # s => SameBooks(g[x], st[x]) /\ SamePlace(g[x], st[x])
  <2>1. SameBooks(g[t], st[t]) /\ SamePlace(g[t], st[t])
    BY <1>1, <1>2, <1>6, SteppedFields, Zenon
  <2> QED
    BY <1>6, <2>1, Zenon DEF SameBooks, SamePlace
<1> HIDE DEF g
<1>8. /\ \A x \in Tags : x # p => st'[x] = g[x]
      /\ st'[p].kind = g[p].kind /\ st'[p].pPerentState = g[p].pPerentState
      /\ st'[p].specStates = Append(st[p].specStates, s)
      /\ st'[p].finishedSpecStates = g[p].finishedSpecStates
      /\ st'[p].ptreeNode = g[p].ptreeNode
  <2>1. st'[p] = [g[p] EXCEPT !.specStates = Append(st[p].specStates, s)]
        /\ \A x \in Tags : x # p => st'[x] = g[x]
    BY <1>2, <1>4, <1>6 DEF Objects
  <2>2. g[p] \in StateType
    BY <1>2, <1>6 DEF Objects
  <2> DEFINE q == Append(st[p].specStates, s)
  <2> HIDE DEF q
  <2> QED  BY <2>1, <2>2 DEF StateType, q
<1>9. p # s /\ t # s
  BY <1>2, <1>3, ZenonT(60)
<1>10. Holding(st')
  <2>1. st' \in Objects
    BY DEF TypeOK, Objects
  <2>2. \A x \in Tags \ {s, p} : SameBooks(st'[x], st[x])
    BY <1>7, <1>8, ZenonT(60)
  <2>3. st'[p].kind = "normal" /\ st'[p].finishedSpecStates = st[p].finishedSpecStates
    BY <1>2, <1>7, <1>8, <1>9, ZenonT(60) DEF SameBooks
  <2>4. st'[s] = g[s]
    BY <1>3, <1>8, <1>9
  <2>5. /\ st'[s].kind = "spec" /\ st'[s].pPerentState = p
        /\ st'[s].specStates = <<>> /\ st'[s].finishedSpecStates = <<>>
    BY <1>5, <1>6, <2>4, ZenonT(60)
  <2>6. st'[p].specStates = Append(st[p].specStates, s)
    BY <1>8, ZenonT(60)
  <2> HIDE DEF new, p, s
  <2> QED
    BY <1>1, <1>2, <1>3, <2>1, <2>2, <2>3, <2>5, <2>6, EnqueueHolding, ZenonT(60)
<1>11. FreshTags'
  <2> SUFFICES ASSUME NEW x \in Tags,
                      (x % 2 = 0 /\ x >= count') \/ (x % 2 = 1 /\ x >= spCount')
               PROVE  st'[x] = NoObject
    BY DEF FreshTags
  <2>1. st[x] = NoObject /\ x # s
    BY <1>4, FreshTag, NextTagType, SMTT(60)
  <2>2. x # p /\ x # t
    BY <2>1, <1>2, FreshTag
  <2> QED
    BY <2>1, <2>2, <1>6, <1>8
<1>12. TreeOf(processTree', st', Known')
  <2>1. \A x \in Known : x # s
    BY <1>1, <1>3, ZenonT(60) DEF TreeOf
  <2>2. \A x \in Known : SamePlace(st'[x], st[x])
    BY <1>1, <1>7, <1>8, <2>1 DEF SamePlace
  <2> QED
    BY <1>1, <1>4, <2>2, TreeUnchanged, ZenonT(60) DEF Known
<1>13. states \cap addedStates' = {} /\ removedStates' = <<>>
  BY <1>2, <1>4, Executing
<1> QED
  BY <1>1, <1>4, <1>10, <1>11, <1>12, <1>13, AfterInstruction, ZenonT(60)

LEMMA ForkBothSafe ==
    ASSUME SafeConfig, SafeInv, phase = "execute", TypeOK', ForkBoth, Speculating,
           UNCHANGED current
    PROVE  SafeInv'
<1> DEFINE t == current
           f == count
           sT == spCount
           sF == NextTag(sT)
           n == st[t].ptreeNode
           base == [Stepped(t) EXCEPT !.depth = @ + 1]
           new == [CopyOf(base) EXCEPT !.ptreeNode = LeftChild(n), !.specStates = <<sF>>]
           right == [base EXCEPT !.ptreeNode = RightChild(n),
                                 !.specStates = Append(st[t].specStates, sT)]
           specT == SpecBranch(base, t)
           specF == SpecBranch(base, f)
<1>1. /\ TypeOK /\ FreshTags /\ Holding(st) /\ st \in Objects /\ TreeOf(processTree, st, Known)
      /\ Known \subseteq Tags /\ error = "none"
  BY SafeParts, ZenonT(60) DEF IterationInv
<1>2. /\ t \in Tags /\ t \in Known /\ st[t].kind = "normal" /\ removedStates = <<>>
      /\ st[t] \in StateType /\ n \in Node
  <2>1. ~IsSpec(t)  BY Zenon DEF ForkBoth
  <2> QED  BY <1>1, <2>1, Executing, ZenonT(60) DEF Known, TypeOK, StateType
<1>3. f \in Tags /\ sT \in Tags /\ sF \in Tags
  BY <1>1, TagsLeftType, Zenon DEF ForkBoth
<1>4. st[f].kind = "none" /\ st[sT].kind = "none" /\ st[sF].kind = "none"
  BY <1>3, FreshTag, NextTagType
<1>5. f # sT /\ f # sF /\ sT # sF /\ t \notin {f, sT, sF}
  <2>1. f # sT /\ f # sF /\ sT # sF
    BY FreshTag, NextTagType
  <2> QED
    BY <1>2, <1>4, <2>1
<1>6. ~DepthExceeded(base.depth)
  BY DEF SafeConfig, DepthExceeded
<1>7. CanSplit(processTree, n)
  BY <1>1, <1>2, TreeCanSplit
<1>8. /\ st' = [st EXCEPT ![t] = right, ![f] = new, ![sT] = specT, ![sF] = specF]
      /\ count' = NextTag(count) /\ spCount' = NextTag(sF)
      /\ processTree' = Split(processTree, n, f, t)
      /\ addedStates' = addedStates \cup {f}
      /\ removedStates' = removedStates /\ phase' = "timers"
      /\ UNCHANGED <<states, spStatesDone, error>>
  <2> HIDE DEF base, new, right, specT, specF
  <2> QED  BY <1>6, <1>7 DEF ForkBoth, base, new, right, specT, specF
<1>9. base \in StateType /\ SameBooks(base, st[t]) /\ SamePlace(base, st[t])
  BY <1>1, <1>2, SteppedFields
<1>10. /\ specT \in StateType /\ specT.kind = "spec" /\ specT.pPerentState = t
       /\ specT.specStates = <<>> /\ specT.finishedSpecStates = <<>>
       /\ specF \in StateType /\ specF.kind = "spec" /\ specF.pPerentState = f
       /\ specF.specStates = <<>> /\ specF.finishedSpecStates = <<>>
  BY <1>2, <1>3, <1>9, SpecBranchFields, ZenonT(40)
<1>11. /\ right.kind = "normal" /\ right.ptreeNode = RightChild(n)
       /\ right.specStates = Append(st[t].specStates, sT)
       /\ right.finishedSpecStates = st[t].finishedSpecStates
       /\ right.pPerentState = st[t].pPerentState
  <2> HIDE DEF base
  <2> QED  BY <1>2, <1>9, ZenonT(60) DEF SameBooks, StateType
<1>12. /\ new.kind = "normal" /\ new.ptreeNode = LeftChild(n)
       /\ new.specStates = <<sF>> /\ new.finishedSpecStates = <<>>
  <2>1. /\ CopyOf(base) \in StateType /\ CopyOf(base).kind = "normal"
        /\ CopyOf(base).finishedSpecStates = <<>>
    BY <1>2, <1>9, CopyOfFields, ZenonT(60) DEF SameBooks
  <2> DEFINE copy == CopyOf(base)
  <2> HIDE DEF copy
  <2> QED  BY <2>1 DEF StateType, copy
<1> HIDE DEF base, new, right, specT, specF, n, f, sT, sF, t
<1>13. /\ st'[t] = right /\ st'[f] = new /\ st'[sT] = specT /\ st'[sF] = specF
       /\ \A x \in Tags : x \notin {t, f, sT, sF} => st'[x] = st[x]
  BY <1>1, <1>2, <1>3, <1>5, <1>8, ZenonT(60) DEF Objects
<1>14. Holding(st')
  <2> DEFINE empty == [NoObject EXCEPT !.kind = "normal"]
             g == [st EXCEPT ![f] = empty]
             h == [g EXCEPT ![t] = right, ![sT] = specT]
  <2>1. /\ empty \in StateType /\ empty.kind = "normal"
        /\ empty.specStates = <<>> /\ empty.finishedSpecStates = <<>>
    BY NoObjectType, ZenonT(60) DEF NoObject, StateType
  <2>2. st' \in Objects /\ right \in StateType
    BY <1>2, <1>13, ZenonT(60) DEF TypeOK, Objects
  <2> HIDE DEF empty
  <2>3. g \in Objects /\ g[f] = empty /\ \A x \in Tags \ {f} : g[x] = st[x]
    BY <1>1, <1>3, <2>1 DEF Objects
  <2>4. Holding(g)
    BY <1>1, <1>3, <1>4, <2>1, <2>3, NewNormalHolding, ZenonT(60) DEF SameBooks
  <2> HIDE DEF g
  <2>5. /\ h \in Objects /\ h[t] = right /\ h[sT] = specT
        /\ \A x \in Tags \ {sT, t} : h[x] = g[x]
    BY <1>2, <1>3, <1>5, <1>10, <2>2, <2>3 DEF Objects
  <2> HIDE DEF h
  <2>6. g[t] = st[t] /\ g[sT] = st[sT]
    BY <1>2, <1>3, <1>5, <2>3, ZenonT(60)
  <2>7. Holding(h)
    <3>1. \A x \in Tags \ {sT, t} : SameBooks(h[x], g[x])
      BY <2>5 DEF SameBooks
    <3>2. /\ g[t].kind = "normal" /\ g[sT].kind = "none"
          /\ h[sT].kind = "spec" /\ h[sT].pPerentState = t
          /\ h[sT].specStates = <<>> /\ h[sT].finishedSpecStates = <<>>
          /\ h[t].kind = "normal" /\ h[t].specStates = Append(g[t].specStates, sT)
          /\ h[t].finishedSpecStates = g[t].finishedSpecStates
      BY <1>2, <1>4, <1>10, <1>11, <2>5, <2>6, ZenonT(60)
    <3> QED
      BY <1>2, <1>3, <2>3, <2>4, <2>5, <3>1, <3>2, EnqueueHolding, ZenonT(60)
  <2>8. h[f] = empty /\ h[sF] = st[sF] /\ \A x \in Tags \ {sF, f} : st'[x] = h[x]
    BY <1>2, <1>3, <1>5, <1>13, <2>3, <2>5
  <2>9. <<sF>> = Append(<<>>, sF)
    OBVIOUS
  <2> QED
    <3>1. \A x \in Tags \ {sF, f} : SameBooks(st'[x], h[x])
      BY <2>8 DEF SameBooks
    <3>2. /\ h[f].kind = "normal" /\ h[sF].kind = "none"
          /\ st'[sF].kind = "spec" /\ st'[sF].pPerentState = f
          /\ st'[sF].specStates = <<>> /\ st'[sF].finishedSpecStates = <<>>
          /\ st'[f].kind = "normal" /\ st'[f].specStates = Append(h[f].specStates, sF)
          /\ st'[f].finishedSpecStates = h[f].finishedSpecStates
      BY <1>4, <1>10, <1>12, <1>13, <2>1, <2>8, <2>9, ZenonT(60)
    <3> QED
      BY <1>3, <2>2, <2>5, <2>7, <3>1, <3>2, EnqueueHolding
<1>15. FreshTags'
  <2> SUFFICES ASSUME NEW x \in Tags,
                      (x % 2 = 0 /\ x >= count') \/ (x % 2 = 1 /\ x >= spCount')
               PROVE  st'[x] = NoObject
    BY DEF FreshTags
  <2>1. sF = NextTag(sT) /\ sT = spCount /\ f = count
    BY ZenonT(60) DEF sF, sT, f
  <2>2. st[x] = NoObject /\ x \notin {f, sT, sF}
    <3>1. /\ count \in Nat /\ count % 2 = 0 /\ spCount \in Nat /\ spCount % 2 = 1
          /\ x \in Nat
      BY FreshTag, Zenon
    <3>2. /\ NextTag(count) \in Nat /\ NextTag(count) > count
          /\ sF \in Nat /\ sF % 2 = spCount % 2 /\ sF > spCount
          /\ NextTag(sF) \in Nat /\ NextTag(sF) > sF
      BY ONLY <2>1, <3>1, NextTagType, Zenon
    <3>3. count' = NextTag(count) /\ spCount' = NextTag(sF)
      BY <1>8, Zenon
    <3>4. /\ (x % 2 = 0 /\ x > count) \/ (x % 2 = 1 /\ x > sF)
          /\ x # f /\ x # sT /\ x # sF
      BY ONLY <2>1, <3>1, <3>2, <3>3,
              (x % 2 = 0 /\ x >= count') \/ (x % 2 = 1 /\ x >= spCount')
    <3>5. (x % 2 = 0 /\ x >= count) \/ (x % 2 = 1 /\ x >= spCount)
      BY ONLY <3>1, <3>2, <3>4
    <3>6. st[x] = NoObject
      BY <3>5, FreshTag, Zenon
    <3> QED  BY <3>4, <3>6
  <2>3. x # t
    BY <2>2, <1>2, FreshTag
  <2> QED
    BY <2>2, <2>3, <1>13
<1>16. TreeOf(processTree', st', Known')
  <2>1. f \notin Known /\ \A x \in Known : x \notin {f, sT, sF}
    BY <1>1, <1>4 DEF TreeOf
  <2>2. \A x \in Known \ {t} : SamePlace(st'[x], st[x])
    BY <1>1, <1>13, <2>1 DEF SamePlace
  <2>3. TreeOf(Split(processTree, st[t].ptreeNode, f, t), st', Known \cup {f})
    BY <1>1, <1>2, <1>3, <1>11, <1>12, <1>13, <2>1, <2>2, TreeSplit, ZenonT(40) DEF n
  <2>4. Known' = Known \cup {f}
    BY <1>8 DEF Known
  <2> QED
    BY <1>8, <2>3, <2>4 DEF n
<1>17. states \cap addedStates' = {} /\ removedStates' = <<>>
  <2>1. f \notin states /\ addedStates = {}
    BY <1>1, <1>4, Executing, ZenonT(60) DEF TreeOf, Known
  <2> QED  BY <1>2, <1>8, <2>1
<1> QED
  BY <1>1, <1>8, <1>14, <1>15, <1>16, <1>17, AfterInstruction, ZenonT(60)

\* Both sides feasible in a speculative state: three more states in the queue of
\* its parent, and no change to the tree.
LEMMA ForkBothSpecSafe ==
    ASSUME SafeConfig, SafeInv, phase = "execute", TypeOK', ForkBothSpec, Speculating,
           UNCHANGED current
    PROVE  SafeInv'
<1> DEFINE t == current
           p == Owner(t)
           f == spCount
           sT == NextTag(f)
           sF == NextTag(sT)
           base == [Stepped(t) EXCEPT !.depth = @ + 1]
           new == [CopyOf(base) EXCEPT !.pPerentState = p]
           spec == SpecBranch(base, p)
           q1 == Append(st[p].specStates, sT)
           q2 == Append(q1, sF)
           q3 == Append(q2, f)
           put1 == [st[p] EXCEPT !.specStates = q1]
           put2 == [st[p] EXCEPT !.specStates = q2]
           put3 == [st[p] EXCEPT !.specStates = q3]
<1>1. /\ TypeOK /\ FreshTags /\ Holding(st) /\ st \in Objects /\ TreeOf(processTree, st, Known)
      /\ Known \subseteq Tags /\ error = "none"
  BY SafeParts DEF IterationInv
<1>2. /\ t \in Tags /\ st[t].kind = "spec" /\ removedStates = <<>>
      /\ p \in Tags /\ p # NoState /\ st[p].kind = "normal" /\ p # t
      /\ st[p] \in StateType /\ st[p].specStates \in Seq(Tags)
  <2>1. IsSpec(t)  BY Zenon DEF ForkBothSpec
  <2>2. st[t].kind = "spec"  BY <2>1 DEF IsSpec
  <2> QED  BY <1>1, <2>1, <2>2, Executing, TagsNat, QueueTypes, ZenonT(60)
<1>3. f \in Tags /\ sT \in Tags /\ sF \in Tags
  BY <1>1, TagsLeftType, ZenonT(60) DEF ForkBothSpec
<1>4. st[f].kind = "none" /\ st[sT].kind = "none" /\ st[sF].kind = "none"
  BY <1>3, FreshTag, NextTagType
<1>5. f # sT /\ f # sF /\ sT # sF /\ t \notin {f, sT, sF} /\ p \notin {f, sT, sF}
  <2>1. f # sT /\ f # sF /\ sT # sF
    BY FreshTag, NextTagType
  <2> QED
    BY <1>2, <1>4, <2>1
<1>6. ~DepthExceeded(base.depth)
  BY DEF SafeConfig, DepthExceeded
<1>7. /\ st' = [st EXCEPT ![t] = base, ![f] = new, ![sT] = spec, ![sF] = spec,
                         ![p].specStates = q3]
      /\ spCount' = NextTag(sF) /\ phase' = "timers"
      /\ UNCHANGED <<count, processTree, states, addedStates,
                     removedStates, spStatesDone, error>>
  <2> HIDE DEF base, new, spec, q3
  <2> QED  BY <1>2, <1>6, Zenon DEF ForkBothSpec, base, new, spec, q3
<1>8. base \in StateType /\ SameBooks(base, st[t]) /\ SamePlace(base, st[t])
  BY <1>1, <1>2, SteppedFields
<1>9. /\ spec \in StateType /\ spec.kind = "spec" /\ spec.pPerentState = p
      /\ spec.specStates = <<>> /\ spec.finishedSpecStates = <<>>
  BY <1>2, <1>8, SpecBranchFields
<1>10. /\ new.kind = "spec" /\ new.pPerentState = p
       /\ new.specStates = <<>> /\ new.finishedSpecStates = <<>>
  <2>1. /\ CopyOf(base) \in StateType /\ CopyOf(base).kind = "spec"
        /\ CopyOf(base).specStates = <<>> /\ CopyOf(base).finishedSpecStates = <<>>
    BY <1>2, <1>8, CopyOfFields, ZenonT(60) DEF SameBooks
  <2> DEFINE copy == CopyOf(base)
  <2> HIDE DEF copy
  <2> QED  BY <2>1 DEF StateType, copy
<1>11. q1 \in Seq(Tags) /\ q2 \in Seq(Tags) /\ q3 \in Seq(Tags)
  BY <1>2, <1>3
<1>12. /\ put1 \in StateType /\ put1.kind = "normal" /\ put1.specStates = q1
       /\ put1.finishedSpecStates = st[p].finishedSpecStates
       /\ put2 \in StateType /\ put2.kind = "normal" /\ put2.specStates = q2
       /\ put2.finishedSpecStates = st[p].finishedSpecStates
       /\ put3.kind = "normal" /\ put3.specStates = q3
       /\ put3.finishedSpecStates = st[p].finishedSpecStates
       /\ put3.ptreeNode = st[p].ptreeNode
  <2> HIDE DEF q1, q2, q3
  <2> QED  BY <1>2, <1>11, ZenonT(60) DEF StateType
<1>13. /\ st'[t] = base /\ st'[f] = new /\ st'[sT] = spec /\ st'[sF] = spec
       /\ st'[p] = put3
       /\ \A x \in Tags : x \notin {t, f, sT, sF, p} => st'[x] = st[x]
  <2> HIDE DEF base, new, spec, q3, f, sT, sF, t, p
  <2> QED  BY <1>1, <1>2, <1>3, <1>5, <1>7, ZenonT(60) DEF Objects
<1> HIDE DEF base, new, spec, f, sT, sF, t, p, put1, put2, put3
<1>14. Holding(st')
  <2> DEFINE g == [st EXCEPT ![t] = base, ![sT] = spec, ![p] = put1]
             h == [g EXCEPT ![sF] = spec, ![p] = put2]
  <2> HIDE DEF q1, q2, q3, g, h
  <2>0. /\ st \in [Tags -> StateType] /\ base \in StateType /\ spec \in StateType
        /\ put1 \in StateType /\ put2 \in StateType
        /\ t \in Tags /\ sT \in Tags /\ sF \in Tags /\ f \in Tags /\ p \in Tags
        /\ t # sT /\ t # p /\ sT # p /\ sF # p
    BY <1>1, <1>2, <1>3, <1>5, <1>8, <1>9, <1>12, Zenon DEF Objects
  <2>1. /\ g \in Objects /\ g[t] = base /\ g[sT] = spec /\ g[p] = put1
        /\ \A x \in Tags \ {t, sT, p} : g[x] = st[x]
    BY ONLY <2>0, ZenonT(60) DEF Objects, g
  <2>2. Holding(g)
    <3>1. \A x \in Tags \ {sT, p} : SameBooks(g[x], st[x])
      BY ONLY <1>8, <2>1, ZenonT(60) DEF SameBooks
    <3>2. /\ g[sT].kind = "spec" /\ g[sT].pPerentState = p
          /\ g[sT].specStates = <<>> /\ g[sT].finishedSpecStates = <<>>
          /\ g[p].kind = "normal" /\ g[p].specStates = Append(st[p].specStates, sT)
          /\ g[p].finishedSpecStates = st[p].finishedSpecStates
      BY ONLY <1>9, <1>12, <2>1, ZenonT(60) DEF q1
    <3>3. st \in Objects /\ Holding(st) /\ st[p].kind = "normal" /\ st[sT].kind = "none"
      BY <1>1, <1>2, <1>4, Zenon
    <3> QED
      BY ONLY <2>0, <2>1, <3>1, <3>2, <3>3, EnqueueHolding, ZenonT(60)
  <2>3. /\ h \in Objects /\ h[sF] = spec /\ h[p] = put2
        /\ \A x \in Tags \ {sF, p} : h[x] = g[x]
    BY ONLY <2>0, <2>1, ZenonT(60) DEF Objects, h
  <2>4. Holding(h)
    <3>1. \A x \in Tags \ {sF, p} : SameBooks(h[x], g[x])
      BY ONLY <2>3, ZenonT(60) DEF SameBooks
    <3>2. /\ h[sF].kind = "spec" /\ h[sF].pPerentState = p
          /\ h[sF].specStates = <<>> /\ h[sF].finishedSpecStates = <<>>
          /\ h[p].kind = "normal" /\ h[p].specStates = Append(g[p].specStates, sF)
          /\ h[p].finishedSpecStates = g[p].finishedSpecStates
          /\ g[p].kind = "normal"
      BY ONLY <1>9, <1>12, <2>1, <2>3, ZenonT(60) DEF q2
    <3>3. g[sF].kind = "none"
      BY <1>3, <1>4, <1>5, <2>1
    <3> QED
      BY ONLY <2>0, <2>1, <2>2, <2>3, <3>1, <3>2, <3>3, EnqueueHolding, ZenonT(60)
  <2>5. st' \in Objects
    BY DEF TypeOK, Objects
  <2>6. \A x \in Tags \ {f, p} : st'[x] = h[x]
    BY ONLY <1>5, <1>13, <2>0, <2>1, <2>3, ZenonT(60)
  <2>7. \A x \in Tags \ {f, p} : SameBooks(st'[x], h[x])
    BY ONLY <2>6, ZenonT(60) DEF SameBooks
  <2>8. /\ st'[f].kind = "spec" /\ st'[f].pPerentState = p
        /\ st'[f].specStates = <<>> /\ st'[f].finishedSpecStates = <<>>
        /\ st'[p].kind = "normal" /\ st'[p].specStates = Append(h[p].specStates, f)
        /\ st'[p].finishedSpecStates = h[p].finishedSpecStates
        /\ h[p].kind = "normal"
    BY ONLY <1>10, <1>12, <1>13, <2>3, ZenonT(60) DEF q3
  <2>9. h[f].kind = "none"
    BY <1>3, <1>4, <1>5, <2>1, <2>3
  <2> QED
    BY ONLY <2>0, <2>3, <2>4, <2>5, <2>7, <2>8, <2>9, EnqueueHolding, ZenonT(60)
<1>15. FreshTags'
  <2> SUFFICES ASSUME NEW x \in Tags,
                      (x % 2 = 0 /\ x >= count') \/ (x % 2 = 1 /\ x >= spCount')
               PROVE  st'[x] = NoObject
    BY DEF FreshTags
  <2>1. sF = NextTag(sT) /\ sT = NextTag(f) /\ f = spCount
    BY DEF sF, sT, f
  <2>2. st[x] = NoObject /\ x \notin {f, sT, sF}
    BY <1>7, <2>1, FreshTag, NextTagType, SMTT(60)
  <2>3. x # t /\ x # p
    BY <2>2, <1>2, FreshTag
  <2> QED
    BY <2>2, <2>3, <1>13
<1>16. TreeOf(processTree', st', Known')
  <2>1. \A x \in Known : x \in Tags /\ x \notin {t, f, sT, sF}
    BY <1>1, <1>2, <1>4, ZenonT(60) DEF TreeOf
  <2>2. \A x \in Known : SamePlace(st'[x], st[x])
    BY <1>2, <1>11, <1>12, <1>13, <2>1, ZenonT(60) DEF SamePlace
  <2> QED
    BY <1>1, <1>7, <2>2, TreeUnchanged, ZenonT(60) DEF Known
<1>17. states \cap addedStates' = {} /\ removedStates' = <<>>
  BY <1>2, <1>7, Executing
<1> QED
  BY <1>1, <1>7, <1>14, <1>15, <1>16, <1>17, AfterInstruction, ZenonT(60)

\* One fork without speculation: the new state and the old one are the two
\* children of a leaf.
LEMMA ForkStateSafe ==
    ASSUME SafeConfig, SafeInv, TypeOK', NEW t \in Known, NEW cut, NEW next,
           ForkState(t, cut, next)
    PROVE  /\ FreshTags' /\ Holding(st') /\ TreeOf(processTree', st', Known')
           /\ \A s \in Tags : st'[s].kind = "spec" => Speculating
           /\ \A x \in Known : SameBooks(st'[x], st[x])
           /\ phase' = next /\ error' = "none" /\ states' = states
           /\ removedStates' = removedStates /\ states \cap addedStates' = {}
<1> DEFINE f == count
           n == st[t].ptreeNode
           base == [st[t] EXCEPT !.depth = @ + 1]
           right == [base EXCEPT !.ptreeNode = RightChild(n)]
           left == [CopyOf(base) EXCEPT !.ptreeNode = LeftChild(n)]
           tree == Split(processTree, n, f, t)
<1>1. /\ TypeOK /\ FreshTags /\ Holding(st) /\ st \in Objects /\ TreeOf(processTree, st, Known)
      /\ Known \subseteq Tags /\ error = "none" /\ states \cap addedStates = {}
      /\ \A s \in Tags : st[s].kind = "spec" => Speculating
  BY SafeParts DEF IterationInv, IsSpec
<1>2. /\ t \in Tags /\ st[t].kind = "normal" /\ ~IsSpec(t)
      /\ st[t] \in StateType /\ n \in Node
  <2>1. t \in Tags /\ st[t].kind = "normal"
    BY <1>1, ZenonT(60) DEF TreeOf
  <2>2. st[t] \in StateType
    BY <1>1, <2>1 DEF TypeOK
  <2> QED  BY <2>1, <2>2 DEF IsSpec, StateType
<1>3. f \in Tags
  BY <1>1, <1>2, TagsLeftType, ZenonT(40) DEF ForkState
<1>4. st[f].kind = "none" /\ t # f
  BY <1>2, <1>3, FreshTag
<1>5. ~DepthExceeded(base.depth)
  BY ZenonT(60) DEF SafeConfig, DepthExceeded
<1>6. CanSplit(processTree, n)
  BY <1>1, TreeCanSplit
<1>7. /\ st' = [st EXCEPT ![t] = right, ![f] = left]
      /\ count' = NextTag(count) /\ spCount' = spCount
      /\ processTree' = tree /\ addedStates' = addedStates \cup {f}
      /\ removedStates' = removedStates /\ phase' = next
      /\ UNCHANGED <<states, spStatesDone, error>>
  <2> HIDE DEF base, right, left, tree, n
  <2> QED  BY <1>2, <1>5, <1>6 DEF ForkState, base, right, left, tree, n
<1>8. base \in StateType /\ SameBooks(base, st[t]) /\ SamePlace(base, st[t])
  BY <1>1, <1>2, SameDeeperType DEF SameBooks, SamePlace, StateType
<1>9. /\ right.kind = "normal" /\ right.ptreeNode = RightChild(n) /\ SameBooks(right, st[t])
  <2> HIDE DEF base
  <2> QED  BY <1>2, <1>8 DEF SameBooks, StateType
<1>10. /\ left.kind = "normal" /\ left.ptreeNode = LeftChild(n)
       /\ left.specStates = <<>> /\ left.finishedSpecStates = <<>>
  <2> DEFINE copy == CopyOf(base)
  <2>1. /\ copy \in StateType /\ copy.kind = "normal"
        /\ copy.specStates = <<>> /\ copy.finishedSpecStates = <<>>
    BY <1>2, <1>8, CopyOfFields, Zenon DEF SameBooks
  <2> HIDE DEF copy
  <2> QED  BY <2>1 DEF StateType, copy
<1> HIDE DEF base, right, left, n, f
<1>11. /\ st'[t] = right /\ st'[f] = left
       /\ \A x \in Tags : x \notin {t, f} => st'[x] = st[x]
  BY <1>1, <1>2, <1>3, <1>4, <1>7, ZenonT(60) DEF Objects
<1>12. \A x \in Tags \ {f} : SameBooks(st'[x], st[x])
  BY <1>9, <1>11, ZenonT(60) DEF SameBooks
<1>13. Holding(st')
  <2>1. st' \in Objects
    BY ZenonT(60) DEF TypeOK, Objects
  <2>2. /\ st'[f].kind \in {"normal", "deleted"}
        /\ st'[f].specStates = <<>> /\ st'[f].finishedSpecStates = <<>>
    BY <1>10, <1>11
  <2> QED
    BY <1>1, <1>3, <1>4, <1>12, <2>1, <2>2, NewNormalHolding, ZenonT(60)
<1>14. FreshTags'
  <2> SUFFICES ASSUME NEW x \in Tags,
                      (x % 2 = 0 /\ x >= count') \/ (x % 2 = 1 /\ x >= spCount')
               PROVE  st'[x] = NoObject
    BY ZenonT(60) DEF FreshTags
  <2>1. st[x] = NoObject /\ x # f
    BY <1>7, FreshTag, NextTagType DEF f
  <2>2. x # t
    BY <2>1, <1>2, FreshTag
  <2> QED
    BY <2>1, <2>2, <1>11
<1>15. f \notin Known
  BY <1>1, <1>4 DEF TreeOf
<1>16. TreeOf(processTree', st', Known')
  <2>1. \A x \in Known \ {t} : x \in Tags /\ x \notin {t, f}
    BY <1>1, <1>15
  <2>2. \A x \in Known \ {t} : SamePlace(st'[x], st[x])
    BY <1>11, <2>1, ZenonT(60) DEF SamePlace
  <2>3. /\ st'[t].ptreeNode = RightChild(st[t].ptreeNode)
        /\ st'[f].ptreeNode = LeftChild(st[t].ptreeNode)
    BY <1>9, <1>10, <1>11 DEF n
  <2>4. TreeOf(Split(processTree, st[t].ptreeNode, f, t), st', Known \cup {f})
    BY <1>1, <1>3, <1>9, <1>10, <1>11, <1>15, <2>2, <2>3, TreeSplit, ZenonT(40)
  <2>5. Known' = Known \cup {f}
    BY <1>7, Zenon DEF Known
  <2> QED
    BY <1>7, <2>4, <2>5, ZenonT(60) DEF n
<1>17. \A s \in Tags : st'[s].kind = "spec" => Speculating
  BY <1>1, <1>9, <1>10, <1>11
<1>18. states \cap addedStates' = {}
  BY <1>1, <1>7, <1>15 DEF Known
<1>19. \A x \in Known : SameBooks(st'[x], st[x])
  BY <1>1, <1>12, <1>15, ZenonT(60)
<1> QED
  BY <1>1, <1>7, <1>13, <1>14, <1>16, <1>17, <1>18, <1>19

\* A fork is all the instruction does...
LEMMA ForkOnceSafe ==
    ASSUME SafeConfig, SafeInv, phase = "execute", TypeOK', ~IsSpec(current),
           ForkState(current, TRUE, "timers"), UNCHANGED current
    PROVE  SafeInv'
<1>1. current \in Known /\ removedStates = <<>>
  BY Executing DEF Known
<1>2. /\ FreshTags' /\ Holding(st') /\ TreeOf(processTree', st', Known')
      /\ \A s \in Tags : st'[s].kind = "spec" => Speculating
      /\ phase' = "timers" /\ error' = "none" /\ states' = states
      /\ removedStates' = removedStates /\ states \cap addedStates' = {}
  BY <1>1, ForkStateSafe, ZenonT(60)
<1> QED
  BY <1>1, <1>2, AfterInstruction, ZenonT(60)

\* ... or one of its steps.
LEMMA ForkAnotherSafe ==
    ASSUME SafeConfig, SafeInv, phase \in {"forks", "branches"}, TypeOK', NEW t \in Working,
           NEW cut, ForkState(t, cut, phase), UNCHANGED current
    PROVE  SafeInv'
<1>1. /\ t \in Known /\ current \in Known /\ current \in states
      /\ st[current].specStates = <<>> /\ NoDuplicates(removedStates)
      /\ \A i \in DOMAIN removedStates : removedStates[i] \in states
      /\ phase = "branches" => removedStates = <<>>
  BY InInstruction, SafeParts, ZenonT(60) DEF IterationInv
<1>2. /\ FreshTags' /\ Holding(st') /\ TreeOf(processTree', st', Known')
      /\ \A s \in Tags : st'[s].kind = "spec" => Speculating
      /\ SameBooks(st'[current], st[current])
      /\ phase' = phase /\ error' = "none" /\ states' = states
      /\ removedStates' = removedStates /\ states \cap addedStates' = {}
  BY <1>1, ForkStateSafe, ZenonT(60)
<1>3. /\ current' \in states' /\ st'[current'].specStates = <<>>
      /\ phase' \in {"forks", "branches", "ends", "timers"}
      /\ NoDuplicates(removedStates')
      /\ \A i \in DOMAIN removedStates' : removedStates'[i] \in states'
      /\ phase' = "branches" => removedStates' = <<>>
      /\ states' \cap addedStates' = {}
  BY <1>1, <1>2, ZenonT(60) DEF SameBooks
<1> QED
  BY <1>2, <1>3, WithinInstruction, ZenonT(60)

\* An instruction that takes several steps ends one of its states: the current one
\* is removed later, one it has added is deleted at once.
LEMMA TerminateOneSafe ==
    ASSUME SafeInv, phase \in {"forks", "branches", "ends"}, TypeOK', NEW t \in Working,
           ~Holds(removedStates, t), NEW next \in {"forks", "ends", "timers"},
           TerminateState(t, next), UNCHANGED current
    PROVE  SafeInv'
<1> DEFINE n == st[t].ptreeNode
<1>1. /\ TypeOK /\ FreshTags /\ Holding(st) /\ st \in Objects /\ TreeOf(processTree, st, Known)
      /\ Known \subseteq Tags
  BY SafeParts, ZenonT(60)
<1>2. /\ t \in Known /\ current \in states /\ current \in Tags
      /\ states \cap addedStates = {} /\ st[current].specStates = <<>>
      /\ NoDuplicates(removedStates) /\ removedStates \in Seq(Tags)
      /\ \A i \in DOMAIN removedStates : removedStates[i] \in states
      /\ error = "none" /\ \A s \in Tags : st[s].kind = "spec" => Speculating
  BY InInstruction, ZenonT(60)
<1>3. t \in Tags /\ st[t].kind = "normal" /\ CanRemove(processTree, n)
  BY <1>1, <1>2, TreeCanSplit, ZenonT(60) DEF TreeOf
<1>4. CASE t \notin addedStates
  <2>1. /\ removedStates' = Append(removedStates, t) /\ phase' = next
        /\ UNCHANGED <<st, count, spCount, processTree, states, addedStates, error>>
    BY <1>3, <1>4, ZenonT(60) DEF TerminateState
  <2>2. t = current
    BY <1>4 DEF Working
  <2>3. /\ NoDuplicates(Append(removedStates, t))
        /\ \A i \in DOMAIN Append(removedStates, t) :
              \/ Append(removedStates, t)[i] = t
              \/ i \in DOMAIN removedStates /\ Append(removedStates, t)[i] = removedStates[i]
    BY <1>2, <1>3, AppendElements, ZenonT(60)
  <2>4. \A i \in DOMAIN removedStates' : removedStates'[i] \in states'
    BY <1>2, <2>1, <2>2, <2>3, ZenonT(60)
  <2>5. FreshTags'
    BY <1>1, <2>1, FreshKept, ZenonT(60)
  <2>6. TreeOf(processTree', st', Known')
    BY <1>1, <2>1 DEF Known
  <2>7. /\ Holding(st') /\ phase' \in {"forks", "branches", "ends", "timers"} /\ error' = "none"
        /\ current' \in states' /\ st'[current'].specStates = <<>>
        /\ \A s \in Tags : st'[s].kind = "spec" => Speculating
        /\ NoDuplicates(removedStates') /\ phase' # "branches" /\ states' \cap addedStates' = {}
    BY <1>1, <1>2, <2>1, <2>3, ZenonT(60)
  <2> QED
    BY <2>4, <2>5, <2>6, <2>7, WithinInstruction, ZenonT(60)
<1>5. CASE t \in addedStates
  <2>1. /\ addedStates' = addedStates \ {t} /\ processTree' = Remove(processTree, n)
        /\ st' = [st EXCEPT ![t] = Freed(st[t])] /\ phase' = next
        /\ UNCHANGED <<count, spCount, states, removedStates, error>>
    BY <1>3, <1>5, ZenonT(60) DEF TerminateState
  <2>2. t # current /\ t \notin states
    BY <1>2, <1>5
  <2>3. st'[t] = Freed(st[t]) /\ \A x \in Tags : x # t => st'[x] = st[x]
    BY <1>1, <1>3, <2>1, ZenonT(60) DEF Objects
  <2>4. /\ st'[t].kind = "deleted" /\ st'[t].specStates = st[t].specStates
        /\ st'[t].finishedSpecStates = st[t].finishedSpecStates
    BY <2>3, FreedFields
  <2>5. Holding(st')
    <3>1. st' \in Objects
      BY DEF TypeOK, Objects
    <3>2. \A x \in Tags \ {t} : SameBooks(st'[x], st[x])
      BY <2>3, ZenonT(60) DEF SameBooks
    <3> QED
      BY <1>1, <1>3, <2>4, <3>1, <3>2, FreedHolding, ZenonT(40)
  <2>6. FreshTags'
    <3>1. \A x \in Tags : st[x].kind = "none" => st'[x] = st[x]
      BY <1>3, <2>3, ZenonT(60)
    <3> QED
      BY <1>1, <2>1, <3>1, FreshKept, ZenonT(60)
  <2>7. TreeOf(processTree', st', Known')
    <3>1. \A x \in Known \ {t} : SamePlace(st'[x], st[x])
      BY <1>1, <2>3, ZenonT(60) DEF SamePlace
    <3>2. Known' = Known \ {t}
      BY <2>1, <2>2 DEF Known
    <3> QED
      BY <1>1, <1>2, <2>1, <3>1, <3>2, TreeRemove, Zenon
  <2>8. \A s \in Tags : st'[s].kind = "spec" => Speculating
    BY <1>2, <2>3, <2>4, ZenonT(60)
  <2>9. /\ phase' \in {"forks", "branches", "ends", "timers"} /\ error' = "none"
        /\ current' \in states' /\ st'[current'].specStates = <<>>
        /\ NoDuplicates(removedStates') /\ phase' # "branches"
        /\ \A i \in DOMAIN removedStates' : removedStates'[i] \in states'
    BY <1>2, <2>1, <2>2, <2>3, ZenonT(60)
  <2>10. states' \cap addedStates' = {}
    BY <1>2, <2>1
  <2> QED
    BY <2>5, <2>6, <2>7, <2>8, <2>9, <2>10, WithinInstruction, ZenonT(60)
<1> QED
  BY <1>4, <1>5

-----------------------------------------------------------------------------
(* SafeInv: every step *)

\* Every instruction, in a safe configuration.
LEMMA ExecuteSafe ==
    ASSUME SafeConfig, SafeInv, TypeOK', Execute
    PROVE  SafeInv'
<1>1. /\ "fence" \notin NormalInsts /\ "again" \notin NormalInsts
      /\ "fork" \notin SpecInsts /\ "invoke" \notin SpecInsts /\ "again" \notin SpecInsts
      /\ ~SolverTimeouts /\ "only-detect-marked-secret" \notin Options
  BY DEF SafeConfig, SolverTimeouts
<1>2. phase = "execute" /\ UNCHANGED current
  BY Zenon DEF Execute, ExecuteClosedWindow, ExecutePlain, ExecuteExit, ExecuteFence,
         ExecuteBranch, ExecuteLibrary, ExecuteInternalFork, ExecuteSwitch,
         ExecuteMemoryError, ExecuteInvoke, ExecuteAgain, At
<1>3. IsSpec(current) => Speculating
  BY <1>2, Executing, SafeParts, Zenon DEF IterationInv
<1>4. ASSUME IsSpec(current), TerminateSpecState(current, "timers") PROVE SafeInv'
  BY <1>2, <1>4, TerminateSpecSafe
<1>5. ASSUME TerminateState(current, "timers") PROVE SafeInv'
  BY <1>2, <1>5, TerminateSafe
<1>6. ASSUME StayAlive("timers") PROVE SafeInv'
  BY <1>2, <1>6, StayAliveSafe
<1>7. ASSUME ~IsSpec(current), StayAlive("forks") \/ StayAlive("branches") PROVE SafeInv'
  BY <1>2, <1>7, StayAliveSafe
<1>8. ASSUME ~IsSpec(current), ForkState(current, TRUE, "timers") PROVE SafeInv'
  BY <1>2, <1>8, ForkOnceSafe
<1>9. CASE ExecuteClosedWindow
  BY <1>4, <1>9 DEF ExecuteClosedWindow, WindowClosed
<1>10. CASE ExecutePlain \/ ExecuteExit
  BY <1>5, <1>6, <1>10 DEF ExecutePlain, ExecuteExit
<1>11. CASE ExecuteFence
  BY <1>1, <1>4, <1>11 DEF ExecuteFence, At
<1>12. CASE ExecuteBranch
  <2>1. CASE Speculating /\ (ForkKnown \/ ForkBoth \/ ForkBothSpec)
    BY <1>2, <2>1, ForkKnownSafe, ForkBothSafe, ForkBothSpecSafe
  <2>2. CASE ~Speculating /\ (StayAlive("timers") \/ ForkState(current, TRUE, "timers"))
    BY <1>3, <1>6, <1>8, <2>2, Zenon
  <2> QED  BY <1>1, <1>12, <2>1, <2>2, Zenon DEF ExecuteBranch
<1>13. CASE ExecuteLibrary
  BY <1>1, <1>4, <1>6, <1>8, <1>13, Zenon DEF ExecuteLibrary
<1>14. CASE ExecuteInternalFork
  BY <1>1, <1>7, <1>14, Zenon DEF ExecuteInternalFork, At
<1>15. CASE ExecuteSwitch
  BY <1>4, <1>7, <1>15, Zenon DEF ExecuteSwitch
<1>16. CASE ExecuteMemoryError
  BY <1>1, <1>5, <1>6, <1>7, <1>16, ZenonT(60) DEF ExecuteMemoryError
<1>17. CASE ExecuteInvoke
  <2>1. ~IsSpec(current)
    BY <1>1, <1>17, Zenon DEF ExecuteInvoke, At
  <2>2. SpecTerminationError(current) = "not speculative"
    <3>1. st[current].kind = "normal"
      BY <1>2, <2>1, Executing, Zenon
    <3> QED  BY ONLY <3>1, SMTT(60) DEF SpecTerminationError
  <2> QED  BY <1>5, <1>17, <2>2 DEF ExecuteInvoke, EndThenUse
<1>18. CASE ExecuteAgain
  BY <1>1, <1>18, Zenon DEF ExecuteAgain, At
<1> QED
  BY <1>9, <1>10, <1>11, <1>12, <1>13, <1>14, <1>15, <1>16, <1>17, <1>18, Zenon DEF Execute

\* The further steps of an instruction, in a safe configuration.
LEMMA ContinueSafe ==
    ASSUME SafeConfig, SafeInv, TypeOK', Continue
    PROVE  SafeInv'
<1>1. ~SolverTimeouts /\ \A d : ~DepthExceeded(d)
  BY DEF SafeConfig, SolverTimeouts, DepthExceeded
<1>2. CASE ForkAgain
  <2>1. PICK t \in Working : ForkState(t, TRUE, "forks")
    BY <1>1, <1>2, ZenonT(60) DEF ForkAgain
  <2>2. phase = "forks" /\ UNCHANGED current
    BY <1>2, Zenon DEF ForkAgain
  <2> QED  BY <2>1, <2>2, ForkAnotherSafe
<1>3. CASE EndOne
  <2>1. PICK t \in Working : ~Ended(t) /\ TerminateState(t, phase)
    BY <1>3, Zenon DEF EndOne
  <2>2. phase \in {"forks", "ends"} /\ UNCHANGED current /\ ~Holds(removedStates, t)
    BY <1>3, <2>1, Zenon DEF EndOne, Ended
  <2> QED  BY <2>1, <2>2, TerminateOneSafe
<1>4. ASSUME phase \in {"forks", "branches", "ends"}, phase' \in {"ends", "timers"},
             UNCHANGED <<st, count, spCount, processTree, states, addedStates,
                         removedStates, current, error>>
      PROVE  SafeInv'
  <2>1. /\ current \in states /\ states \cap addedStates = {} /\ st[current].specStates = <<>>
        /\ NoDuplicates(removedStates)
        /\ \A i \in DOMAIN removedStates : removedStates[i] \in states
        /\ error = "none" /\ \A s \in Tags : st[s].kind = "spec" => Speculating
    BY <1>4, InInstruction, ZenonT(60)
  <2>2. FreshTags /\ Holding(st) /\ TreeOf(processTree, st, Known)
    BY SafeParts, ZenonT(60)
  <2>3. FreshTags'
    BY <1>4, <2>2, FreshKept, ZenonT(60)
  <2>4. Holding(st') /\ TreeOf(processTree', st', Known')
    BY <1>4, <2>2 DEF Known
  <2>5. /\ current' \in states' /\ states' \cap addedStates' = {}
        /\ st'[current'].specStates = <<>> /\ NoDuplicates(removedStates')
        /\ \A i \in DOMAIN removedStates' : removedStates'[i] \in states'
        /\ error' = "none" /\ \A s \in Tags : st'[s].kind = "spec" => Speculating
        /\ phase' \in {"forks", "branches", "ends", "timers"} /\ phase' # "branches"
    BY <1>4, <2>1, ZenonT(60)
  <2> QED  BY <2>3, <2>4, <2>5, WithinInstruction, ZenonT(60)
<1>5. CASE EndForks
  BY <1>4, <1>5 DEF EndForks
<1>6. CASE BranchAgain
  <2>1. PICK t \in Working : ForkState(t, FALSE, "branches")
    BY <1>6, Zenon DEF BranchAgain
  <2>2. phase = "branches" /\ UNCHANGED current
    BY <1>6, Zenon DEF BranchAgain
  <2> QED  BY <2>1, <2>2, ForkAnotherSafe
<1>7. CASE EndBranches
  <2>1. phase = "branches" /\ UNCHANGED current
    BY <1>7, Zenon DEF EndBranches
  <2>2. ASSUME NEW t \in Working, TerminateState(t, "timers") PROVE SafeInv'
    <3>1. removedStates = <<>>
      BY <2>1, SafeParts DEF IterationInv
    <3>2. ~Holds(removedStates, t)
      BY <3>1 DEF Holds
    <3> QED  BY <2>1, <2>2, <3>2, TerminateOneSafe
  <2> QED  BY <1>4, <1>7, <2>1, <2>2 DEF EndBranches
<1>8. CASE EndAgain
  BY <1>8, SafeParts, Zenon DEF EndAgain, IterationInv
<1> QED
  BY <1>2, <1>3, <1>5, <1>6, <1>7, <1>8 DEF Continue

\* The searcher's walk ends at a normal state, and the state that runs is that one
\* or the head of its queue.
LEMMA SelectSafe ==
    ASSUME SafeInv, TypeOK', SelectState
    PROVE  SafeInv'
<1>1. /\ TypeOK /\ FreshTags /\ IterationInv /\ Holding(st) /\ st \in Objects
      /\ TreeOf(processTree, st, Known) /\ Known \subseteq Tags
  BY SafeParts
<1>2. phase = "select" /\ addedStates = {} /\ removedStates = <<>> /\ error = "none"
  BY <1>1, Zenon DEF SelectState, IterationInv
<1>3. PICK n \in WalkEnds(processTree) :
        LET p == processTree[n]
            s == NextWithin(p)
        IN  \/ p = NoState /\ Fail("null node") /\ UNCHANGED current
            \/ /\ p # NoState /\ "deleted" \in {st[p].kind, st[s].kind}
               /\ Fail("state freed") /\ UNCHANGED current
            \/ /\ p # NoState /\ "deleted" \notin {st[p].kind, st[s].kind}
               /\ current' = s
               /\ st' = [st EXCEPT ![s].specInstCount = IF IsSpec(s) THEN @ - 1 ELSE @]
               /\ phase' = "execute"
               /\ UNCHANGED <<count, spCount, processTree, states, addedStates,
                              removedStates, spStates, spStatesDone, error>>
  BY ZenonT(60) DEF SelectState
<1> DEFINE p == processTree[n]
           s == NextWithin(p)
           q == st[p].specStates
           paid == [st[s] EXCEPT !.specInstCount = IF IsSpec(s) THEN @ - 1 ELSE @]
<1>4. n \in DOMAIN processTree /\ p # NoState
  BY <1>1, WalkEndsAtState DEF TreeOf
<1>5. p \in states /\ p \in Tags /\ st[p].kind = "normal"
  BY <1>1, <1>2, <1>4, ZenonT(60) DEF TreeOf, Known
<1>6. /\ s \in Tags
      /\ q = <<>> => s = p
      /\ q # <<>> => s = Head(q) /\ st[s].kind = "spec" /\ st[s].pPerentState = p
  <2>1. CASE q = <<>>
    BY <1>5, <2>1, ZenonT(60) DEF NextWithin
  <2>2. CASE q # <<>>
    <3>1. 1 \in DOMAIN q /\ Head(q) = q[1] /\ q[1] \in Tags
      BY <1>1, <1>5, <2>2, QueueTypes, TailElements, ZenonT(60)
    <3>2. OwnsParts(st, p, q, st[p].finishedSpecStates)
      BY <1>1, <1>5, HoldingOf
    <3>3. s = Head(q)
      BY <2>2 DEF NextWithin
    <3> HIDE DEF s, q
    <3> QED
      BY <2>2, <3>1, <3>2, <3>3 DEF OwnsParts
  <2> QED  BY <2>1, <2>2, ZenonT(60)
<1>7. /\ current' = s /\ st' = [st EXCEPT ![s].specInstCount = IF IsSpec(s) THEN @ - 1 ELSE @]
      /\ phase' = "execute"
      /\ UNCHANGED <<count, spCount, processTree, states, addedStates,
                     removedStates, spStates, spStatesDone, error>>
  <2>1. "deleted" \notin {st[p].kind, st[s].kind}
    BY <1>5, <1>6, ZenonT(60)
  <2> HIDE DEF s, p
  <2> QED  BY <1>3, <1>4, <2>1, ZenonT(60) DEF s, p
<1>8. st[s] \in StateType /\ st[s].kind # "none"
  BY <1>1, <1>5, <1>6 DEF Objects
<1> HIDE DEF s, p
<1>9. /\ st'[s] = paid /\ \A x \in Tags : x # s => st'[x] = st[x]
      /\ SameBooks(paid, st[s]) /\ SamePlace(paid, st[s])
  <2>1. st'[s] = paid /\ \A x \in Tags : x # s => st'[x] = st[x]
    BY <1>1, <1>6, <1>7 DEF Objects
  <2>2. SameBooks(paid, st[s]) /\ SamePlace(paid, st[s])
    BY <1>8 DEF SameBooks, SamePlace, StateType
  <2> QED  BY <2>1, <2>2
<1> HIDE DEF paid
<1>10. \A x \in Tags : SameBooks(st'[x], st[x]) /\ SamePlace(st'[x], st[x])
  BY <1>9 DEF SameBooks, SamePlace
<1>11. Holding(st')
  BY <1>1, <1>10, SameBooksHolding, ZenonT(60) DEF TypeOK, Objects
<1>12. FreshTags'
  <2>1. \A x \in Tags : st[x].kind = "none" => st'[x] = st[x]
    BY <1>8, <1>9, ZenonT(60)
  <2> QED
    BY <1>1, <1>7, <2>1, FreshKept, ZenonT(60)
<1>13. TreeOf(processTree', st', Known')
  BY <1>1, <1>7, <1>10, TreeUnchanged, ZenonT(60) DEF Known
<1>14. Owner(current)' = p
  BY <1>5, <1>6, <1>7, <1>10, ZenonT(60) DEF Owner, IsSpec, SameBooks
<1>15. RunsHeadFirst'
  <2>1. /\ p \in Tags /\ s \in Tags /\ st[p].kind = "normal" /\ q = st[p].specStates
        /\ st'[p].kind = st[p].kind /\ st'[p].specStates = st[p].specStates
        /\ st'[s].kind = st[s].kind
    BY <1>5, <1>6, <1>10, Zenon DEF SameBooks
  <2>2. CASE q = <<>>
    <3>1. s = p /\ ~IsSpec(current)'
      BY <1>6, <1>7, <2>1, <2>2, Zenon DEF IsSpec
    <3> QED BY <1>14, <2>1, <2>2, <3>1, Zenon DEF RunsHeadFirst
  <2>3. CASE q # <<>>
    <3>1. s = Head(q) /\ IsSpec(current)'
      BY <1>6, <1>7, <2>1, <2>3, Zenon DEF IsSpec
    <3> QED BY <1>7, <1>14, <2>1, <2>3, <3>1, Zenon DEF RunsHeadFirst
  <2> QED BY <2>2, <2>3
<1>16. IterationInv'
  BY <1>1, <1>2, <1>5, <1>7, <1>10, <1>14 DEF IterationInv, IsSpec, SameBooks
<1>17. VerifiedAfterSpeculation'
  BY <1>7 DEF VerifiedAfterSpeculation
<1> QED
  BY <1>11, <1>12, <1>13, <1>15, <1>16, <1>17, SafeFromParts

\* updateStates erases a state it knows, at a leaf of the tree.
LEMMA UpdateRemovedSafe ==
    ASSUME SafeInv, TypeOK', UpdateRemoved
    PROVE  SafeInv'
<1> DEFINE t == Head(removedStates)
           n == st[t].ptreeNode
<1>1. /\ TypeOK /\ FreshTags /\ IterationInv /\ Holding(st) /\ st \in Objects
      /\ TreeOf(processTree, st, Known) /\ Known \subseteq Tags
  BY SafeParts
<1>2. /\ phase = "remove" /\ removedStates # <<>> /\ addedStates = {}
      /\ removedStates \in Seq(Tags) /\ NoDuplicates(removedStates) /\ error = "none"
      /\ UNCHANGED <<current, haltExecution>>
  BY <1>1, ZenonT(60) DEF UpdateRemoved, IterationInv, TypeOK
<1>3. /\ 1 \in DOMAIN removedStates /\ t = removedStates[1]
      /\ \A i \in DOMAIN Tail(removedStates) :
            /\ i + 1 \in DOMAIN removedStates /\ i + 1 # 1
            /\ Tail(removedStates)[i] = removedStates[i + 1]
      /\ Tail(removedStates) \in Seq(Tags)
  BY <1>2, TailElements
<1>4. /\ t \in states /\ t \in Known /\ t \in Tags /\ st[t].kind = "normal"
      /\ CanRemove(processTree, n) /\ ~IsSpec(t) /\ Known = states
  <2>1. t \in states /\ Known = states
    BY <1>1, <1>2, <1>3 DEF IterationInv, Known
  <2>2. t \in Tags /\ st[t].kind = "normal" /\ CanRemove(processTree, n)
    BY <1>1, <2>1, TreeCanSplit, ZenonT(40) DEF TreeOf
  <2> QED  BY <2>1, <2>2 DEF IsSpec
<1>5. /\ states' = states \ {t} /\ processTree' = Remove(processTree, n)
      /\ st' = [st EXCEPT ![t] = Freed(st[t])] /\ removedStates' = Tail(removedStates)
      /\ UNCHANGED <<count, spCount, addedStates, phase, spStates, spStatesDone, error>>
  BY <1>4, ZenonT(60) DEF UpdateRemoved
<1> HIDE DEF t
<1>6. /\ st'[t] = Freed(st[t]) /\ \A x \in Tags : x # t => st'[x] = st[x]
  BY <1>1, <1>4, <1>5, ZenonT(60) DEF Objects
<1>7. /\ st'[t].kind = "deleted" /\ st'[t].specStates = st[t].specStates
      /\ st'[t].finishedSpecStates = st[t].finishedSpecStates
  BY <1>6, FreedFields
<1>8. Holding(st')
  <2>1. st' \in Objects
    BY DEF TypeOK, Objects
  <2>2. \A x \in Tags \ {t} : SameBooks(st'[x], st[x])
    BY <1>6, ZenonT(60) DEF SameBooks
  <2> QED
    BY <1>1, <1>4, <1>7, <2>1, <2>2, FreedHolding, ZenonT(40)
<1>9. FreshTags'
  <2>1. \A x \in Tags : st[x].kind = "none" => st'[x] = st[x]
    BY <1>4, <1>6, ZenonT(60)
  <2> QED
    BY <1>1, <1>5, <2>1, FreshKept, ZenonT(60)
<1>10. TreeOf(processTree', st', Known')
  <2>1. \A x \in Known \ {t} : SamePlace(st'[x], st[x])
    BY <1>1, <1>6, ZenonT(60) DEF SamePlace
  <2>2. Known' = Known \ {t}
    BY <1>2, <1>4, <1>5 DEF Known
  <2> QED
    BY <1>1, <1>4, <1>5, <2>1, <2>2, TreeRemove, Zenon
<1>11. IterationInv'
  <2>1. NoDuplicates(removedStates')
    BY <1>2, <1>3, <1>5 DEF NoDuplicates
  <2>2. \A i \in DOMAIN removedStates' : removedStates'[i] \in states'
    BY <1>1, <1>2, <1>3, <1>5, ZenonT(60) DEF IterationInv, NoDuplicates
  <2>3. \A x \in Tags : st'[x].kind = "spec" => Speculating
    BY <1>1, <1>6, <1>7, ZenonT(60) DEF IterationInv, IsSpec
  <2> QED
    BY <1>2, <1>5, <2>1, <2>2, <2>3, ZenonT(60) DEF IterationInv, IsSpec
<1>12. RunsHeadFirst' /\ VerifiedAfterSpeculation'
  BY <1>2, <1>5 DEF RunsHeadFirst, VerifiedAfterSpeculation
<1> QED
  BY <1>8, <1>9, <1>10, <1>11, <1>12, SafeFromParts

\* Steps of the loop that move states between its sets.
LEMMA BookkeepingSafe ==
    ASSUME SafeInv, TypeOK', phase # "execute", phase' \notin {"execute", "timers"},
           UNCHANGED <<st, count, spCount, processTree, error>>, Known' = Known,
           IterationInv'
    PROVE  SafeInv'
<1>1. FreshTags /\ Holding(st) /\ TreeOf(processTree, st, Known)
  BY SafeParts
<1>2. FreshTags'
  BY <1>1, ZenonT(60) DEF FreshTags
<1>3. RunsHeadFirst' /\ VerifiedAfterSpeculation'
  BY DEF RunsHeadFirst, VerifiedAfterSpeculation
<1> QED
  BY <1>1, <1>2, <1>3, SafeFromParts

\* doDumpStates hands over one more of the normal states.
LEMMA DumpStateSafe ==
    ASSUME SafeInv, TypeOK', DumpState
    PROVE  SafeInv'
<1>1. /\ TypeOK /\ IterationInv /\ TreeOf(processTree, st, Known) /\ Known \subseteq Tags
  BY SafeParts
<1>2. PICK t \in states : /\ \A i \in DOMAIN removedStates : removedStates[i] # t
                          /\ TerminateState(t, "dump")
  BY DEF DumpState
<1>3. t \in Tags /\ st[t].kind = "normal" /\ phase \in {"select", "dump"} /\ addedStates = {}
  BY <1>1, ZenonT(60) DEF TreeOf, Known, DumpState, IterationInv
<1>4. /\ removedStates' = Append(removedStates, t) /\ phase' = "dump"
      /\ UNCHANGED <<st, count, spCount, processTree, states, addedStates, error>>
  BY <1>2, <1>3 DEF TerminateState
<1>5. removedStates \in Seq(Tags) /\ NoDuplicates(removedStates) /\ ~Holds(removedStates, t)
  BY <1>1, <1>2, ZenonT(40) DEF TypeOK, IterationInv, Holds
<1>6. /\ NoDuplicates(Append(removedStates, t))
      /\ \A i \in DOMAIN Append(removedStates, t) :
            \/ Append(removedStates, t)[i] = t
            \/ i \in DOMAIN removedStates /\ Append(removedStates, t)[i] = removedStates[i]
  BY <1>3, <1>5, AppendElements, ZenonT(60)
<1>7. IterationInv'
  <2>1. NoDuplicates(removedStates') /\ \A i \in DOMAIN removedStates' : removedStates'[i] \in states'
    BY <1>1, <1>4, <1>6, ZenonT(60) DEF IterationInv
  <2>2. error = "none" /\ addedStates = {} /\ \A x \in Tags : st[x].kind = "spec" => Speculating
    BY <1>1, <1>3 DEF IterationInv, IsSpec
  <2> QED
    BY <1>4, <2>1, <2>2, ZenonT(60) DEF IterationInv, IsSpec
<1>8. Known' = Known
  BY <1>4 DEF Known
<1> QED
  BY <1>3, <1>4, <1>7, <1>8, BookkeepingSafe

\* The rest of the iteration, in a safe configuration.
LEMMA IterationSafe ==
    ASSUME SafeConfig, SafeInv, TypeOK',
           \/ ProcessTimers \/ CheckMemoryUsage \/ UpdateAdded \/ EndIteration \/ DumpDone
    PROVE  SafeInv'
<1>1. /\ "max-instruction-time" \notin Options /\ "max-memory" \notin Options
  BY DEF SafeConfig
<1>2. IterationInv
  BY SafeParts
<1>3. /\ phase # "execute" /\ phase' \notin {"execute", "timers"}
      /\ UNCHANGED <<st, count, spCount, processTree, error>>
  BY <1>1 DEF ProcessTimers, CheckMemoryUsage, UpdateAdded, EndIteration, DumpDone
<1>4. Known' = Known
  BY <1>1, ZenonT(60) DEF Known, ProcessTimers, CheckMemoryUsage, UpdateAdded, EndIteration, DumpDone
<1>5. IterationInv'
  BY <1>1, <1>2 DEF IterationInv, IsSpec, ProcessTimers, CheckMemoryUsage, UpdateAdded,
                    EndIteration, DumpDone
<1> QED
  BY <1>3, <1>4, <1>5, BookkeepingSafe

\* SafeInv is preserved by every step of a safe configuration.
LEMMA SafeStep ==
    ASSUME SafeConfig, SafeInv, [Next]_vars
    PROVE  SafeInv'
<1>1. TypeOK'
  BY TypeStep DEF SafeInv
<1>2. CASE UNCHANGED vars
  <2>1. /\ FreshTags' /\ OwnsHeld(st') /\ HeldByParent(st') /\ IterationInv'
    BY <1>2, ZenonT(40) DEF vars, SafeInv, FreshTags, IterationInv, IsSpec, Owner
  <2>2. RunsHeadFirst' /\ TreeMatchesStates' /\ VerifiedAfterSpeculation'
    BY <1>2, ZenonT(60) DEF vars, SafeInv, RunsHeadFirst, Owner, IsSpec, TreeMatchesStates,
                VerifiedAfterSpeculation
  <2> QED  BY <1>1, <2>1, <2>2 DEF SafeInv
<1>3. CASE Step
  BY <1>1, <1>3, SelectSafe, ExecuteSafe, ContinueSafe, IterationSafe, UpdateRemovedSafe,
     DumpStateSafe DEF Step
<1> QED
  BY <1>2, <1>3 DEF Next, Stopped

LEMMA SafeInit == Init => SafeInv
<1> SUFFICES ASSUME Init PROVE SafeInv
  OBVIOUS
<1>1. 0 \in Tags /\ 0 # NoState
  BY ConstantsAssumption DEF Tags
<1>2. TypeOK
  BY InitType
<1>3. /\ \A t \in Tags : /\ st[t].specStates = <<>> /\ st[t].finishedSpecStates = <<>>
                          /\ st[t].kind \in {"none", "normal"}
      /\ st[0].kind = "normal" /\ st[0].ptreeNode = <<>>
  BY <1>1 DEF Init, NoObject
<1>4. OwnsHeld(st) /\ HeldByParent(st)
  <2>1. NoDuplicates(<<>>) /\ DOMAIN <<>> = {}
    BY SMTT(20) DEF NoDuplicates
  <2>2. ASSUME NEW t \in Tags PROVE Owns(st, t)
    <3>1. st[t].specStates = <<>> /\ st[t].finishedSpecStates = <<>>
      BY <1>3
    <3>2. \A i \in DOMAIN st[t].specStates : FALSE
      BY ONLY <2>1, <3>1, Zenon
    <3>3. \A i \in DOMAIN st[t].finishedSpecStates : FALSE
      BY ONLY <2>1, <3>1, Zenon
    <3>4. NoDuplicates(st[t].specStates) /\ NoDuplicates(st[t].finishedSpecStates)
      BY ONLY <2>1, <3>1, ZenonT(60)
    <3> QED BY ONLY <3>1, <3>2, <3>3, <3>4, ZenonT(60) DEF Owns
  <2>3. HeldByParent(st)
    BY <1>3 DEF HeldByParent
  <2> QED
    BY <2>2, <2>3 DEF OwnsHeld
<1>5. FreshTags
  BY TagsNat DEF Init, FreshTags
<1>6. IterationInv /\ RunsHeadFirst /\ VerifiedAfterSpeculation
  BY <1>3 DEF Init, IterationInv, RunsHeadFirst, VerifiedAfterSpeculation, IsSpec, NoDuplicates
<1>7. TreeMatchesStates
  <2>1. DOMAIN processTree = {<<>>} /\ processTree[<<>>] = 0
    BY DEF Init, RootTree
  <2>2. <<>> \in Node /\ Len(<<>>) = 0 /\ LeftChild(<<>>) # <<>> /\ RightChild(<<>>) # <<>>
    <3>1. <<>> \in Node
      BY DEF Node
    <3> QED  BY <3>1, Children
  <2>3. IsLeaf(processTree, <<>>)
    BY <2>1, <2>2 DEF IsLeaf
  <2>4. WellFormed(processTree)
    BY <1>1, <2>1, <2>2, <2>3, OnPathReflexive DEF WellFormed
  <2> QED
    BY <1>3, <2>1, <2>4 DEF Init, TreeMatchesStates
<1> QED
  BY <1>2, <1>4, <1>5, <1>6, <1>7 DEF SafeInv

-----------------------------------------------------------------------------
(* What follows from it *)

\* With safe options and instructions, SafeInv holds throughout every execution
\* of the loop, however many states it forks.
THEOREM SafeInvariant == ASSUME SafeConfig PROVE Spec => []SafeInv
<1>1. SafeInv /\ [Next]_vars => SafeInv'
  BY SafeStep
<1> QED
  BY <1>1, SafeInit, PTL DEF Spec

\* No assertion of terminateSpecState, updateStates or PTree fails, and no freed
\* or uninitialised state is used.
THEOREM AssertionsNeverFail == ASSUME SafeConfig PROVE Spec => []AssertionsHold
<1>1. SafeInv => AssertionsHold
  BY DEF SafeInv, IterationInv, AssertionsHold
<1> QED
  BY <1>1, SafeInvariant, PTL

\* The state that executes is the head of its queue, or a normal state whose
\* queue is empty.
THEOREM HeadFirst == ASSUME SafeConfig PROVE Spec => []RunsHeadFirst
<1>1. SafeInv => RunsHeadFirst
  BY DEF SafeInv
<1> QED
  BY <1>1, SafeInvariant, PTL

\* The leaves of the process tree are exactly the states the executor knows.
THEOREM TreeMatches == ASSUME SafeConfig PROVE Spec => []TreeMatchesStates
<1>1. SafeInv => TreeMatchesStates
  BY DEF SafeInv
<1> QED
  BY <1>1, SafeInvariant, PTL

\* A normal state ends only after its speculative states were explored and merged.
THEOREM VerifiedLast == ASSUME SafeConfig PROVE Spec => []VerifiedAfterSpeculation
<1>1. SafeInv => VerifiedAfterSpeculation
  BY DEF SafeInv
<1> QED
  BY <1>1, SafeInvariant, PTL

\* No speculative state is lost or held twice.
THEOREM AllHeldOnce == ASSUME SafeConfig PROVE Spec => []HeldOnce
<1>1. ASSUME SafeInv PROVE HeldOnce
  <2>1. st \in Objects /\ Holding(st)
    BY <1>1, SafeParts, Zenon
  <2>2. \A p \in Tags : /\ NoDuplicates(st[p].specStates)
                        /\ NoDuplicates(st[p].finishedSpecStates)
    BY <2>1, Zenon DEF Holding, OwnsHeld, Owns
  <2>3. ASSUME NEW s \in Tags, IsSpec(s)
        PROVE  LET p == st[s].pPerentState
               IN  /\ p \in Tags /\ st[p].kind \in {"normal", "deleted"}
                   /\ Holds(st[p].specStates, s) <=> ~Holds(st[p].finishedSpecStates, s)
                   /\ \A q \in Tags \ {p} : /\ ~Holds(st[q].specStates, s)
                                            /\ ~Holds(st[q].finishedSpecStates, s)
    <3> DEFINE p == st[s].pPerentState
    <3>1. /\ p \in Tags /\ (Holds(st[p].specStates, s) \/ Holds(st[p].finishedSpecStates, s))
      BY <2>1, <2>3 DEF Holding, HeldByParent, IsSpec
    <3> HIDE DEF p
    <3>2. ASSUME NEW x \in Tags,
                 Holds(st[x].specStates, s) \/ Holds(st[x].finishedSpecStates, s)
          PROVE  x = p /\ st[x].kind \notin {"none", "spec"}
      <4> DEFINE q == st[x].specStates
                 f == st[x].finishedSpecStates
      <4>1. OwnsParts(st, x, q, f)
        BY <2>1, HoldingOf
      <4>2. Holds(q, s) \/ Holds(f, s)
        BY <3>2
      <4> HIDE DEF q, f
      <4>3. st[s].pPerentState = x
        BY <4>1, <4>2 DEF Holds, OwnsParts
      <4>4. ~(q = <<>> /\ f = <<>>)
        BY <4>2 DEF Holds
      <4> QED  BY <4>1, <4>3, <4>4 DEF p, OwnsParts
    <3>3. ~(Holds(st[p].specStates, s) /\ Holds(st[p].finishedSpecStates, s))
      <4> DEFINE q == st[p].specStates
                 f == st[p].finishedSpecStates
      <4>1. OwnsParts(st, p, q, f)
        BY <2>1, <3>1, HoldingOf, Zenon
      <4> HIDE DEF q, f
      <4>2. ~(Holds(q, s) /\ Holds(f, s))
        BY <4>1 DEF Holds, OwnsParts
      <4> QED  BY <4>2, Zenon DEF q, f
    <3>4. st[p].kind \in {"none", "normal", "spec", "deleted"}
      BY <2>1, <3>1 DEF Objects, StateType
    <3> QED
      BY <3>1, <3>2, <3>3, <3>4, ZenonT(60) DEF p
  <2> QED
    BY <2>2, <2>3 DEF HeldOnce
<1> QED
  BY <1>1, SafeInvariant, PTL

=============================================================================
