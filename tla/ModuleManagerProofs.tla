------------------------- MODULE ModuleManagerProofs -------------------------
(***************************************************************************)
(* Proofs about ModuleManager, for every set of threads and modules, every *)
(* Needs (cyclic ones too) and every bound.  The inductive invariant is    *)
(*                                                                         *)
(*    TypeOK /\ Formed /\ (raced \/ shifted \/ Undisturbed)                *)
(*                                                                         *)
(* Formed holds whatever the calls do to each other.  Undisturbed says     *)
(* what each call in progress knows of the module it works on, and that    *)
(* the count of an entry is the number of References to its instance:      *)
(* clients, constructed objects and calls of Disconnect that have not      *)
(* counted down yet.                                                       *)
(***************************************************************************)
EXTENDS ModuleManager, FiniteSetTheorems, SequenceTheorems, WellFoundedInduction, TLAPS

-----------------------------------------------------------------------------
(* The inductive invariant *)

Calling == {"find", "hit", "bump", "load", "create", "made", "push"}
Building == {"create", "made", "push"}
Releasing == {"lookup", "count", "drop"}
Ending == {"destroy", "deleted", "unload", "remove"}
Pointing == {"hit", "bump", "count", "drop"} \cup Ending

Depth(t) == 1..Len(stack[t])
Cached(m) == \E p \in 1..size : mem[p].mod = m
Known(i) == \E p \in 1..size : mem[p].inst = i

(* What TypeOK leaves open: the places that frames point at have held an    *)
(* entry, and what an entry and most frames have is an instance.            *)
Filled ==
  /\ \A p \in Slot : mem[p].mod # None => mem[p].inst \in Instance
  /\ \A p \in 1..size : mem[p].mod # None
FrameFilled(f) ==
  /\ f.step \in Building \cup Releasing => f.inst \in Instance
  /\ f.step \in Pointing => f.ptr \in Slot /\ mem[f.ptr].mod # None
FramesFilled == \A t \in Thread : \A k \in Depth(t) : FrameFilled(stack[t][k])

(* Calls of Connect nest in constructors, and calls of Disconnect in        *)
(* destructors.                                                             *)
Nesting ==
  \A t \in Thread :
    /\ \A k \in Depth(t) : k # 1 => stack[t][k].step \in {"create", "destroy"}
    /\ \A j, k \in Depth(t) : stack[t][j].step \in Calling => stack[t][k].step \in Calling

(* A client connects to a module it is not connected to.                    *)
Asking ==
  \A t \in Thread : stack[t] # <<>> /\ stack[t][Len(stack[t])].step \in Calling =>
    \A i \in holds[t] : i[1] # stack[t][Len(stack[t])].mod

Formed == Filled /\ FramesFilled /\ Nesting /\ Asking

(* The references to an instance.                                           *)
Holding(i) == {t \in Thread : i \in holds[t]}
Using(i) == {j \in Instance : refs[j] = i}
Releases(st, i) == st # <<>> /\ Head(st).step \in Releasing /\ Head(st).inst = i
Pending(i) == {t \in Thread : Releases(stack[t], i)}
References(i) == Cardinality(Holding(i)) + Cardinality(Using(i)) + Cardinality(Pending(i))

Apart == \A u, v \in Thread : u # v => ~Conflict(stack[u], stack[v])

(* A module has one entry at most, which counts the references; and what is *)
(* referred to has an entry.                                                *)
Listed ==
  /\ \A p, q \in 1..size : mem[p].mod = mem[q].mod => p = q
  /\ \A p \in 1..size : mem[p].inst[1] = mem[p].mod
Counted ==
  /\ \A p \in 1..size : mem[p].count = References(mem[p].inst)
  /\ \A i \in Instance : References(i) # 0 => Known(i)

(* The instance of an entry exists unless a call is destroying it.          *)
Leaving(i) == \E t \in Thread : \E k \in Depth(t) :
                stack[t][k].step \in Ending /\ stack[t][k].inst = i
Lives(e) == /\ e.count > 0 /\ e.inst \in alive
            /\ sinst[e.mod] = e.inst /\ libs[e.mod] = 1
Living == \A p \in 1..size : Leaving(mem[p].inst) \/ Lives(mem[p])

(* Connect: the entry it has found, or the module it loads, which has no    *)
(* entry; a constructor that made the call needs the module.                *)
ConnectKnows(f) ==
  /\ f.step \in {"hit", "bump"} => f.ptr \in 1..size /\ mem[f.ptr].mod = f.mod
  /\ f.step = "bump" => f.val = mem[f.ptr].count
  /\ f.step \in {"load"} \cup Building => ~Cached(f.mod)
  /\ f.step \in Building =>
       /\ f.inst[1] = f.mod
       /\ f.inst \in alive <=> f.step = "push"
       /\ sinst[f.mod] = IF f.step = "push" THEN f.inst ELSE NoInst
  /\ f.step \in {"made", "push"} => Needs[f.mod] = None \/ Cached(Needs[f.mod])
Alone(t, k) == \A j \in Depth(t) :
  stack[t][j].step \in Building /\ stack[t][j].mod = stack[t][k].mod => j = k
Connecting ==
  \A t \in Thread : \A k \in Depth(t) :
    /\ ConnectKnows(stack[t][k])
    /\ stack[t][k].step \in Building /\ Alone(t, k) => libs[stack[t][k].mod] = 1
    /\ k # 1 /\ stack[t][k].step = "create" => stack[t][k - 1].mod = Needs[stack[t][k].mod]

(* Disconnect: what it points at is an entry, with no reference left once   *)
(* it is being destroyed, and what is done of that.                         *)
DisconnectKnows(f) ==
  /\ f.step \in Releasing \cup Ending => f.mod = f.inst[1]
  /\ f.step \in {"count", "drop"} => f.ptr \in 1..size /\ mem[f.ptr].inst = f.inst
  /\ f.step = "drop" => f.val = mem[f.ptr].count
  /\ f.step \in Ending =>
       /\ \E p \in 1..size : mem[p] = mem[f.ptr]
       /\ mem[f.ptr].inst = f.inst /\ mem[f.ptr].count = 0
       /\ sinst[f.mod] = IF f.step \in {"unload", "remove"} THEN NoInst ELSE f.inst
       /\ libs[f.mod] = IF f.step = "remove" THEN 0 ELSE 1
Disconnecting ==
  \A t \in Thread : \A k \in Depth(t) :
    /\ DisconnectKnows(stack[t][k])
    /\ stack[t][k].step \in Ending =>
         /\ stack[t][k].inst \in alive <=> k = 1 /\ stack[t][k].step = "destroy"
         /\ \A j \in Depth(t) :
              stack[t][j].step \in Ending /\ stack[t][j].inst = stack[t][k].inst => j = k

(* A module with no entry is not loaded unless a call is loading it.        *)
Loading(m) == \E t \in Thread : \E k \in Depth(t) :
                stack[t][k].step \in Building /\ stack[t][k].mod = m
Adding(i) == \E t \in Thread : At(t, "push") /\ Top(t).inst = i
Making(i) == \E t \in Thread : At(t, "made") /\ Top(t).inst = i
Unlisted ==
  /\ \A m \in Module : ~Cached(m) => sinst[m] = NoInst \/ Adding(sinst[m])
  /\ \A m \in Module : sinst[m] # NoInst => sinst[m][1] = m
  /\ \A m \in Module : ~Cached(m) => libs[m] = 0 \/ Loading(m)
  /\ \A i \in alive : Known(i) \/ Adding(i)
  /\ \A j \in Instance : refs[j] = NoInst \/ j \in alive \/ Making(j)

Undisturbed == /\ Apart /\ Listed /\ Counted /\ Living
               /\ Connecting /\ Disconnecting /\ Unlisted

IInv == TypeOK /\ Formed /\ (raced \/ shifted \/ Undisturbed)

-----------------------------------------------------------------------------
(* Constants, positions and references *)

LEMMA Constants ==
  /\ None \notin Module /\ Needs \in [Module -> Module \cup {None}]
  /\ MaxMade \in Nat /\ Slot = 1..MaxMade /\ Slot \subseteq Nat
  /\ NoInst \notin Instance /\ NoInst[1] = None
  /\ \A i \in Instance : i[1] \in Module
  /\ \A m \in Module, n \in Slot : <<m, n>> \in Instance /\ <<m, n>>[1] = m
<1>1. NoInst \notin Instance
  BY DEF NoInst, Instance
<1>. QED
  BY <1>1, NeedsAssumption, BoundAssumption DEF Slot, NoInst, Instance

LEMMA Finite ==
  /\ IsFiniteSet(Thread) /\ IsFiniteSet(Instance)
  /\ Cardinality(Thread) \in Nat /\ Cardinality(Instance) \in Nat
  /\ CountMod \in Nat \ {0}
<1>1. IsFiniteSet(1..MaxMade)
  BY BoundAssumption, FS_Interval
<1>2. IsFiniteSet(Module \X (1..MaxMade))
  BY <1>1, FiniteAssumption, FS_Product
<1>3. IsFiniteSet(Instance)
  BY <1>2 DEF Instance
<1>4. Cardinality(Thread) \in Nat /\ Cardinality(Instance) \in Nat
  BY <1>3, FiniteAssumption, FS_CardinalityType
<1>. QED
  BY <1>3, <1>4, FiniteAssumption DEF CountMod

(* A nonempty set of natural numbers has a least element.                   *)
LEMMA LeastNatural ==
  ASSUME NEW S \in SUBSET Nat, S # {}
  PROVE  \E n \in S : \A m \in S : n <= m
<1>1. PICK n \in S : \A m \in S : <<m, n>> \notin OpToRel(<, Nat)
  BY NatLessThanWellFounded, WFMin, Zenon
<1>2. \A m \in S : ~(m < n)
  BY <1>1 DEF OpToRel
<1>. QED
  BY <1>2

LEMMA First ==
  ASSUME NEW n \in Nat, NEW S \in SUBSET (1..n), S # {}
  PROVE  LET e == CHOOSE i \in S : \A j \in S : i <= j
         IN  e \in S /\ \A j \in S : e <= j
<1>1. S \in SUBSET Nat
  OBVIOUS
<1>2. \E i \in S : \A j \in S : i <= j
  BY <1>1, LeastNatural
<1>. QED
  BY <1>2

(* Last: a position of S, or 0 when there is none.                          *)
LEMMA LastOf ==
  ASSUME NEW n \in Nat, NEW S \in SUBSET (1..n)
  PROVE  /\ S = {} => Last(S) = 0
         /\ S # {} => Last(S) \in S /\ Last(S) # 0
<1>1. CASE S = {}
  BY <1>1 DEF Last
<1>2. CASE S # {}
  <2> DEFINE T == {n - s : s \in S}
  <2>1. T \in SUBSET Nat /\ T # {}
    <3>1. \A s \in S : n - s \in Nat
      OBVIOUS
    <3>. QED
      BY <1>2, <3>1
  <2>2. PICK m \in T : \A k \in T : m <= k
    BY <2>1, LeastNatural
  <2>3. PICK s \in S : m = n - s
    BY <2>2
  <2>4. \A j \in S : j <= s
    <3> SUFFICES ASSUME NEW j \in S PROVE j <= s
      OBVIOUS
    <3>1. n - s <= n - j
      BY <2>2, <2>3
    <3>. QED
      BY <3>1
  <2>5. Last(S) \in S
    BY <1>2, <2>4 DEF Last
  <2>. QED
    BY <1>2, <2>5
<1>. QED
  BY <1>1, <1>2

(* A reference is a thread's, a call's or an object's.                      *)
LEMMA ReferenceSets ==
  ASSUME NEW i
  PROVE  /\ IsFiniteSet(Holding(i)) /\ IsFiniteSet(Using(i)) /\ IsFiniteSet(Pending(i))
         /\ Cardinality(Holding(i)) \in 0..Cardinality(Thread)
         /\ Cardinality(Using(i)) \in 0..Cardinality(Instance)
         /\ Cardinality(Pending(i)) \in 0..Cardinality(Thread)
         /\ References(i) \in 0..(CountMod - 1)
<1>1. IsFiniteSet(Holding(i)) /\ Cardinality(Holding(i)) <= Cardinality(Thread)
  BY Finite, FS_Subset DEF Holding
<1>2. IsFiniteSet(Using(i)) /\ Cardinality(Using(i)) <= Cardinality(Instance)
  BY Finite, FS_Subset DEF Using
<1>3. IsFiniteSet(Pending(i)) /\ Cardinality(Pending(i)) <= Cardinality(Thread)
  BY Finite, FS_Subset DEF Pending
<1>4. /\ Cardinality(Holding(i)) \in Nat /\ Cardinality(Using(i)) \in Nat
      /\ Cardinality(Pending(i)) \in Nat
  BY <1>1, <1>2, <1>3, FS_CardinalityType
<1>5. References(i) \in 0..(CountMod - 1)
  BY <1>1, <1>2, <1>3, <1>4, Finite DEF References, CountMod
<1>. QED
  BY <1>1, <1>2, <1>3, <1>4, <1>5, Finite

LEMMA NewReferenceSets ==
  ASSUME NEW i
  PROVE  /\ IsFiniteSet(Holding(i)') /\ IsFiniteSet(Using(i)') /\ IsFiniteSet(Pending(i)')
         /\ Cardinality(Holding(i)') \in 0..Cardinality(Thread)
         /\ Cardinality(Using(i)') \in 0..Cardinality(Instance)
         /\ Cardinality(Pending(i)') \in 0..Cardinality(Thread)
         /\ References(i)' \in 0..(CountMod - 1)
<1>1. IsFiniteSet(Holding(i)') /\ Cardinality(Holding(i)') <= Cardinality(Thread)
  BY Finite, FS_Subset DEF Holding
<1>2. IsFiniteSet(Using(i)') /\ Cardinality(Using(i)') <= Cardinality(Instance)
  BY Finite, FS_Subset DEF Using
<1>3. IsFiniteSet(Pending(i)') /\ Cardinality(Pending(i)') <= Cardinality(Thread)
  BY Finite, FS_Subset DEF Pending
<1>4. /\ Cardinality(Holding(i)') \in Nat /\ Cardinality(Using(i)') \in Nat
      /\ Cardinality(Pending(i)') \in Nat
  BY <1>1, <1>2, <1>3, FS_CardinalityType
<1>5. References(i)' \in 0..(CountMod - 1)
  BY <1>1, <1>2, <1>3, <1>4, Finite DEF References, CountMod
<1>. QED
  BY <1>1, <1>2, <1>3, <1>4, <1>5, Finite

-----------------------------------------------------------------------------
(* Calls in progress *)

LEMMA TopFrame ==
  ASSUME TypeOK, NEW t \in Thread, stack[t] # <<>>
  PROVE  /\ Top(t) = stack[t][1] /\ Top(t) \in FrameType
         /\ Len(stack[t]) \in Nat \ {0} /\ 1 \in Depth(t)
<1>1. stack[t] \in Seq(FrameType)
  BY DEF TypeOK
<1>2. Len(stack[t]) \in Nat \ {0}
  BY <1>1, EmptySeq
<1>3. Head(stack[t]) \in FrameType
  BY <1>1, HeadTailProperties
<1>. QED
  BY <1>1, <1>2, <1>3 DEF Top, Depth

LEMMA Frames ==
  ASSUME TypeOK, NEW t \in Thread
  PROVE  /\ Len(stack[t]) \in Nat /\ (stack[t] = <<>> <=> Len(stack[t]) = 0)
         /\ \A k \in Depth(t) : k \in Nat \ {0} /\ stack[t][k] \in FrameType
<1>1. stack[t] \in Seq(FrameType)
  BY DEF TypeOK
<1>2. Len(stack[t]) \in Nat /\ (stack[t] = <<>> <=> Len(stack[t]) = 0)
  BY <1>1, EmptySeq, LenProperties
<1>3. \A k \in Depth(t) : stack[t][k] \in FrameType
  BY <1>1, ElementOfSeq DEF Depth
<1>. QED
  BY <1>2, <1>3 DEF Depth

(* Thread t's stack has n new frames in place of the d innermost ones.      *)
Keeps(t, n, d) ==
  /\ stack' \in [Thread -> Seq(FrameType)] /\ raced' \in BOOLEAN
  /\ \A u \in Thread : u # t => stack'[u] = stack[u]
  /\ Len(stack'[t]) = Len(stack[t]) - d + n /\ Len(stack'[t]) \in Nat
  /\ \A k \in 1..Len(stack'[t]) : k > n =>
       k - n + d \in Depth(t) /\ stack'[t][k] = stack[t][k - n + d]

LEMMA Goings ==
  ASSUME TypeOK, NEW t \in Thread, NEW st \in Seq(FrameType), Goes(t, st)
  PROVE  /\ stack' \in [Thread -> Seq(FrameType)] /\ raced' \in BOOLEAN
         /\ stack'[t] = st /\ \A u \in Thread : u # t => stack'[u] = stack[u]
         /\ ~raced' => ~raced /\ Apart'
BY DEF TypeOK, Goes, Apart

(* The innermost frame changes; a call begins; the innermost frame changes  *)
(* and calls; a call returns to the frame under it; the last call ends.     *)
LEMMA Stepped ==
  ASSUME TypeOK, NEW t \in Thread, stack[t] # <<>>, NEW f \in FrameType, Step(t, f)
  PROVE  /\ Keeps(t, 1, 1) /\ (~raced' => ~raced /\ Apart')
         /\ stack'[t] # <<>> /\ stack'[t][1] = f /\ Head(stack'[t]) = f
<1> DEFINE st == <<f>> \o Tail(stack[t])
<1>1. stack[t] \in Seq(FrameType)
  BY DEF TypeOK
<1>2. /\ Tail(stack[t]) \in Seq(FrameType) /\ Len(Tail(stack[t])) = Len(stack[t]) - 1
      /\ \A k \in 1..Len(Tail(stack[t])) : Tail(stack[t])[k] = stack[t][k + 1]
  BY <1>1, HeadTailProperties
<1>3. <<f>> \in Seq(FrameType) /\ Len(<<f>>) = 1 /\ <<f>>[1] = f
  OBVIOUS
<1>4. Len(stack[t]) \in Nat \ {0}
  BY TopFrame
<1>5. /\ st \in Seq(FrameType) /\ Len(st) = Len(stack[t]) /\ st[1] = f
      /\ \A k \in 1..Len(st) : k > 1 => st[k] = Tail(stack[t])[k - 1]
  BY <1>2, <1>3, <1>4, ConcatProperties
<1>6. \A k \in 1..Len(st) : k > 1 => st[k] = stack[t][k]
  BY <1>2, <1>4, <1>5
<1>7. Goes(t, st)
  BY DEF Step
<1> HIDE DEF st
<1>8. /\ stack' \in [Thread -> Seq(FrameType)] /\ raced' \in BOOLEAN
      /\ stack'[t] = st /\ \A u \in Thread : u # t => stack'[u] = stack[u]
      /\ ~raced' => ~raced /\ Apart'
  BY <1>5, <1>7, Goings
<1>. QED
  BY <1>4, <1>5, <1>6, <1>8 DEF Keeps, Depth

LEMMA Called ==
  ASSUME TypeOK, NEW t \in Thread, NEW f \in FrameType, Call(t, f)
  PROVE  /\ Keeps(t, 1, 0) /\ (~raced' => ~raced /\ Apart')
         /\ stack'[t] # <<>> /\ stack'[t][1] = f /\ Head(stack'[t]) = f
<1> DEFINE st == <<f>> \o stack[t]
<1>1. stack[t] \in Seq(FrameType)
  BY DEF TypeOK
<1>2. <<f>> \in Seq(FrameType) /\ Len(<<f>>) = 1 /\ <<f>>[1] = f
  OBVIOUS
<1>3. Len(stack[t]) \in Nat
  BY <1>1, LenProperties
<1>4. /\ st \in Seq(FrameType) /\ Len(st) = Len(stack[t]) + 1 /\ st[1] = f
      /\ \A k \in 1..Len(st) : k > 1 => st[k] = stack[t][k - 1]
  BY <1>1, <1>2, <1>3, ConcatProperties
<1>5. Goes(t, st)
  BY DEF Call
<1> HIDE DEF st
<1>6. /\ stack' \in [Thread -> Seq(FrameType)] /\ raced' \in BOOLEAN
      /\ stack'[t] = st /\ \A u \in Thread : u # t => stack'[u] = stack[u]
      /\ ~raced' => ~raced /\ Apart'
  BY <1>4, <1>5, Goings
<1>. QED
  BY <1>3, <1>4, <1>6 DEF Keeps, Depth

LEMMA Nested ==
  ASSUME TypeOK, NEW t \in Thread, stack[t] # <<>>, NEW f \in FrameType, NEW g \in FrameType,
         Goes(t, <<g, f>> \o Tail(stack[t]))
  PROVE  /\ Keeps(t, 2, 1) /\ (~raced' => ~raced /\ Apart')
         /\ stack'[t] # <<>> /\ stack'[t][1] = g /\ Head(stack'[t]) = g /\ stack'[t][2] = f
<1> DEFINE st == <<g, f>> \o Tail(stack[t])
<1>1. stack[t] \in Seq(FrameType)
  BY DEF TypeOK
<1>2. /\ Tail(stack[t]) \in Seq(FrameType) /\ Len(Tail(stack[t])) = Len(stack[t]) - 1
      /\ \A k \in 1..Len(Tail(stack[t])) : Tail(stack[t])[k] = stack[t][k + 1]
  BY <1>1, HeadTailProperties
<1>3. <<g, f>> \in Seq(FrameType) /\ Len(<<g, f>>) = 2 /\ <<g, f>>[1] = g /\ <<g, f>>[2] = f
  OBVIOUS
<1>4. Len(stack[t]) \in Nat \ {0}
  BY TopFrame
<1>5. /\ st \in Seq(FrameType) /\ Len(st) = Len(stack[t]) + 1 /\ st[1] = g /\ st[2] = f
      /\ \A k \in 1..Len(st) : k > 2 => st[k] = Tail(stack[t])[k - 2]
  BY <1>2, <1>3, <1>4, ConcatProperties
<1>6. \A k \in 1..Len(st) : k > 2 => st[k] = stack[t][k - 1]
  BY <1>2, <1>4, <1>5
<1> HIDE DEF st
<1>7. /\ stack' \in [Thread -> Seq(FrameType)] /\ raced' \in BOOLEAN
      /\ stack'[t] = st /\ \A u \in Thread : u # t => stack'[u] = stack[u]
      /\ ~raced' => ~raced /\ Apart'
  BY <1>5, Goings DEF st
<1>. QED
  BY <1>4, <1>5, <1>6, <1>7 DEF Keeps, Depth

LEMMA TwoTails ==
  ASSUME NEW s \in Seq(FrameType), Len(s) \notin {0, 1}
  PROVE  /\ Tail(Tail(s)) \in Seq(FrameType) /\ Len(Tail(Tail(s))) = Len(s) - 2
         /\ \A k \in 1..(Len(s) - 2) : Tail(Tail(s))[k] = s[k + 2]
<1> DEFINE tl == Tail(s)
           rest == Tail(tl)
<1>1. s # <<>> /\ Len(s) \in Nat \ {0, 1}
  BY LenProperties
<1>2. /\ tl \in Seq(FrameType) /\ Len(tl) = Len(s) - 1
      /\ \A k \in 1..Len(tl) : tl[k] = s[k + 1]
  BY <1>1, HeadTailProperties
<1> HIDE DEF tl
<1>3. tl # <<>>
  BY <1>1, <1>2
<1>4. /\ rest \in Seq(FrameType) /\ Len(rest) = Len(tl) - 1
      /\ \A k \in 1..Len(rest) : rest[k] = tl[k + 1]
  BY <1>2, <1>3, HeadTailProperties
<1> HIDE DEF rest
<1>5. \A k \in 1..(Len(s) - 2) : rest[k] = s[k + 2]
  <2> SUFFICES ASSUME NEW k \in 1..(Len(s) - 2)
               PROVE  rest[k] = s[k + 2]
    OBVIOUS
  <2>1. k \in 1..Len(rest) /\ k + 1 \in 1..Len(tl) /\ (k + 1) + 1 = k + 2
    BY <1>1, <1>2, <1>4
  <2>. QED
    BY <1>2, <1>4, <2>1
<1>6. /\ rest \in Seq(FrameType) /\ Len(rest) = Len(s) - 2
      /\ \A k \in 1..(Len(s) - 2) : rest[k] = s[k + 2]
  BY <1>1, <1>2, <1>4, <1>5
<1>. QED
  BY <1>6, Zenon DEF rest, tl

LEMMA ReturnedTo ==
  ASSUME TypeOK, NEW t \in Thread, NEW f \in FrameType, NEW rest \in Seq(FrameType),
         Len(stack[t]) \notin {0, 1}, Len(rest) = Len(stack[t]) - 2,
         \A k \in 1..(Len(stack[t]) - 2) : rest[k] = stack[t][k + 2],
         Goes(t, <<f>> \o rest)
  PROVE  /\ Keeps(t, 1, 2) /\ (~raced' => ~raced /\ Apart')
         /\ stack'[t] # <<>> /\ stack'[t][1] = f /\ Head(stack'[t]) = f
<1> DEFINE st == <<f>> \o rest
<1>1. Len(stack[t]) \in Nat \ {0, 1}
  BY Frames
<1>2. <<f>> \in Seq(FrameType) /\ Len(<<f>>) = 1 /\ <<f>>[1] = f
  OBVIOUS
<1>3. /\ st \in Seq(FrameType) /\ Len(st) = Len(stack[t]) - 1 /\ st[1] = f
      /\ \A k \in 1..Len(st) : k > 1 => st[k] = rest[k - 1]
  BY <1>1, <1>2, ConcatProperties
<1>4. \A k \in 1..Len(st) : k > 1 => st[k] = stack[t][k + 1]
  <2> SUFFICES ASSUME NEW k \in 1..Len(st), k > 1
               PROVE  st[k] = stack[t][k + 1]
    OBVIOUS
  <2>1. k - 1 \in 1..(Len(stack[t]) - 2) /\ (k - 1) + 2 = k + 1
    BY <1>1, <1>3
  <2>. QED
    BY <1>3, <2>1
<1> HIDE DEF st
<1>5. /\ stack' \in [Thread -> Seq(FrameType)] /\ raced' \in BOOLEAN
      /\ stack'[t] = st /\ \A u \in Thread : u # t => stack'[u] = stack[u]
      /\ ~raced' => ~raced /\ Apart'
  BY <1>3, Goings DEF st
<1>. QED
  BY <1>1, <1>3, <1>4, <1>5 DEF Keeps, Depth

LEMMA Returned ==
  ASSUME TypeOK, NEW t \in Thread, stack[t] # <<>>, Len(stack[t]) # 1, NEW f \in FrameType,
         Goes(t, <<f>> \o Tail(Tail(stack[t])))
  PROVE  /\ Keeps(t, 1, 2) /\ (~raced' => ~raced /\ Apart')
         /\ stack'[t] # <<>> /\ stack'[t][1] = f /\ Head(stack'[t]) = f
<1>1. stack[t] \in Seq(FrameType) /\ Len(stack[t]) \notin {0, 1}
  BY Frames, Zenon DEF TypeOK
<1>2. /\ Tail(Tail(stack[t])) \in Seq(FrameType)
      /\ Len(Tail(Tail(stack[t]))) = Len(stack[t]) - 2
      /\ \A k \in 1..(Len(stack[t]) - 2) : Tail(Tail(stack[t]))[k] = stack[t][k + 2]
  BY <1>1, TwoTails, Zenon
<1>. QED
  BY <1>1, <1>2, ReturnedTo, Zenon

LEMMA Ended ==
  ASSUME TypeOK, NEW t \in Thread, Len(stack[t]) = 1, Goes(t, <<>>)
  PROVE  Keeps(t, 0, 1) /\ stack'[t] = <<>> /\ (~raced' => ~raced /\ Apart')
<1>1. <<>> \in Seq(FrameType) /\ Len(<<>>) = 0
  BY EmptySeq
<1>2. /\ stack' \in [Thread -> Seq(FrameType)] /\ raced' \in BOOLEAN
      /\ stack'[t] = <<>> /\ \A u \in Thread : u # t => stack'[u] = stack[u]
      /\ ~raced' => ~raced /\ Apart'
  BY <1>1, Goings
<1>. QED
  BY <1>1, <1>2 DEF Keeps, Depth

-----------------------------------------------------------------------------
(* Steps from a well-formed state, disturbed or not *)

LEMMA FramesFilledStep ==
  ASSUME TypeOK, FramesFilled, NEW t \in Thread, NEW n \in Nat, NEW d \in Nat, Keeps(t, n, d),
         \A p \in Slot : mem[p].mod # None => mem'[p].mod # None,
         \A k \in 1..n : \A f \in FrameType : f = stack'[t][k] => FrameFilled(f)'
  PROVE  FramesFilled'
<1> SUFFICES ASSUME NEW u \in Thread, NEW k \in Depth(u)', NEW f \in FrameType, f = stack'[u][k]
             PROVE  FrameFilled(f)'
  <2>1. \A u \in Thread : \A k \in Depth(u)' : stack'[u][k] \in FrameType
    BY ElementOfSeq DEF Keeps, Depth
  <2>. QED
    BY <2>1 DEF FramesFilled, FrameFilled
<1>1. \A v \in Thread : \A j \in Depth(v) : f = stack[v][j] => FrameFilled(f)'
  BY DEF FramesFilled, FrameFilled
<1>2. CASE u # t
  BY <1>1, <1>2 DEF Keeps, Depth
<1>3. CASE u = t /\ k > n
  <2>1. k - n + d \in Depth(t) /\ stack'[t][k] = stack[t][k - n + d]
    BY <1>3 DEF Keeps, Depth
  <2>. QED
    BY <1>1, <1>3, <2>1
<1>4. CASE u = t /\ ~(k > n)
  BY <1>4 DEF Depth, Keeps
<1>. QED
  BY <1>2, <1>3, <1>4

LEMMA NestingStep ==
  ASSUME TypeOK, Nesting, NEW t \in Thread, NEW n \in Nat, NEW d \in Nat, Keeps(t, n, d),
         \A k \in 1..n : k # 1 => stack'[t][k].step \in {"create", "destroy"},
         d = 0 /\ stack[t] # <<>> => Top(t).step \in {"create", "destroy"},
         \A k \in 1..n : \A j \in Depth(t) :
           stack'[t][k].step \in Calling <=> stack[t][j].step \in Calling,
         \A j, k \in 1..n : stack'[t][k].step \in Calling <=> stack'[t][j].step \in Calling
  PROVE  Nesting'
<1> SUFFICES ASSUME NEW u \in Thread
             PROVE  /\ \A k \in Depth(u)' : k # 1 => stack'[u][k].step \in {"create", "destroy"}
                    /\ \A j, k \in Depth(u)' :
                         stack'[u][j].step \in Calling => stack'[u][k].step \in Calling
  BY DEF Nesting
<1>1. CASE u # t
  BY <1>1 DEF Nesting, Keeps, Depth
<1>2. CASE u = t
  <2>1. \A k \in Depth(t)' : k > n \/ k \in 1..n
    BY DEF Keeps, Depth
  <2>2. \A k \in Depth(t)' : k > n =>
          k - n + d \in Depth(t) /\ stack'[t][k] = stack[t][k - n + d]
    BY DEF Keeps, Depth
  <2>3. \A k \in Depth(t)' : k # 1 => stack'[t][k].step \in {"create", "destroy"}
    <3> SUFFICES ASSUME NEW k \in Depth(t)', k # 1, k > n
                 PROVE  stack'[t][k].step \in {"create", "destroy"}
      BY <2>1
    <3>1. k - n + d \in Depth(t) /\ stack'[t][k] = stack[t][k - n + d]
      BY <2>2
    <3>2. CASE k - n + d = 1
      <4>1. stack[t] # <<>> /\ d = 0
        BY <3>1, <3>2, Frames DEF Depth
      <4>. QED
        BY <3>1, <3>2, <4>1, TopFrame
    <3>. QED
      BY <3>1, <3>2 DEF Nesting
  <2>4. \A j, k \in Depth(t)' :
          stack'[t][j].step \in Calling => stack'[t][k].step \in Calling
    <3>1. \A j, k \in Depth(t) : stack[t][j].step \in Calling => stack[t][k].step \in Calling
      BY DEF Nesting
    <3>. QED
      BY <2>1, <2>2, <3>1
  <2>. QED
    BY <1>2, <2>3, <2>4
<1>. QED
  BY <1>1, <1>2

LEMMA AskingStep ==
  ASSUME TypeOK, Asking, NEW t \in Thread, NEW n \in Nat, NEW d \in Nat, Keeps(t, n, d),
         d <= Len(stack[t]),
         \A u \in Thread : holds'[u] \subseteq holds[u] \/ (u = t /\ stack'[t] = <<>>),
         d = Len(stack[t]) /\ n # 0 /\ stack'[t][n].step \in Calling =>
           \A i \in holds'[t] : i[1] # stack'[t][n].mod
  PROVE  Asking'
<1> SUFFICES ASSUME NEW u \in Thread, stack'[u] # <<>>, stack'[u][Len(stack'[u])].step \in Calling,
                    NEW i \in holds'[u]
             PROVE  i[1] # stack'[u][Len(stack'[u])].mod
  BY DEF Asking
<1>1. holds'[u] \subseteq holds[u]
  OBVIOUS
<1>2. CASE u # t
  BY <1>1, <1>2 DEF Asking, Keeps
<1>3. CASE u = t
  <2>1. Len(stack[t]) \in Nat /\ (stack[t] = <<>> <=> Len(stack[t]) = 0)
    BY Frames
  <2>2. Len(stack'[t]) = Len(stack[t]) - d + n /\ Len(stack'[t]) \in Nat
    BY DEF Keeps
  <2>3. stack'[t] \in Seq(FrameType) /\ Len(stack'[t]) # 0
    <3>1. stack'[t] \in Seq(FrameType) /\ stack'[t] # <<>>
      BY <1>3 DEF Keeps
    <3>. QED
      BY <3>1, EmptySeq
  <2>4. CASE d = Len(stack[t])
    BY <1>3, <2>1, <2>2, <2>3, <2>4
  <2>5. CASE d # Len(stack[t])
    <3>1. Len(stack'[t]) \in 1..Len(stack'[t]) /\ Len(stack'[t]) > n
      BY <2>1, <2>2, <2>3, <2>5
    <3>2. stack'[t][Len(stack'[t])] = stack[t][Len(stack'[t]) - n + d]
      BY <3>1 DEF Keeps
    <3>3. Len(stack'[t]) - n + d = Len(stack[t]) /\ stack[t] # <<>>
      BY <2>1, <2>2, <2>5
    <3>. QED
      BY <1>1, <1>3, <3>2, <3>3 DEF Asking
  <2>. QED
    BY <2>4, <2>5
<1>. QED
  BY <1>2, <1>3

(* A call that goes on, the vector left alone.                              *)
LEMMA FormedGoesOn ==
  ASSUME TypeOK, Formed, NEW t \in Thread, stack[t] # <<>>, NEW f \in FrameType, Step(t, f),
         mem' = mem, size' = size, holds' = holds, FrameFilled(f),
         f.step \in Calling <=> Top(t).step \in Calling,
         f.step \in Calling => f.mod = Top(t).mod
  PROVE  Formed'
<1>1. Keeps(t, 1, 1) /\ stack'[t][1] = f
  BY Stepped
<1>2. /\ Top(t) = stack[t][1] /\ Len(stack[t]) \in Nat \ {0} /\ 1 \in Depth(t)
      /\ 1..1 = {1} /\ 1 \in Nat
  BY TopFrame
<1>3. Filled'
  BY DEF Formed, Filled
<1>4. FramesFilled'
  <2>1. \A k \in 1..1 : \A g \in FrameType : g = stack'[t][k] => FrameFilled(g)'
    BY <1>1, <1>2 DEF FrameFilled
  <2>. QED
    BY <1>1, <1>2, <2>1, FramesFilledStep DEF Formed
<1>5. Nesting'
  <2>1. \A j \in Depth(t) : stack[t][j].step \in Calling <=> Top(t).step \in Calling
    BY <1>2 DEF Formed, Nesting
  <2>. QED
    BY <1>1, <1>2, <2>1, NestingStep DEF Formed
<1>6. Asking'
  <2>1. 1 = Len(stack[t]) /\ f.step \in Calling => \A i \in holds'[t] : i[1] # f.mod
    BY <1>2 DEF Formed, Asking
  <2>2. 1 <= Len(stack[t]) /\ \A u \in Thread : holds'[u] \subseteq holds[u]
    BY <1>2
  <2>. QED
    BY <1>1, <1>2, <2>1, <2>2, AskingStep DEF Formed
<1>. QED
  BY <1>3, <1>4, <1>5, <1>6 DEF Formed

(* A call that starts, for a client or in a constructor or destructor.      *)
LEMMA FormedStarts ==
  ASSUME TypeOK, Formed, NEW t \in Thread, NEW f \in FrameType, Call(t, f),
         mem' = mem, size' = size, \A u \in Thread : holds'[u] \subseteq holds[u], FrameFilled(f),
         stack[t] # <<>> => /\ Top(t).step \in {"create", "destroy"}
                            /\ f.step \in Calling <=> Top(t).step \in Calling,
         stack[t] = <<>> /\ f.step \in Calling => \A i \in holds[t] : i[1] # f.mod
  PROVE  Formed'
<1>1. Keeps(t, 1, 0) /\ stack'[t][1] = f
  BY Called
<1>2. 1..1 = {1} /\ 1 \in Nat /\ 0 \in Nat
  OBVIOUS
<1>3. Len(stack[t]) \in Nat /\ (stack[t] = <<>> <=> Len(stack[t]) = 0)
  BY Frames
<1>4. Filled'
  BY DEF Formed, Filled
<1>5. FramesFilled'
  <2>1. \A k \in 1..1 : \A g \in FrameType : g = stack'[t][k] => FrameFilled(g)'
    BY <1>1, <1>2 DEF FrameFilled
  <2>. QED
    BY <1>1, <1>2, <2>1, FramesFilledStep DEF Formed
<1>6. Nesting'
  <2>1. \A j \in Depth(t) : stack[t][j].step \in Calling <=> f.step \in Calling
    <3> SUFFICES ASSUME NEW j \in Depth(t)
                 PROVE  stack[t][j].step \in Calling <=> f.step \in Calling
      OBVIOUS
    <3>1. stack[t] # <<>>
      BY <1>3 DEF Depth
    <3>2. Top(t) = stack[t][1] /\ 1 \in Depth(t)
      BY <3>1, TopFrame
    <3>. QED
      BY <3>1, <3>2 DEF Formed, Nesting
  <2>. QED
    BY <1>1, <1>2, <2>1, NestingStep DEF Formed
<1>7. Asking'
  BY <1>1, <1>2, <1>3, AskingStep DEF Formed
<1>. QED
  BY <1>4, <1>5, <1>6, <1>7 DEF Formed

(* What a call of Connect returns goes to its client, or to the             *)
(* constructor that made it.                                                *)
LEMMA ConnectReturnsTo ==
  ASSUME TypeOK, Formed, NEW t \in Thread, stack[t] # <<>>, Top(t).step \in Calling,
         NEW i \in Instance, ConnectReturns(t, i)
  PROVE  /\ \/ /\ Len(stack[t]) = 1 /\ Keeps(t, 0, 1) /\ stack'[t] = <<>>
               /\ holds' = [holds EXCEPT ![t] = @ \cup {i}] /\ refs' = refs
            \/ /\ Len(stack[t]) # 1 /\ Keeps(t, 1, 2) /\ 2 \in Depth(t)
               /\ stack[t][2] \in FrameType /\ stack[t][2].step = "create"
               /\ stack[t][2].inst \in Instance
               /\ stack'[t][1] = [stack[t][2] EXCEPT !.step = "made"]
               /\ stack'[t] # <<>>
               /\ Head(stack'[t]) = [stack[t][2] EXCEPT !.step = "made"]
               /\ [stack[t][2] EXCEPT !.step = "made"] \in FrameType
               /\ refs' = [refs EXCEPT ![stack[t][2].inst] = i] /\ holds' = holds
         /\ refs' \in [Instance -> Instance \cup {NoInst}]
         /\ holds' \in [Thread -> SUBSET Instance]
         /\ stack' \in [Thread -> Seq(FrameType)] /\ raced' \in BOOLEAN
         /\ ~raced' => ~raced /\ Apart'
<1>1. /\ Top(t) = stack[t][1] /\ Len(stack[t]) \in Nat \ {0} /\ 1 \in Depth(t)
  BY TopFrame
<1>2. refs \in [Instance -> Instance \cup {NoInst}] /\ holds \in [Thread -> SUBSET Instance]
  BY DEF TypeOK
<1>3. CASE Len(stack[t]) = 1
  <2>1. /\ holds' = [holds EXCEPT ![t] = @ \cup {i}] /\ Goes(t, <<>>) /\ refs' = refs
    BY <1>3 DEF ConnectReturns
  <2>2. Keeps(t, 0, 1) /\ stack'[t] = <<>> /\ (~raced' => ~raced /\ Apart')
    BY <1>3, <2>1, Ended
  <2>3. holds' \in [Thread -> SUBSET Instance]
    BY <1>2, <2>1
  <2>. QED
    BY <1>2, <1>3, <2>1, <2>2, <2>3 DEF Keeps
<1>4. CASE Len(stack[t]) # 1
  <2> DEFINE up == stack[t][2]
             g == [up EXCEPT !.step = "made"]
  <2>1. 2 \in Depth(t) /\ up \in FrameType
    <3>1. Len(stack[t]) \in Nat \ {0, 1}
      BY <1>1, <1>4, Zenon
    <3>2. \A n \in Nat \ {0, 1} : 2 \in 1..n
      OBVIOUS
    <3>3. 2 \in Depth(t)
      BY <3>1, <3>2, Zenon DEF Depth
    <3>. QED
      BY <3>3, Frames, Zenon
  <2>2. up.step \in {"create", "destroy"} /\ up.step \in Calling
    BY <1>1, <2>1 DEF Formed, Nesting
  <2>3. up.step = "create" /\ up.inst \in Instance
    BY <2>1, <2>2 DEF Formed, FramesFilled, FrameFilled, Building, Calling
  <2>4. g \in FrameType
    BY <2>1 DEF FrameType
  <2>5. /\ refs' = [refs EXCEPT ![up.inst] = i] /\ holds' = holds
        /\ Goes(t, <<g>> \o Tail(Tail(stack[t])))
    BY <1>4, Zenon DEF ConnectReturns
  <2> HIDE DEF g
  <2>6. /\ Keeps(t, 1, 2) /\ (~raced' => ~raced /\ Apart')
        /\ stack'[t] # <<>> /\ stack'[t][1] = g /\ Head(stack'[t]) = g
    BY <1>4, <2>4, <2>5, Returned, Zenon
  <2>7. refs' \in [Instance -> Instance \cup {NoInst}]
    BY <1>2, <2>3, <2>5
  <2>8. stack' \in [Thread -> Seq(FrameType)] /\ raced' \in BOOLEAN
    BY <2>6 DEF Keeps
  <2>. QED
    BY <1>2, <1>4, <2>1, <2>3, <2>4, <2>5, <2>6, <2>7, <2>8 DEF g
<1>. QED
  BY <1>3, <1>4

LEMMA DisconnectReturnsTo ==
  ASSUME TypeOK, Formed, NEW t \in Thread, stack[t] # <<>>, Top(t).step \notin Calling,
         DisconnectReturns(t)
  PROVE  /\ \/ /\ Len(stack[t]) = 1 /\ Keeps(t, 0, 1) /\ stack'[t] = <<>>
            \/ /\ Len(stack[t]) # 1 /\ Keeps(t, 1, 2) /\ 2 \in Depth(t)
               /\ stack[t][2] \in FrameType /\ stack[t][2].step = "destroy"
               /\ stack'[t][1] = [stack[t][2] EXCEPT !.step = "deleted"]
               /\ stack'[t] # <<>>
               /\ Head(stack'[t]) = [stack[t][2] EXCEPT !.step = "deleted"]
               /\ [stack[t][2] EXCEPT !.step = "deleted"] \in FrameType
         /\ stack' \in [Thread -> Seq(FrameType)] /\ raced' \in BOOLEAN
         /\ ~raced' => ~raced /\ Apart'
<1>1. /\ Top(t) = stack[t][1] /\ Len(stack[t]) \in Nat \ {0} /\ 1 \in Depth(t)
  BY TopFrame
<1>2. CASE Len(stack[t]) = 1
  <2>1. Goes(t, <<>>)
    BY <1>2 DEF DisconnectReturns
  <2>2. Keeps(t, 0, 1) /\ stack'[t] = <<>> /\ (~raced' => ~raced /\ Apart')
    BY <1>2, <2>1, Ended
  <2>. QED
    BY <1>2, <2>2 DEF Keeps
<1>3. CASE Len(stack[t]) # 1
  <2> DEFINE up == stack[t][2]
             g == [up EXCEPT !.step = "deleted"]
  <2>1. 2 \in Depth(t) /\ up \in FrameType
    <3>1. Len(stack[t]) \in Nat \ {0, 1}
      BY <1>1, <1>3, Zenon
    <3>2. \A n \in Nat \ {0, 1} : 2 \in 1..n
      OBVIOUS
    <3>3. 2 \in Depth(t)
      BY <3>1, <3>2, Zenon DEF Depth
    <3>. QED
      BY <3>3, Frames, Zenon
  <2>2. up.step \in {"create", "destroy"} /\ up.step \notin Calling
    BY <1>1, <2>1 DEF Formed, Nesting
  <2>3. up.step = "destroy"
    BY <2>2 DEF Calling
  <2>4. g \in FrameType
    BY <2>1 DEF FrameType
  <2>5. Goes(t, <<g>> \o Tail(Tail(stack[t])))
    BY <1>3, Zenon DEF DisconnectReturns
  <2> HIDE DEF g
  <2>6. /\ Keeps(t, 1, 2) /\ (~raced' => ~raced /\ Apart')
        /\ stack'[t] # <<>> /\ stack'[t][1] = g /\ Head(stack'[t]) = g
    BY <1>3, <2>4, <2>5, Returned, Zenon
  <2>7. stack' \in [Thread -> Seq(FrameType)] /\ raced' \in BOOLEAN
    BY <2>6 DEF Keeps
  <2>. QED
    BY <1>3, <2>1, <2>3, <2>4, <2>6, <2>7 DEF g
<1>. QED
  BY <1>2, <1>3

-----------------------------------------------------------------------------
(* What each action does to the calls, and that it keeps TypeOK and Formed *)

LEMMA NewFrame ==
  ASSUME NEW s \in Calling \cup Releasing \cup Ending, NEW m \in Module,
         NEW i \in Instance \cup {NoInst}, NEW p \in 0..MaxMade
  PROVE  /\ Frame(s, m, i, p) \in FrameType
         /\ Frame(s, m, i, p).step = s /\ Frame(s, m, i, p).mod = m
         /\ Frame(s, m, i, p).inst = i /\ Frame(s, m, i, p).ptr = p
BY Finite DEF Frame, FrameType, Calling, Releasing, Ending

LEMMA NextFrame ==
  ASSUME NEW f \in FrameType, NEW s \in Calling \cup Releasing \cup Ending
  PROVE  LET g == [f EXCEPT !.step = s]
         IN  /\ g \in FrameType /\ g.step = s /\ g.mod = f.mod /\ g.inst = f.inst
             /\ g.ptr = f.ptr /\ g.val = f.val
BY DEF FrameType, Calling, Releasing, Ending

LEMMA Types ==
  ASSUME TypeOK
  PROVE  /\ size \in 0..MaxMade /\ size \in Nat /\ 1..size \subseteq Slot
         /\ \A p \in Slot : /\ mem[p].mod \in Module \cup {None}
                            /\ mem[p].count \in 0..(CountMod - 1)
                            /\ mem[p].inst \in Instance \cup {NoInst}
BY Constants DEF TypeOK

LEMMA FoundModule ==
  ASSUME TypeOK, NEW m
  PROVE  LET p == FindCachedModule(m)
         IN  /\ p \in 0..MaxMade
             /\ p = 0 => ~Cached(m)
             /\ p # 0 => p \in 1..size /\ mem[p].mod = m
<1> DEFINE S == {i \in 1..size : mem[i].mod = m}
<1>1. size \in Nat /\ size <= MaxMade /\ MaxMade \in Nat
  BY Types, Constants
<1>2. S \in SUBSET (1..size)
  OBVIOUS
<1>3. FindCachedModule(m) = Last(S)
  BY DEF FindCachedModule
<1>4. S = {} => Last(S) = 0
  BY <1>1, <1>2, LastOf
<1>5. S # {} => Last(S) \in S /\ Last(S) # 0
  BY <1>1, <1>2, LastOf
<1>. QED
  BY <1>1, <1>3, <1>4, <1>5 DEF Cached

LEMMA FoundInstance ==
  ASSUME TypeOK, NEW i
  PROVE  LET p == FindCachedInstance(i)
         IN  /\ p \in 0..MaxMade
             /\ p = 0 => ~Known(i)
             /\ p # 0 => p \in 1..size /\ mem[p].inst = i
<1> DEFINE S == {k \in 1..size : mem[k].inst = i}
<1>1. size \in Nat /\ size <= MaxMade /\ MaxMade \in Nat
  BY Types, Constants
<1>2. S \in SUBSET (1..size)
  OBVIOUS
<1>3. FindCachedInstance(i) = Last(S)
  BY DEF FindCachedInstance
<1>4. S = {} => Last(S) = 0
  BY <1>1, <1>2, LastOf
<1>5. S # {} => Last(S) \in S /\ Last(S) # 0
  BY <1>1, <1>2, LastOf
<1>. QED
  BY <1>1, <1>3, <1>4, <1>5 DEF Known

(* The innermost frame of a well-formed state.                              *)
LEMMA TopFilled ==
  ASSUME TypeOK, Formed, NEW t \in Thread, stack[t] # <<>>
  PROVE  /\ Top(t).mod \in Module /\ Top(t).inst \in Instance \cup {NoInst}
         /\ Top(t).ptr \in 0..MaxMade /\ Top(t).val \in 0..(CountMod - 1)
         /\ Top(t).step \in Building \cup Releasing => Top(t).inst \in Instance
         /\ Top(t).step \in Pointing =>
              /\ Top(t).ptr \in Slot /\ mem[Top(t).ptr].mod \in Module
              /\ mem[Top(t).ptr].inst \in Instance
<1>1. /\ Top(t) = stack[t][1] /\ Top(t) \in FrameType /\ 1 \in Depth(t)
  BY TopFrame
<1>2. FrameFilled(Top(t))
  BY <1>1 DEF Formed, FramesFilled
<1>3. /\ Top(t).step \in Building \cup Releasing => Top(t).inst \in Instance
      /\ Top(t).step \in Pointing => Top(t).ptr \in Slot /\ mem[Top(t).ptr].mod # None
  BY <1>2 DEF FrameFilled
<1>4. Top(t).step \in Pointing =>
        mem[Top(t).ptr].mod \in Module /\ mem[Top(t).ptr].inst \in Instance
  BY <1>3, Types DEF Formed, Filled
<1>. QED
  BY <1>1, <1>3, <1>4 DEF FrameType

LEMMA ClientConnectForm ==
  ASSUME TypeOK, Formed, NEW t \in Thread, NEW m \in Module, ClientConnect(t, m)
  PROVE  LET f == Frame("find", m, NoInst, 0)
         IN  /\ f \in FrameType /\ f.step = "find" /\ f.mod = m
             /\ stack[t] = <<>> /\ Call(t, f)
             /\ TypeOK' /\ Formed'
<1> DEFINE f == Frame("find", m, NoInst, 0)
<1>1. f \in FrameType /\ f.step = "find" /\ f.mod = m
  BY NewFrame, Constants DEF Calling
<1> HIDE DEF f
<1>2. stack[t] = <<>> /\ Call(t, f)
  BY DEF ClientConnect, Idle, f
<1>3. TypeOK'
  <2>1. calls' \in 0..MaxCalls
    BY BoundAssumption DEF ClientConnect, TypeOK
  <2>2. stack' \in [Thread -> Seq(FrameType)] /\ raced' \in BOOLEAN
    BY <1>1, <1>2, Called DEF Keeps
  <2>. QED
    BY <2>1, <2>2 DEF TypeOK, ClientConnect
<1>4. Formed'
  <2>1. FrameFilled(f)
    BY <1>1 DEF FrameFilled, Building, Releasing, Pointing, Ending
  <2>2. \A i \in holds[t] : i[1] # f.mod
    BY <1>1 DEF ClientConnect
  <2>3. mem' = mem /\ size' = size /\ holds' = holds
    BY DEF ClientConnect
  <2>. QED
    BY <1>1, <1>2, <2>1, <2>2, <2>3, FormedStarts
<1>. QED
  BY <1>1, <1>2, <1>3, <1>4 DEF f

LEMMA FindCachedForm ==
  ASSUME TypeOK, Formed, NEW t \in Thread, FindCached(t)
  PROVE  LET p == FindCachedModule(Top(t).mod)
             f == Frame(IF p = 0 THEN "load" ELSE "hit", Top(t).mod, NoInst, p)
         IN  /\ f \in FrameType /\ f.step = (IF p = 0 THEN "load" ELSE "hit")
             /\ f.mod = Top(t).mod /\ f.ptr = p
             /\ stack[t] # <<>> /\ Top(t).step = "find" /\ Step(t, f)
             /\ TypeOK' /\ Formed'
<1> DEFINE p == FindCachedModule(Top(t).mod)
           s == IF p = 0 THEN "load" ELSE "hit"
           f == Frame(s, Top(t).mod, NoInst, p)
<1>1. stack[t] # <<>> /\ Top(t).step = "find" /\ Step(t, f)
  BY DEF FindCached, At
<1>2. /\ p \in 0..MaxMade
      /\ p = 0 => ~Cached(Top(t).mod)
      /\ p # 0 => p \in 1..size /\ mem[p].mod = Top(t).mod
  BY FoundModule
<1> HIDE DEF p
<1>3. s \in {"load", "hit"} /\ (s = "hit" => p # 0)
  OBVIOUS
<1>4. f \in FrameType /\ f.step = s /\ f.mod = Top(t).mod /\ f.ptr = p
  <2>1. s \in Calling \cup Releasing \cup Ending /\ Top(t).mod \in Module
    BY <1>1, <1>3, TopFilled DEF Calling
  <2> HIDE DEF s
  <2>. QED
    BY <1>2, <2>1, NewFrame
<1> HIDE DEF s, f
<1>5. mem' = mem /\ size' = size /\ holds' = holds
  BY DEF FindCached
<1>6. TypeOK'
  <2>1. stack' \in [Thread -> Seq(FrameType)] /\ raced' \in BOOLEAN
    BY <1>1, <1>4, Stepped DEF Keeps
  <2>. QED
    BY <2>1 DEF TypeOK, FindCached
<1>7. Formed'
  <2>1. FrameFilled(f)
    BY <1>2, <1>3, <1>4, Types, TopFilled, <1>1, Constants
    DEF FrameFilled, Building, Releasing, Pointing, Ending
  <2>2. f.step \in Calling /\ Top(t).step \in Calling
    BY <1>1, <1>3, <1>4 DEF Calling
  <2>. QED
    BY <1>1, <1>4, <1>5, <2>1, <2>2, FormedGoesOn
<1>. QED
  BY <1>1, <1>4, <1>6, <1>7 DEF f, s, p

LEMMA ReadHitForm ==
  ASSUME TypeOK, Formed, NEW t \in Thread, ReadHit(t)
  PROVE  LET f == [Top(t) EXCEPT !.step = "bump", !.val = mem[Top(t).ptr].count]
         IN  /\ f \in FrameType /\ f.step = "bump" /\ f.mod = Top(t).mod
             /\ f.ptr = Top(t).ptr /\ f.val = mem[Top(t).ptr].count
             /\ stack[t] # <<>> /\ Top(t).step = "hit" /\ Step(t, f)
             /\ TypeOK' /\ Formed'
<1> DEFINE f == [Top(t) EXCEPT !.step = "bump", !.val = mem[Top(t).ptr].count]
<1>1. stack[t] # <<>> /\ Top(t).step = "hit" /\ Step(t, f)
  BY DEF ReadHit, At
<1>2. Top(t) \in FrameType
  BY <1>1, TopFrame
<1>3. Top(t).ptr \in Slot /\ mem[Top(t).ptr].mod # None
  BY <1>1, TopFilled, Constants DEF Pointing
<1>4. mem[Top(t).ptr].count \in 0..(CountMod - 1)
  BY <1>3, Types
<1>5. /\ f \in FrameType /\ f.step = "bump" /\ f.mod = Top(t).mod
      /\ f.ptr = Top(t).ptr /\ f.val = mem[Top(t).ptr].count
  BY <1>2, <1>4 DEF FrameType
<1> HIDE DEF f
<1>6. TypeOK'
  <2>1. stack' \in [Thread -> Seq(FrameType)] /\ raced' \in BOOLEAN
    BY <1>1, <1>5, Stepped DEF Keeps
  <2>. QED
    BY <2>1 DEF TypeOK, ReadHit
<1>7. Formed'
  <2>1. FrameFilled(f)
    BY <1>3, <1>5 DEF FrameFilled, Building, Releasing
  <2>2. f.step \in Calling /\ Top(t).step \in Calling
    BY <1>1, <1>5 DEF Calling
  <2>3. mem' = mem /\ size' = size /\ holds' = holds
    BY DEF ReadHit
  <2>. QED
    BY <1>1, <1>5, <2>1, <2>2, <2>3, FormedGoesOn
<1>. QED
  BY <1>1, <1>5, <1>6, <1>7 DEF f

LEMMA LoadLibraryForm ==
  ASSUME TypeOK, Formed, NEW t \in Thread, LoadLibrary(t)
  PROVE  \E f \in FrameType :
           LET m == Top(t).mod
           IN  /\ m \in Module /\ f.mod = m /\ f.inst \in Instance
               /\ libs' = [libs EXCEPT ![m] = @ + 1]
               /\ \/ sinst[m] # NoInst /\ f.step = "push" /\ f.inst = sinst[m]
                  \/ sinst[m] = NoInst /\ f.step = "create" /\ f.inst[1] = m
               /\ stack[t] # <<>> /\ Top(t).step = "load" /\ Step(t, f)
               /\ TypeOK' /\ Formed'
<1> DEFINE m == Top(t).mod
           f == IF sinst[m] # NoInst THEN Frame("push", m, sinst[m], 0)
                ELSE Frame("create", m, <<m, made + 1>>, 0)
<1>1. stack[t] # <<>> /\ Top(t).step = "load"
  BY DEF LoadLibrary, At
<1>2. m \in Module /\ sinst[m] \in Instance \cup {NoInst}
  BY <1>1, TopFilled DEF TypeOK
<1>3. /\ libs' = [libs EXCEPT ![m] = @ + 1] /\ Step(t, f)
      /\ sinst[m] # NoInst => made' = made
      /\ sinst[m] = NoInst => made < MaxMade /\ made' = made + 1
  BY DEF LoadLibrary
<1>4. f \in FrameType /\ f.mod = m /\ f.inst \in Instance
      /\ \/ sinst[m] # NoInst /\ f.step = "push" /\ f.inst = sinst[m]
         \/ sinst[m] = NoInst /\ f.step = "create" /\ f.inst[1] = m
  <2>1. CASE sinst[m] # NoInst
    BY <1>2, <2>1, NewFrame, Constants DEF Calling
  <2>2. CASE sinst[m] = NoInst
    <3>1. made + 1 \in Slot
      BY <1>3, <2>2, Constants DEF TypeOK
    <3>2. <<m, made + 1>> \in Instance /\ <<m, made + 1>>[1] = m
      BY <1>2, <3>1, Constants
    <3>. QED
      BY <1>2, <2>2, <3>2, NewFrame, Constants DEF Calling
  <2>. QED
    BY <2>1, <2>2
<1> HIDE DEF f
<1>5. TypeOK'
  <2>1. stack' \in [Thread -> Seq(FrameType)] /\ raced' \in BOOLEAN
    BY <1>1, <1>3, <1>4, Stepped DEF Keeps
  <2>2. made' \in 0..MaxMade
    BY <1>2, <1>3, Constants DEF TypeOK
  <2>3. libs' \in [Module -> Nat]
    BY <1>2, <1>3 DEF TypeOK
  <2>. QED
    BY <2>1, <2>2, <2>3 DEF TypeOK, LoadLibrary
<1>6. Formed'
  <2>1. FrameFilled(f)
    BY <1>4 DEF FrameFilled, Pointing, Ending
  <2>2. f.step \in Calling /\ Top(t).step \in Calling
    BY <1>1, <1>4 DEF Calling
  <2>3. mem' = mem /\ size' = size /\ holds' = holds
    BY DEF LoadLibrary
  <2>. QED
    BY <1>1, <1>3, <1>4, <2>1, <2>2, <2>3, FormedGoesOn
<1>. QED
  BY <1>1, <1>2, <1>3, <1>4, <1>5, <1>6

LEMMA ConstructForm ==
  ASSUME TypeOK, Formed, NEW t \in Thread, Construct(t)
  PROVE  LET n == Needs[Top(t).mod]
             f == [Top(t) EXCEPT !.step = "made"]
             g == Frame("find", n, NoInst, 0)
         IN  /\ Top(t) \in FrameType /\ Top(t).mod \in Module /\ Top(t).inst \in Instance
             /\ \/ /\ n = None /\ f \in FrameType /\ f.step = "made" /\ f.mod = Top(t).mod
                   /\ f.inst = Top(t).inst /\ Step(t, f)
                \/ /\ n \in Module /\ g \in FrameType /\ g.step = "find" /\ g.mod = n
                   /\ Call(t, g)
             /\ stack[t] # <<>> /\ Top(t).step = "create"
             /\ TypeOK' /\ Formed'
<1> DEFINE n == Needs[Top(t).mod]
           f == [Top(t) EXCEPT !.step = "made"]
           g == Frame("find", n, NoInst, 0)
<1>1. stack[t] # <<>> /\ Top(t).step = "create"
  BY DEF Construct, At
<1>2. Top(t) \in FrameType /\ Top(t).mod \in Module /\ Top(t).inst \in Instance
  BY <1>1, TopFrame, TopFilled DEF Building
<1>3. mem' = mem /\ size' = size /\ holds' = holds
  BY DEF Construct
<1>4. CASE n = None
  <2>1. Step(t, f)
    BY <1>4 DEF Construct
  <2>2. f \in FrameType /\ f.step = "made" /\ f.mod = Top(t).mod /\ f.inst = Top(t).inst
    BY <1>2, NextFrame DEF Calling
  <2> HIDE DEF f
  <2>3. stack' \in [Thread -> Seq(FrameType)] /\ raced' \in BOOLEAN
    BY <1>1, <2>1, <2>2, Stepped DEF Keeps
  <2>4. TypeOK'
    BY <2>3 DEF TypeOK, Construct
  <2>5. Formed'
    <3>1. FrameFilled(f)
      BY <1>2, <2>2 DEF FrameFilled, Pointing, Ending
    <3>2. f.step \in Calling /\ Top(t).step \in Calling
      BY <1>1, <2>2 DEF Calling
    <3>. QED
      BY <1>1, <1>3, <2>1, <2>2, <3>1, <3>2, FormedGoesOn
  <2>. QED
    BY <1>1, <1>2, <1>4, <2>1, <2>2, <2>4, <2>5 DEF f
<1>5. CASE n # None
  <2>1. Call(t, g) /\ n \in Module
    BY <1>2, <1>5, Constants DEF Construct
  <2>2. g \in FrameType /\ g.step = "find" /\ g.mod = n
    BY <2>1, NewFrame, Constants DEF Calling
  <2> HIDE DEF g
  <2>3. stack' \in [Thread -> Seq(FrameType)] /\ raced' \in BOOLEAN
    BY <2>1, <2>2, Called DEF Keeps
  <2>4. TypeOK'
    BY <2>3 DEF TypeOK, Construct
  <2>5. Formed'
    <3>1. FrameFilled(g)
      BY <2>2 DEF FrameFilled, Building, Releasing, Pointing, Ending
    <3>2. g.step \in Calling /\ Top(t).step \in Calling
      BY <1>1, <2>2 DEF Calling
    <3>. QED
      BY <1>1, <1>3, <2>1, <2>2, <3>1, <3>2, FormedStarts
  <2>. QED
    BY <1>1, <1>2, <1>5, <2>1, <2>2, <2>4, <2>5 DEF g
<1>. QED
  BY <1>4, <1>5

LEMMA ConstructedForm ==
  ASSUME TypeOK, Formed, NEW t \in Thread, Constructed(t)
  PROVE  LET f == [Top(t) EXCEPT !.step = "push"]
         IN  /\ f \in FrameType /\ f.step = "push" /\ f.mod = Top(t).mod
             /\ f.inst = Top(t).inst /\ f.mod \in Module /\ f.inst \in Instance
             /\ stack[t] # <<>> /\ Top(t).step = "made" /\ Step(t, f)
             /\ TypeOK' /\ Formed'
<1> DEFINE f == [Top(t) EXCEPT !.step = "push"]
<1>1. stack[t] # <<>> /\ Top(t).step = "made" /\ Step(t, f)
  BY DEF Constructed, At
<1>2. Top(t) \in FrameType /\ Top(t).mod \in Module /\ Top(t).inst \in Instance
  BY <1>1, TopFrame, TopFilled DEF Building
<1>3. f \in FrameType /\ f.step = "push" /\ f.mod = Top(t).mod /\ f.inst = Top(t).inst
  BY <1>2, NextFrame DEF Calling
<1> HIDE DEF f
<1>4. TypeOK'
  <2>1. stack' \in [Thread -> Seq(FrameType)] /\ raced' \in BOOLEAN
    BY <1>1, <1>3, Stepped DEF Keeps
  <2>2. alive' \subseteq Instance /\ sinst' \in [Module -> Instance \cup {NoInst}]
    BY <1>2 DEF TypeOK, Constructed
  <2>. QED
    BY <2>1, <2>2 DEF TypeOK, Constructed
<1>5. Formed'
  <2>1. FrameFilled(f)
    BY <1>2, <1>3 DEF FrameFilled, Pointing, Ending
  <2>2. f.step \in Calling /\ Top(t).step \in Calling
    BY <1>1, <1>3 DEF Calling
  <2>3. mem' = mem /\ size' = size /\ holds' = holds
    BY DEF Constructed
  <2>. QED
    BY <1>1, <1>3, <2>1, <2>2, <2>3, FormedGoesOn
<1>. QED
  BY <1>1, <1>2, <1>3, <1>4, <1>5 DEF f

LEMMA FormedConnectReturns ==
  ASSUME TypeOK, Formed, NEW t \in Thread, stack[t] # <<>>, Top(t).step \in Calling,
         NEW i \in Instance, ConnectReturns(t, i), Filled',
         \A p \in Slot : mem[p].mod # None => mem'[p].mod # None
  PROVE  Formed'
<1>1. /\ Top(t) = stack[t][1] /\ Len(stack[t]) \in Nat \ {0} /\ 1 \in Depth(t)
      /\ 0 \in Nat /\ 1 \in Nat /\ 2 \in Nat /\ 1..1 = {1} /\ 1..0 = {}
  BY TopFrame
<1>2. CASE /\ Len(stack[t]) = 1 /\ Keeps(t, 0, 1) /\ stack'[t] = <<>>
           /\ holds' = [holds EXCEPT ![t] = @ \cup {i}]
  <2>1. FramesFilled'
    BY <1>1, <1>2, FramesFilledStep DEF Formed
  <2>2. Nesting'
    BY <1>1, <1>2, NestingStep DEF Formed
  <2>3. Asking'
    <3>1. \A u \in Thread : holds'[u] \subseteq holds[u] \/ (u = t /\ stack'[t] = <<>>)
      BY <1>2 DEF TypeOK
    <3>. QED
      BY <1>1, <1>2, <3>1, AskingStep DEF Formed
  <2>. QED
    BY <2>1, <2>2, <2>3 DEF Formed
<1>3. CASE /\ Len(stack[t]) # 1 /\ Keeps(t, 1, 2) /\ 2 \in Depth(t)
           /\ stack[t][2] \in FrameType /\ stack[t][2].step = "create"
           /\ stack[t][2].inst \in Instance
           /\ stack'[t][1] = [stack[t][2] EXCEPT !.step = "made"] /\ holds' = holds
  <2> DEFINE g == [stack[t][2] EXCEPT !.step = "made"]
  <2>1. /\ g \in FrameType /\ g.step = "made" /\ g.mod = stack[t][2].mod
        /\ g.inst = stack[t][2].inst /\ stack'[t][1] = g
    BY <1>3, NextFrame DEF Calling
  <2> HIDE DEF g
  <2>2. FramesFilled'
    <3>1. \A k \in 1..1 : \A f \in FrameType : f = stack'[t][k] => FrameFilled(f)'
      BY <1>1, <1>3, <2>1 DEF FrameFilled, Pointing, Ending
    <3>. QED
      BY <1>1, <1>3, <3>1, FramesFilledStep DEF Formed
  <2>3. Nesting'
    <3>1. \A j \in Depth(t) : stack[t][j].step \in Calling
      BY <1>1 DEF Formed, Nesting
    <3>2. g.step \in Calling
      BY <2>1 DEF Calling
    <3>. QED
      <4>1. /\ \A k \in 1..1 : k # 1 => stack'[t][k].step \in {"create", "destroy"}
            /\ \A k \in 1..1 : \A j \in Depth(t) :
                 stack'[t][k].step \in Calling <=> stack[t][j].step \in Calling
            /\ \A j, k \in 1..1 :
                 stack'[t][k].step \in Calling <=> stack'[t][j].step \in Calling
        BY <1>1, <2>1, <3>1, <3>2
      <4>2. Nesting /\ Keeps(t, 1, 2) /\ 1 \in Nat /\ 2 \in Nat /\ 2 # 0
        BY <1>3 DEF Formed
      <4>. QED
        BY <4>1, <4>2, NestingStep, Zenon
  <2>4. Asking'
    <3>1. stack[t][2].step \in Calling
      BY <1>3 DEF Calling
    <3>2. 2 = Len(stack[t]) => \A j \in holds'[t] : j[1] # g.mod
      BY <1>3, <2>1, <3>1 DEF Formed, Asking
    <3>3. 2 <= Len(stack[t])
      BY <1>3 DEF Depth
    <3>. QED
      BY <1>1, <1>3, <2>1, <3>2, <3>3, AskingStep DEF Formed
  <2>. QED
    BY <2>2, <2>3, <2>4 DEF Formed
<1>. QED
  BY <1>2, <1>3, ConnectReturnsTo

LEMMA UseCachedForm ==
  ASSUME TypeOK, Formed, NEW t \in Thread, UseCached(t)
  PROVE  LET p == Top(t).ptr
             i == mem[p].inst
         IN  /\ stack[t] # <<>> /\ Top(t).step = "bump" /\ Top(t).step \in Calling
             /\ p \in Slot /\ i \in Instance /\ mem[p].mod \in Module
             /\ mem' = [mem EXCEPT ![p].count = (Top(t).val + 1) % CountMod]
             /\ ConnectReturns(t, i)
             /\ TypeOK' /\ Formed'
<1> DEFINE p == Top(t).ptr
           i == mem[p].inst
           c == (Top(t).val + 1) % CountMod
<1>1. stack[t] # <<>> /\ Top(t).step = "bump" /\ Top(t).step \in Calling
  BY DEF UseCached, At, Calling
<1>2. /\ p \in Slot /\ i \in Instance /\ mem[p].mod \in Module
      /\ Top(t).val \in 0..(CountMod - 1)
  BY <1>1, TopFilled DEF Pointing
<1>3. mem' = [mem EXCEPT ![p].count = c] /\ ConnectReturns(t, i)
  BY DEF UseCached
<1>4. c \in 0..(CountMod - 1)
  BY <1>2, Finite
<1> HIDE DEF c, p, i
<1>5. /\ mem' \in [Slot -> [mod : Module \cup {None}, count : 0..(CountMod - 1),
                            inst : Instance \cup {NoInst}]]
      /\ \A q \in Slot : mem'[q].mod = mem[q].mod /\ mem'[q].inst = mem[q].inst
  BY <1>2, <1>3, <1>4 DEF TypeOK
<1>6. TypeOK'
  <2>1. /\ refs' \in [Instance -> Instance \cup {NoInst}]
        /\ holds' \in [Thread -> SUBSET Instance]
        /\ stack' \in [Thread -> Seq(FrameType)] /\ raced' \in BOOLEAN
    BY <1>1, <1>2, <1>3, ConnectReturnsTo
  <2>. QED
    BY <1>5, <2>1 DEF TypeOK, UseCached
<1>7. Formed'
  <2>1. size' = size /\ 1..size \subseteq Slot
    BY Types DEF UseCached
  <2>2. Filled'
    BY <1>5, <2>1 DEF Formed, Filled
  <2>. QED
    BY <1>1, <1>2, <1>3, <1>5, <2>2, FormedConnectReturns
<1>. QED
  BY <1>1, <1>2, <1>3, <1>6, <1>7 DEF p, i, c

LEMMA PushEntryForm ==
  ASSUME TypeOK, Formed, NEW t \in Thread, PushEntry(t)
  PROVE  LET e == [mod |-> Top(t).mod, count |-> 1, inst |-> Top(t).inst]
         IN  /\ stack[t] # <<>> /\ Top(t).step = "push" /\ Top(t).step \in Calling
             /\ Top(t).mod \in Module /\ Top(t).inst \in Instance
             /\ size' = size + 1 /\ size + 1 \in Slot
             /\ mem' = [mem EXCEPT ![size + 1] = e]
             /\ ConnectReturns(t, Top(t).inst)
             /\ TypeOK' /\ Formed'
<1> DEFINE e == [mod |-> Top(t).mod, count |-> 1, inst |-> Top(t).inst]
<1>1. stack[t] # <<>> /\ Top(t).step = "push" /\ Top(t).step \in Calling
  BY DEF PushEntry, At, Calling
<1>2. Top(t).mod \in Module /\ Top(t).inst \in Instance
  BY <1>1, TopFilled DEF Building
<1>3. /\ size' = size + 1 /\ size < MaxMade /\ mem' = [mem EXCEPT ![size + 1] = e]
      /\ ConnectReturns(t, Top(t).inst)
  BY DEF PushEntry
<1>4. size + 1 \in Slot /\ size' \in 0..MaxMade /\ 1..size' = 1..size \cup {size + 1}
  BY <1>3, Types, Constants
<1>5. 1 \in 0..(CountMod - 1)
  <2>1. Cardinality(Thread) # 0
    BY Finite, FS_EmptySet
  <2>. QED
    BY <2>1, Finite DEF CountMod
<1>6. /\ e \in [mod : Module \cup {None}, count : 0..(CountMod - 1),
                inst : Instance \cup {NoInst}]
      /\ e.mod # None /\ e.inst \in Instance
  BY <1>2, <1>5, Constants
<1> HIDE DEF e
<1>7. mem' \in [Slot -> [mod : Module \cup {None}, count : 0..(CountMod - 1),
                         inst : Instance \cup {NoInst}]]
  BY <1>3, <1>4, <1>6 DEF TypeOK
<1>8. \A q \in Slot : mem'[q] = IF q = size + 1 THEN e ELSE mem[q]
  BY <1>3, <1>4 DEF TypeOK
<1>9. TypeOK'
  <2>1. /\ refs' \in [Instance -> Instance \cup {NoInst}]
        /\ holds' \in [Thread -> SUBSET Instance]
        /\ stack' \in [Thread -> Seq(FrameType)] /\ raced' \in BOOLEAN
    BY <1>1, <1>2, <1>3, ConnectReturnsTo
  <2>. QED
    BY <1>4, <1>7, <2>1 DEF TypeOK, PushEntry
<1>10. Formed'
  <2>1. Filled'
    BY <1>4, <1>6, <1>8, Types DEF Formed, Filled
  <2>2. \A q \in Slot : mem[q].mod # None => mem'[q].mod # None
    BY <1>6, <1>8
  <2>. QED
    BY <1>1, <1>2, <1>3, <2>1, <2>2, FormedConnectReturns
<1>. QED
  BY <1>1, <1>2, <1>3, <1>4, <1>9, <1>10 DEF e

LEMMA FormedDisconnectReturns ==
  ASSUME TypeOK, Formed, NEW t \in Thread, stack[t] # <<>>, Top(t).step \notin Calling,
         DisconnectReturns(t), Filled', holds' = holds,
         \A p \in Slot : mem[p].mod # None => mem'[p].mod # None
  PROVE  Formed'
<1>1. /\ Top(t) = stack[t][1] /\ Len(stack[t]) \in Nat \ {0} /\ 1 \in Depth(t)
      /\ 0 \in Nat /\ 1 \in Nat /\ 2 \in Nat /\ 1..1 = {1} /\ 1..0 = {} /\ 2 # 0
  BY TopFrame
<1>2. CASE Len(stack[t]) = 1 /\ Keeps(t, 0, 1) /\ stack'[t] = <<>>
  <2>1. FramesFilled'
    BY <1>1, <1>2, FramesFilledStep DEF Formed
  <2>2. Nesting'
    BY <1>1, <1>2, NestingStep DEF Formed
  <2>3. Asking'
    <3>1. 1 <= Len(stack[t]) /\ \A u \in Thread : holds'[u] \subseteq holds[u]
      BY <1>2
    <3>. QED
      BY <1>1, <1>2, <3>1, AskingStep DEF Formed
  <2>. QED
    BY <2>1, <2>2, <2>3 DEF Formed
<1>3. CASE /\ Len(stack[t]) # 1 /\ Keeps(t, 1, 2) /\ 2 \in Depth(t)
           /\ stack[t][2] \in FrameType /\ stack[t][2].step = "destroy"
           /\ stack'[t][1] = [stack[t][2] EXCEPT !.step = "deleted"]
  <2> DEFINE g == [stack[t][2] EXCEPT !.step = "deleted"]
  <2>1. /\ g \in FrameType /\ g.step = "deleted" /\ g.ptr = stack[t][2].ptr
        /\ stack'[t][1] = g
    BY <1>3, NextFrame DEF Ending
  <2>2. g.step \notin Calling
    BY <2>1 DEF Calling
  <2> HIDE DEF g
  <2>3. FramesFilled'
    <3>1. g.ptr \in Slot /\ mem[g.ptr].mod # None
      BY <1>3, <2>1 DEF Formed, FramesFilled, FrameFilled, Pointing, Ending
    <3>2. \A k \in 1..1 : \A f \in FrameType : f = stack'[t][k] => FrameFilled(f)'
      BY <1>1, <2>1, <3>1 DEF FrameFilled, Building, Releasing
    <3>. QED
      BY <1>1, <1>3, <3>2, FramesFilledStep DEF Formed
  <2>4. Nesting'
    <3>1. \A j \in Depth(t) : stack[t][j].step \notin Calling
      BY <1>1 DEF Formed, Nesting
    <3>2. /\ \A k \in 1..1 : k # 1 => stack'[t][k].step \in {"create", "destroy"}
          /\ \A k \in 1..1 : \A j \in Depth(t) :
               stack'[t][k].step \in Calling <=> stack[t][j].step \in Calling
          /\ \A j, k \in 1..1 :
               stack'[t][k].step \in Calling <=> stack'[t][j].step \in Calling
      BY <1>1, <2>1, <2>2, <3>1
    <3>3. Nesting /\ Keeps(t, 1, 2)
      BY <1>3 DEF Formed
    <3>. QED
      BY <1>1, <3>2, <3>3, NestingStep, Zenon
  <2>5. Asking'
    <3>1. 2 <= Len(stack[t])
      BY <1>3 DEF Depth
    <3>. QED
      BY <1>1, <1>3, <2>1, <2>2, <3>1, AskingStep DEF Formed
  <2>. QED
    BY <2>3, <2>4, <2>5 DEF Formed
<1>. QED
  BY <1>2, <1>3, DisconnectReturnsTo

LEMMA ClientDisconnectForm ==
  ASSUME TypeOK, Formed, NEW t \in Thread, NEW i \in holds[t], ClientDisconnect(t, i)
  PROVE  LET f == Frame("lookup", i[1], i, 0)
         IN  /\ i \in Instance
             /\ f \in FrameType /\ f.step = "lookup" /\ f.mod = i[1] /\ f.inst = i
             /\ stack[t] = <<>> /\ Call(t, f)
             /\ holds' = [holds EXCEPT ![t] = @ \ {i}]
             /\ TypeOK' /\ Formed'
<1> DEFINE f == Frame("lookup", i[1], i, 0)
<1>1. i \in Instance /\ i[1] \in Module
  BY Constants DEF TypeOK
<1>2. f \in FrameType /\ f.step = "lookup" /\ f.mod = i[1] /\ f.inst = i
  <2>1. /\ i \in Instance \cup {NoInst} /\ 0 \in 0..MaxMade
        /\ "lookup" \in Calling \cup Releasing \cup Ending
    BY <1>1, Constants DEF Releasing
  <2>. QED
    BY <1>1, <2>1, NewFrame
<1> HIDE DEF f
<1>3. /\ stack[t] = <<>> /\ Call(t, f) /\ holds' = [holds EXCEPT ![t] = @ \ {i}]
      /\ mem' = mem /\ size' = size
  BY DEF ClientDisconnect, Idle, f
<1>4. TypeOK'
  <2>1. holds' \in [Thread -> SUBSET Instance]
    BY <1>3 DEF TypeOK
  <2>2. stack' \in [Thread -> Seq(FrameType)] /\ raced' \in BOOLEAN
    BY <1>2, <1>3, Called DEF Keeps
  <2>. QED
    BY <2>1, <2>2 DEF TypeOK, ClientDisconnect
<1>5. Formed'
  <2>1. FrameFilled(f) /\ f.step \notin Calling
    BY <1>1, <1>2 DEF FrameFilled, Building, Releasing, Pointing, Ending, Calling
  <2>2. \A u \in Thread : holds'[u] \subseteq holds[u]
    BY <1>3 DEF TypeOK
  <2>. QED
    BY <1>2, <1>3, <2>1, <2>2, FormedStarts
<1>. QED
  BY <1>1, <1>2, <1>3, <1>4, <1>5 DEF f

LEMMA FindEntryForm ==
  ASSUME TypeOK, Formed, NEW t \in Thread, FindEntry(t)
  PROVE  LET p == FindCachedInstance(Top(t).inst)
             f == [Top(t) EXCEPT !.step = "count", !.ptr = p]
         IN  /\ stack[t] # <<>> /\ Top(t).step = "lookup" /\ Top(t).inst \in Instance
             /\ p = 0 => DisconnectReturns(t)
             /\ p # 0 => /\ f \in FrameType /\ f.step = "count" /\ f.mod = Top(t).mod
                         /\ f.inst = Top(t).inst /\ f.ptr = p /\ Step(t, f)
             /\ TypeOK' /\ Formed'
<1> DEFINE p == FindCachedInstance(Top(t).inst)
           f == [Top(t) EXCEPT !.step = "count", !.ptr = p]
<1>1. /\ stack[t] # <<>> /\ Top(t).step = "lookup"
      /\ p = 0 => DisconnectReturns(t)
      /\ p # 0 => Step(t, f)
  BY DEF FindEntry, At
<1>2. Top(t) \in FrameType /\ Top(t).inst \in Instance /\ Top(t).step \notin Calling
  BY <1>1, TopFrame, TopFilled DEF Releasing, Calling
<1>3. p \in 0..MaxMade /\ (p # 0 => p \in 1..size)
  BY FoundInstance
<1>4. mem' = mem /\ size' = size /\ holds' = holds
  BY DEF FindEntry
<1>5. Filled'
  BY <1>4 DEF Formed, Filled
<1> HIDE DEF p
<1>6. CASE p = 0
  <2>1. Formed'
    BY <1>1, <1>2, <1>4, <1>5, <1>6, FormedDisconnectReturns
  <2>2. stack' \in [Thread -> Seq(FrameType)] /\ raced' \in BOOLEAN
    BY <1>1, <1>2, <1>6, DisconnectReturnsTo
  <2>3. TypeOK'
    BY <2>2 DEF TypeOK, FindEntry
  <2>. QED
    BY <1>1, <1>2, <1>6, <2>1, <2>3 DEF p
<1>7. CASE p # 0
  <2>1. /\ f \in FrameType /\ f.step = "count" /\ f.mod = Top(t).mod
        /\ f.inst = Top(t).inst /\ f.ptr = p
    BY <1>2, <1>3 DEF FrameType
  <2>2. Step(t, f)
    BY <1>1, <1>7
  <2> HIDE DEF f
  <2>3. stack' \in [Thread -> Seq(FrameType)] /\ raced' \in BOOLEAN
    BY <1>1, <2>1, <2>2, Stepped DEF Keeps
  <2>4. TypeOK'
    BY <2>3 DEF TypeOK, FindEntry
  <2>5. Formed'
    <3>1. f.ptr \in Slot /\ mem[f.ptr].mod # None
      BY <1>3, <1>7, <2>1, Types DEF Formed, Filled
    <3>2. FrameFilled(f) /\ f.step \notin Calling
      BY <1>2, <2>1, <3>1 DEF FrameFilled, Calling
    <3>. QED
      BY <1>1, <1>2, <1>4, <2>1, <2>2, <3>2, FormedGoesOn
  <2>. QED
    BY <1>1, <1>2, <1>7, <2>1, <2>2, <2>4, <2>5 DEF f, p
<1>. QED
  BY <1>6, <1>7

LEMMA ReadCountForm ==
  ASSUME TypeOK, Formed, NEW t \in Thread, ReadCount(t)
  PROVE  LET f == [Top(t) EXCEPT !.step = "drop", !.val = mem[Top(t).ptr].count]
         IN  /\ f \in FrameType /\ f.step = "drop" /\ f.mod = Top(t).mod
             /\ f.inst = Top(t).inst /\ f.ptr = Top(t).ptr
             /\ f.val = mem[Top(t).ptr].count
             /\ stack[t] # <<>> /\ Top(t).step = "count" /\ Step(t, f)
             /\ TypeOK' /\ Formed'
<1> DEFINE f == [Top(t) EXCEPT !.step = "drop", !.val = mem[Top(t).ptr].count]
<1>1. stack[t] # <<>> /\ Top(t).step = "count" /\ Step(t, f)
  BY DEF ReadCount, At
<1>2. Top(t) \in FrameType
  BY <1>1, TopFrame
<1>3. Top(t).ptr \in Slot /\ mem[Top(t).ptr].mod # None /\ Top(t).inst \in Instance
  BY <1>1, TopFilled, Constants DEF Pointing, Releasing
<1>4. mem[Top(t).ptr].count \in 0..(CountMod - 1)
  BY <1>3, Types
<1>5. /\ f \in FrameType /\ f.step = "drop" /\ f.mod = Top(t).mod /\ f.inst = Top(t).inst
      /\ f.ptr = Top(t).ptr /\ f.val = mem[Top(t).ptr].count
  BY <1>2, <1>4 DEF FrameType
<1> HIDE DEF f
<1>6. TypeOK'
  <2>1. stack' \in [Thread -> Seq(FrameType)] /\ raced' \in BOOLEAN
    BY <1>1, <1>5, Stepped DEF Keeps
  <2>. QED
    BY <2>1 DEF TypeOK, ReadCount
<1>7. Formed'
  <2>1. FrameFilled(f)
    BY <1>3, <1>5 DEF FrameFilled
  <2>2. f.step \notin Calling /\ Top(t).step \notin Calling
    BY <1>1, <1>5 DEF Calling
  <2>3. mem' = mem /\ size' = size /\ holds' = holds
    BY DEF ReadCount
  <2>. QED
    BY <1>1, <1>5, <2>1, <2>2, <2>3, FormedGoesOn
<1>. QED
  BY <1>1, <1>5, <1>6, <1>7 DEF f

LEMMA CountDownForm ==
  ASSUME TypeOK, Formed, NEW t \in Thread, CountDown(t)
  PROVE  LET p == Top(t).ptr
             c == (Top(t).val + CountMod - 1) % CountMod
             f == [Top(t) EXCEPT !.step = "destroy"]
         IN  /\ stack[t] # <<>> /\ Top(t).step = "drop" /\ Top(t).step \notin Calling
             /\ p \in Slot /\ Top(t).inst \in Instance
             /\ mem' = [mem EXCEPT ![p].count = c]
             /\ c = 0 => /\ f \in FrameType /\ f.step = "destroy" /\ f.mod = Top(t).mod
                         /\ f.inst = Top(t).inst /\ f.ptr = p /\ Step(t, f)
             /\ c # 0 => DisconnectReturns(t)
             /\ TypeOK' /\ Formed'
<1> DEFINE p == Top(t).ptr
           c == (Top(t).val + CountMod - 1) % CountMod
           f == [Top(t) EXCEPT !.step = "destroy"]
<1>1. /\ stack[t] # <<>> /\ Top(t).step = "drop" /\ Top(t).step \notin Calling
      /\ mem' = [mem EXCEPT ![p].count = c]
      /\ c = 0 => Step(t, f)
      /\ c # 0 => DisconnectReturns(t)
  BY DEF CountDown, DropTo, At, Calling
<1>2. /\ p \in Slot /\ Top(t).inst \in Instance /\ mem[p].mod \in Module
      /\ Top(t).val \in 0..(CountMod - 1) /\ Top(t) \in FrameType
  BY <1>1, TopFilled, TopFrame DEF Pointing, Releasing
<1>3. c \in 0..(CountMod - 1)
  BY <1>2, Finite
<1> HIDE DEF c, p
<1>4. /\ mem' \in [Slot -> [mod : Module \cup {None}, count : 0..(CountMod - 1),
                            inst : Instance \cup {NoInst}]]
      /\ \A q \in Slot : mem'[q].mod = mem[q].mod /\ mem'[q].inst = mem[q].inst
  BY <1>1, <1>2, <1>3 DEF TypeOK
<1>5. size' = size /\ holds' = holds /\ 1..size \subseteq Slot
  BY Types DEF CountDown, DropTo
<1>6. Filled'
  BY <1>4, <1>5 DEF Formed, Filled
<1>7. CASE c # 0
  <2>1. Formed'
    BY <1>1, <1>4, <1>5, <1>6, <1>7, FormedDisconnectReturns
  <2>2. stack' \in [Thread -> Seq(FrameType)] /\ raced' \in BOOLEAN
    BY <1>1, <1>7, DisconnectReturnsTo
  <2>3. TypeOK'
    BY <1>4, <2>2 DEF TypeOK, CountDown, DropTo
  <2>. QED
    BY <1>1, <1>2, <1>7, <2>1, <2>3 DEF c, p
<1>8. CASE c = 0
  <2>1. /\ f \in FrameType /\ f.step = "destroy" /\ f.mod = Top(t).mod
        /\ f.inst = Top(t).inst /\ f.ptr = p
    BY <1>2, NextFrame DEF Ending, p
  <2>2. Step(t, f)
    BY <1>1, <1>8
  <2> HIDE DEF f
  <2>3. Keeps(t, 1, 1) /\ stack'[t][1] = f
    BY <1>1, <2>1, <2>2, Stepped
  <2>4. TypeOK'
    BY <1>4, <2>3 DEF TypeOK, CountDown, DropTo, Keeps
  <2>5. Formed'
    <3>1. /\ Top(t) = stack[t][1] /\ Len(stack[t]) \in Nat \ {0} /\ 1 \in Depth(t)
          /\ 1 \in Nat /\ 1..1 = {1} /\ 1 # 0 /\ 1 <= Len(stack[t])
      BY <1>1, TopFrame
    <3>2. f.step \notin Calling
      BY <2>1 DEF Calling
    <3>3. FramesFilled'
      <4>1. \A k \in 1..1 : \A g \in FrameType : g = stack'[t][k] => FrameFilled(g)'
        BY <1>2, <1>4, <2>1, <2>3, <3>1, Constants DEF FrameFilled, Building, Releasing
      <4>. QED
        BY <1>4, <2>3, <3>1, <4>1, FramesFilledStep DEF Formed
    <3>4. Nesting'
      <4>1. \A j \in Depth(t) : stack[t][j].step \notin Calling
        BY <1>1, <3>1 DEF Formed, Nesting
      <4>2. /\ \A k \in 1..1 : k # 1 => stack'[t][k].step \in {"create", "destroy"}
            /\ \A k \in 1..1 : \A j \in Depth(t) :
                 stack'[t][k].step \in Calling <=> stack[t][j].step \in Calling
            /\ \A j, k \in 1..1 :
                 stack'[t][k].step \in Calling <=> stack'[t][j].step \in Calling
        BY <2>3, <3>1, <3>2, <4>1
      <4>. QED
        BY <2>3, <3>1, <4>2, NestingStep, Zenon DEF Formed
    <3>5. Asking'
      <4>1. \A u \in Thread : holds'[u] \subseteq holds[u]
        BY <1>5
      <4>. QED
        BY <2>3, <3>1, <3>2, <4>1, AskingStep DEF Formed
    <3>. QED
      BY <1>6, <3>3, <3>4, <3>5 DEF Formed
  <2>. QED
    BY <1>1, <1>2, <1>8, <2>1, <2>2, <2>4, <2>5 DEF f, c, p
<1>. QED
  BY <1>7, <1>8

LEMMA DestroyInstanceForm ==
  ASSUME TypeOK, Formed, NEW t \in Thread, DestroyInstance(t)
  PROVE  LET m == mem[Top(t).ptr].mod
             i == sinst[m]
             n == IF i = NoInst THEN NoInst ELSE refs[i]
             up == [Top(t) EXCEPT !.mod = m]
             f == [up EXCEPT !.step = "deleted"]
             g == Frame("lookup", n[1], n, 0)
         IN  /\ stack[t] # <<>> /\ Top(t).step = "destroy" /\ m \in Module
             /\ alive' = alive \ {i}
             /\ refs' = IF i = NoInst THEN refs ELSE [refs EXCEPT ![i] = NoInst]
             /\ up \in FrameType /\ f \in FrameType
             /\ \/ n = NoInst /\ Step(t, f)
                \/ /\ n \in Instance /\ i \in Instance /\ g \in FrameType
                   /\ g.step = "lookup" /\ g.mod = n[1] /\ g.inst = n
                   /\ Goes(t, <<g, up>> \o Tail(stack[t]))
             /\ TypeOK' /\ Formed'
<1> DEFINE m == mem[Top(t).ptr].mod
           i == sinst[m]
           n == IF i = NoInst THEN NoInst ELSE refs[i]
           up == [Top(t) EXCEPT !.mod = m]
           f == [up EXCEPT !.step = "deleted"]
           g == Frame("lookup", n[1], n, 0)
<1>1. /\ stack[t] # <<>> /\ Top(t).step = "destroy" /\ alive' = alive \ {i}
      /\ refs' = IF i = NoInst THEN refs ELSE [refs EXCEPT ![i] = NoInst]
      /\ n = NoInst => Step(t, f)
      /\ n # NoInst => Goes(t, <<g, up>> \o Tail(stack[t]))
  BY Zenon DEF DestroyInstance, At, Step
<1>2. /\ Top(t) \in FrameType /\ Top(t).ptr \in Slot /\ m \in Module
      /\ Top(t).step \notin Calling
  BY <1>1, TopFrame, TopFilled DEF Pointing, Ending, Calling
<1>3. i \in Instance \cup {NoInst} /\ n \in Instance \cup {NoInst}
  BY <1>2 DEF TypeOK
<1>4. /\ up \in FrameType /\ up.step = "destroy" /\ up.ptr = Top(t).ptr
      /\ f \in FrameType /\ f.step = "deleted" /\ f.ptr = Top(t).ptr
  BY <1>1, <1>2 DEF FrameType
<1>5. mem' = mem /\ size' = size /\ holds' = holds
  BY DEF DestroyInstance
<1>6. alive' \subseteq Instance /\ refs' \in [Instance -> Instance \cup {NoInst}]
  BY <1>1, <1>3 DEF TypeOK
<1>7. mem[Top(t).ptr].mod # None
  BY <1>2, Constants
<1>8. up.step \notin Calling /\ f.step \notin Calling
  BY <1>4 DEF Calling
<1> HIDE DEF m, up, f
<1>9. CASE n = NoInst
  <2>1. Step(t, f)
    BY <1>1, <1>9
  <2>2. stack' \in [Thread -> Seq(FrameType)] /\ raced' \in BOOLEAN
    BY <1>1, <1>4, <2>1, Stepped DEF Keeps
  <2>3. TypeOK'
    BY <1>6, <2>2 DEF TypeOK, DestroyInstance
  <2>4. FrameFilled(f)
    BY <1>2, <1>4, <1>7 DEF FrameFilled, Building, Releasing
  <2>5. Formed'
    BY <1>1, <1>2, <1>4, <1>5, <1>8, <2>1, <2>4, FormedGoesOn
  <2>. QED
    BY <1>1, <1>2, <1>4, <1>9, <2>1, <2>3, <2>5 DEF f, up, m
<1>10. CASE n # NoInst
  <2>1. n \in Instance /\ n[1] \in Module /\ i \in Instance
    BY <1>3, <1>10, Constants
  <2>2. n \in Instance \cup {NoInst} /\ 0 \in 0..MaxMade
    BY <2>1, Constants
  <2>3. g \in FrameType /\ g.step = "lookup" /\ g.mod = n[1] /\ g.inst = n
    BY <2>1, <2>2, NewFrame DEF Releasing
  <2>4. Goes(t, <<g, up>> \o Tail(stack[t]))
    BY <1>1, <1>10
  <2>5. g.step \notin Calling
    BY <2>3 DEF Calling
  <2> HIDE DEF g, n, i
  <2>6. Keeps(t, 2, 1) /\ stack'[t][1] = g /\ stack'[t][2] = up
    BY <1>1, <1>4, <2>3, <2>4, Nested
  <2>7. TypeOK'
    BY <1>6, <2>6 DEF TypeOK, DestroyInstance, Keeps
  <2>8. /\ Top(t) = stack[t][1] /\ Len(stack[t]) \in Nat \ {0} /\ 1 \in Depth(t)
        /\ 1 \in Nat /\ 2 \in Nat /\ 1..2 = {1, 2} /\ 1 # 0 /\ 1 <= Len(stack[t])
    BY <1>1, TopFrame
  <2>9. Filled'
    BY <1>5 DEF Formed, Filled
  <2>10. FramesFilled'
    <3>1. FrameFilled(g) /\ FrameFilled(up)
      BY <1>2, <1>4, <1>7, <2>1, <2>3 DEF FrameFilled, Building, Releasing, Pointing, Ending
    <3>2. \A k \in 1..2 : \A h \in FrameType : h = stack'[t][k] => FrameFilled(h)'
      BY <1>5, <2>6, <2>8, <3>1 DEF FrameFilled
    <3>. QED
      BY <1>5, <2>6, <2>8, <3>2, FramesFilledStep DEF Formed
  <2>11. Nesting'
    <3>1. \A j \in Depth(t) : stack[t][j].step \notin Calling
      BY <1>2, <2>8 DEF Formed, Nesting
    <3>2. /\ \A k \in 1..2 : k # 1 => stack'[t][k].step \in {"create", "destroy"}
          /\ \A k \in 1..2 : \A j \in Depth(t) :
               stack'[t][k].step \in Calling <=> stack[t][j].step \in Calling
          /\ \A j, k \in 1..2 :
               stack'[t][k].step \in Calling <=> stack'[t][j].step \in Calling
      BY <1>4, <1>8, <2>5, <2>6, <2>8, <3>1
    <3>. QED
      BY <2>6, <2>8, <3>2, NestingStep, Zenon DEF Formed
  <2>12. Asking'
    <3>1. \A u \in Thread : holds'[u] \subseteq holds[u]
      BY <1>5
    <3>. QED
      BY <1>8, <2>6, <2>8, <3>1, AskingStep DEF Formed
  <2>13. Formed'
    BY <2>9, <2>10, <2>11, <2>12 DEF Formed
  <2>. QED
    BY <1>1, <1>2, <1>4, <1>10, <2>1, <2>3, <2>4, <2>7, <2>13 DEF g, n, i, f, up, m
<1>. QED
  BY <1>9, <1>10

LEMMA InstanceDeletedForm ==
  ASSUME TypeOK, Formed, NEW t \in Thread, InstanceDeleted(t)
  PROVE  LET f == [Top(t) EXCEPT !.step = "unload"]
         IN  /\ f \in FrameType /\ f.step = "unload" /\ f.mod = Top(t).mod
             /\ f.inst = Top(t).inst /\ f.ptr = Top(t).ptr /\ Top(t).mod \in Module
             /\ stack[t] # <<>> /\ Top(t).step = "deleted" /\ Step(t, f)
             /\ TypeOK' /\ Formed'
<1> DEFINE f == [Top(t) EXCEPT !.step = "unload"]
<1>1. stack[t] # <<>> /\ Top(t).step = "deleted" /\ Step(t, f)
  BY DEF InstanceDeleted, At
<1>2. /\ Top(t) \in FrameType /\ Top(t).mod \in Module /\ Top(t).ptr \in Slot
      /\ mem[Top(t).ptr].mod # None
  BY <1>1, TopFrame, TopFilled, Constants DEF Pointing, Ending
<1>3. /\ f \in FrameType /\ f.step = "unload" /\ f.mod = Top(t).mod
      /\ f.inst = Top(t).inst /\ f.ptr = Top(t).ptr
  BY <1>2, NextFrame DEF Ending
<1> HIDE DEF f
<1>4. TypeOK'
  <2>1. stack' \in [Thread -> Seq(FrameType)] /\ raced' \in BOOLEAN
    BY <1>1, <1>3, Stepped DEF Keeps
  <2>2. sinst' \in [Module -> Instance \cup {NoInst}]
    BY <1>2 DEF TypeOK, InstanceDeleted
  <2>. QED
    BY <2>1, <2>2 DEF TypeOK, InstanceDeleted
<1>5. Formed'
  <2>1. FrameFilled(f)
    BY <1>2, <1>3 DEF FrameFilled, Building, Releasing
  <2>2. f.step \notin Calling /\ Top(t).step \notin Calling
    BY <1>1, <1>3 DEF Calling
  <2>3. mem' = mem /\ size' = size /\ holds' = holds
    BY DEF InstanceDeleted
  <2>. QED
    BY <1>1, <1>3, <2>1, <2>2, <2>3, FormedGoesOn
<1>. QED
  BY <1>1, <1>2, <1>3, <1>4, <1>5 DEF f

LEMMA UnloadModuleForm ==
  ASSUME TypeOK, Formed, NEW t \in Thread, UnloadModule(t)
  PROVE  LET f == [Top(t) EXCEPT !.step = "remove"]
             m == mem[Top(t).ptr].mod
         IN  /\ f \in FrameType /\ f.step = "remove" /\ f.mod = Top(t).mod
             /\ f.inst = Top(t).inst /\ f.ptr = Top(t).ptr /\ m \in Module
             /\ libs' = [libs EXCEPT ![m] = IF @ = 0 THEN 0 ELSE @ - 1]
             /\ stack[t] # <<>> /\ Top(t).step = "unload" /\ Step(t, f)
             /\ TypeOK' /\ Formed'
<1> DEFINE f == [Top(t) EXCEPT !.step = "remove"]
           m == mem[Top(t).ptr].mod
<1>1. /\ stack[t] # <<>> /\ Top(t).step = "unload" /\ Step(t, f)
      /\ libs' = [libs EXCEPT ![m] = IF @ = 0 THEN 0 ELSE @ - 1]
  BY DEF UnloadModule, At
<1>2. /\ Top(t) \in FrameType /\ m \in Module /\ Top(t).ptr \in Slot
      /\ mem[Top(t).ptr].mod # None
  BY <1>1, TopFrame, TopFilled, Constants DEF Pointing, Ending
<1>3. /\ f \in FrameType /\ f.step = "remove" /\ f.mod = Top(t).mod
      /\ f.inst = Top(t).inst /\ f.ptr = Top(t).ptr
  BY <1>2, NextFrame DEF Ending
<1> HIDE DEF f, m
<1>4. TypeOK'
  <2>1. stack' \in [Thread -> Seq(FrameType)] /\ raced' \in BOOLEAN
    BY <1>1, <1>3, Stepped DEF Keeps
  <2>2. libs' \in [Module -> Nat]
    BY <1>1, <1>2 DEF TypeOK
  <2>. QED
    BY <2>1, <2>2 DEF TypeOK, UnloadModule
<1>5. Formed'
  <2>1. FrameFilled(f)
    BY <1>2, <1>3 DEF FrameFilled, Building, Releasing
  <2>2. f.step \notin Calling /\ Top(t).step \notin Calling
    BY <1>1, <1>3 DEF Calling
  <2>3. mem' = mem /\ size' = size /\ holds' = holds
    BY DEF UnloadModule
  <2>. QED
    BY <1>1, <1>3, <2>1, <2>2, <2>3, FormedGoesOn
<1>. QED
  BY <1>1, <1>2, <1>3, <1>4, <1>5 DEF f, m

(* The vector with the entry at e erased.                                   *)
Erased(e) == [i \in Slot |-> IF i >= e /\ i < size THEN mem[i + 1] ELSE mem[i]]

LEMMA RemoveCachedForm ==
  ASSUME TypeOK, Formed, NEW t \in Thread, RemoveCached(t)
  PROVE  LET S == {i \in 1..size : mem[i].inst = mem[Top(t).ptr].inst}
         IN  /\ stack[t] # <<>> /\ Top(t).step = "remove" /\ Top(t).step \notin Calling
             /\ Top(t).ptr \in Slot
             /\ \/ S = {} /\ mem' = mem /\ size' = size /\ shifted' = shifted
                \/ \E e \in S :
                     /\ mem' = Erased(e) /\ size' = size - 1
                     /\ ~shifted' => \A k \in Depth(t) :
                          k # 1 /\ stack[t][k].ptr > e =>
                            mem'[stack[t][k].ptr] = mem[stack[t][k].ptr]
             /\ DisconnectReturns(t)
             /\ TypeOK' /\ Formed'
<1> DEFINE S == {i \in 1..size : mem[i].inst = mem[Top(t).ptr].inst}
           e == CHOOSE i \in S : \A j \in S : i <= j
<1>1. /\ stack[t] # <<>> /\ Top(t).step = "remove" /\ Top(t).step \notin Calling
      /\ DisconnectReturns(t) /\ holds' = holds
  BY DEF RemoveCached, At, Calling
<1>2. Top(t).ptr \in Slot
  BY <1>1, TopFilled DEF Pointing, Ending
<1>3. size \in Nat /\ size <= MaxMade /\ MaxMade \in Nat /\ 1..size \subseteq Slot
  BY Types, Constants
<1>4. S = {} => mem' = mem /\ size' = size /\ shifted' = shifted
  BY DEF RemoveCached
<1>5. S # {} =>
        /\ mem' = Erased(e) /\ size' = size - 1
        /\ shifted' = (shifted \/ \E k \in 2..Len(stack[t]) :
                         /\ stack[t][k].ptr > e
                         /\ mem'[stack[t][k].ptr] # mem[stack[t][k].ptr])
  BY Zenon DEF RemoveCached, Erased
<1>6. S # {} => e \in S
  BY <1>3, First
<1>7. shifted' \in BOOLEAN
  BY <1>4, <1>5 DEF TypeOK
<1> HIDE DEF e
<1>8. /\ size' \in 0..MaxMade /\ size' <= size
      /\ mem' \in [Slot -> [mod : Module \cup {None}, count : 0..(CountMod - 1),
                            inst : Instance \cup {NoInst}]]
      /\ \A q \in Slot : mem'[q] = mem[q] \/ (q + 1 \in 1..size /\ mem'[q] = mem[q + 1])
      /\ \A q \in 1..size' : q \in 1..size
  <2>1. CASE S = {}
    BY <1>3, <1>4, <2>1 DEF TypeOK
  <2>2. CASE S # {}
    <3>1. e \in 1..size /\ mem' = Erased(e) /\ size' = size - 1
      BY <1>5, <1>6, <2>2
    <3>2. \A q \in Slot : q >= e /\ q < size => q + 1 \in 1..size /\ q + 1 \in Slot
      BY <1>3, <3>1, Constants
    <3>. QED
      BY <1>3, <3>1, <3>2 DEF TypeOK, Erased
  <2>. QED
    BY <2>1, <2>2
<1>9. TypeOK'
  <2>1. stack' \in [Thread -> Seq(FrameType)] /\ raced' \in BOOLEAN
    BY <1>1, DisconnectReturnsTo
  <2>. QED
    BY <1>7, <1>8, <2>1 DEF TypeOK, RemoveCached
<1>10. Formed'
  <2>1. \A q \in Slot : mem[q].mod # None => mem'[q].mod # None
    BY <1>8 DEF Formed, Filled
  <2>2. Filled'
    <3>1. \A q \in Slot : mem'[q].mod # None => mem'[q].inst \in Instance
      BY <1>3, <1>8 DEF Formed, Filled
    <3>2. \A q \in 1..size' : mem'[q].mod # None
      BY <1>3, <1>8, <2>1 DEF Formed, Filled
    <3>. QED
      BY <3>1, <3>2 DEF Filled
  <2>. QED
    BY <1>1, <2>1, <2>2, FormedDisconnectReturns
<1>11. \/ S = {} /\ mem' = mem /\ size' = size /\ shifted' = shifted
       \/ \E d \in S :
            /\ mem' = Erased(d) /\ size' = size - 1
            /\ ~shifted' => \A k \in Depth(t) :
                 k # 1 /\ stack[t][k].ptr > d =>
                   mem'[stack[t][k].ptr] = mem[stack[t][k].ptr]
  <2>1. \A k \in Depth(t) : k # 1 => k \in 2..Len(stack[t])
    BY Frames DEF Depth
  <2>. QED
    BY <1>4, <1>5, <1>6, <2>1
<1>. QED
  BY <1>1, <1>2, <1>9, <1>10, <1>11

-----------------------------------------------------------------------------
(* What is known in an undisturbed state *)

LEMMA OthersIdle ==
  ASSUME TypeOK, Formed, Apart, NEW t \in Thread, stack[t] # <<>>,
         \/ Top(t).step \in {"load"} \cup Building \cup Ending
         \/ Len(stack[t]) # 1
  PROVE  \A u \in Thread : u # t => stack[u] = <<>>
<1>1. /\ Top(t) = stack[t][1] /\ Len(stack[t]) \in Nat \ {0} /\ 1 \in Depth(t)
  BY TopFrame
<1>2. Slow(stack[t])
  <2>1. CASE Top(t).step \in {"load"} \cup Building \cup Ending
    BY <1>1, <2>1 DEF Slow, Depth, Building, Ending
  <2>2. CASE Len(stack[t]) # 1
    <3>1. Len(stack[t]) \in Nat \ {0, 1}
      BY <1>1, <2>2, Zenon
    <3>2. 2 \in Depth(t)
      <4>1. \A n \in Nat \ {0, 1} : 2 \in 1..n
        OBVIOUS
      <4>. QED
        BY <3>1, <4>1, Zenon DEF Depth
    <3>3. stack[t][2].step \in {"create", "destroy"}
      BY <3>2 DEF Formed, Nesting
    <3>. QED
      BY <3>2, <3>3 DEF Slow, Depth
  <2>. QED
    BY <2>1, <2>2
<1>. QED
  BY <1>2 DEF Apart, Conflict

(* The frames of a call of Connect, and of a call of Disconnect.            *)
LEMMA ConnectFrames ==
  ASSUME TypeOK, Formed, NEW t \in Thread, stack[t] # <<>>, Top(t).step \in Calling
  PROVE  /\ \A k \in Depth(t) : stack[t][k].step \in Calling
         /\ \A k \in Depth(t) : k # 1 => stack[t][k].step = "create"
<1>1. Top(t) = stack[t][1] /\ 1 \in Depth(t)
  BY TopFrame
<1>. QED
  BY <1>1 DEF Formed, Nesting, Calling

LEMMA DisconnectFrames ==
  ASSUME TypeOK, Formed, NEW t \in Thread, stack[t] # <<>>, Top(t).step \notin Calling
  PROVE  /\ \A k \in Depth(t) : stack[t][k].step \notin Calling
         /\ \A k \in Depth(t) : k # 1 => stack[t][k].step = "destroy"
<1>1. Top(t) = stack[t][1] /\ 1 \in Depth(t)
  BY TopFrame
<1>. QED
  BY <1>1 DEF Formed, Nesting, Calling

LEMMA KindsApart ==
  /\ Calling \cap Releasing = {} /\ Calling \cap Ending = {} /\ Releasing \cap Ending = {}
  /\ Building \subseteq Calling
BY DEF Calling, Releasing, Ending, Building

LEMMA PendingStep ==
  ASSUME NEW t \in Thread, NEW n, NEW d, Keeps(t, n, d), NEW i
  PROVE  Pending(i)' = IF Releases(stack'[t], i) THEN Pending(i) \cup {t}
                       ELSE Pending(i) \ {t}
BY DEF Keeps, Pending, Releases

LEMMA ReferencesSame ==
  ASSUME NEW i, Holding(i)' = Holding(i), Using(i)' = Using(i), Pending(i)' = Pending(i)
  PROVE  References(i)' = References(i)
BY DEF References

(* Calls that leave the entries, the libraries and the objects alone.       *)
LEMMA UndisturbedCalls ==
  ASSUME TypeOK, Formed, Undisturbed, Apart', NEW t \in Thread, NEW d \in {0, 1},
         Keeps(t, 1, d), NEW f \in FrameType, stack'[t][1] = f, stack'[t] # <<>>,
         d <= Len(stack[t]),
         UNCHANGED <<mem, size, libs, sinst, alive, refs>>,
         \A i \in Instance : References(i)' = References(i),
         ConnectKnows(f), DisconnectKnows(f), f.step \notin Ending,
         f.step \in Building => d = 1 /\ Top(t).step \in Building,
         d = 1 => /\ f.mod = Top(t).mod
                  /\ Top(t).step \notin Ending \cup {"made", "push"}
                  /\ Top(t).step \in Building => f.step \in Building,
         d = 0 /\ stack[t] # <<>> => Top(t).step = "create" /\ f.mod = Needs[Top(t).mod]
  PROVE  Undisturbed'
<1>1. Len(stack[t]) \in Nat /\ (stack[t] = <<>> <=> Len(stack[t]) = 0)
  BY Frames
<1>2. Len(stack'[t]) = Len(stack[t]) - d + 1
  BY DEF Keeps
<1>3. \A k \in Depth(t)' : \/ k = 1 /\ stack'[t][k] = f
                           \/ /\ k # 1 /\ k - 1 + d \in Depth(t)
                              /\ stack'[t][k] = stack[t][k - 1 + d]
  BY DEF Keeps, Depth
<1>4. \A k \in Depth(t) : \/ d = 1 /\ k = 1
                          \/ /\ k + 1 - d \in Depth(t)' /\ k + 1 - d # 1
                             /\ stack'[t][k + 1 - d] = stack[t][k]
  BY <1>1, <1>2 DEF Keeps, Depth
<1>5. /\ \A u \in Thread : u # t => stack'[u] = stack[u]
      /\ 1 \in Depth(t)' /\ Top(t)' = f
  BY <1>1, <1>2 DEF Keeps, Depth, Top
<1>6. \A m : Cached(m)' <=> Cached(m)
  BY DEF Cached
<1>7. \A i : Known(i)' <=> Known(i)
  BY DEF Known
<1>8. stack[t] # <<>> => Top(t) = stack[t][1] /\ 1 \in Depth(t)
  BY TopFrame
<1>9. Listed'
  BY DEF Undisturbed, Listed
<1>10. Counted'
  BY <1>7, Types DEF Undisturbed, Counted, Formed, Filled
<1>11. \A i : Leaving(i) => Leaving(i)'
  <2> SUFFICES ASSUME NEW i, NEW u \in Thread, NEW k \in Depth(u),
                      stack[u][k].step \in Ending, stack[u][k].inst = i
               PROVE  Leaving(i)'
    BY DEF Leaving
  <2>1. CASE u # t
    BY <1>5, <2>1 DEF Leaving, Depth
  <2>2. CASE u = t
    <3>1. ~(d = 1 /\ k = 1)
      BY <1>1, <1>8, <2>2 DEF Depth
    <3>2. /\ k + 1 - d \in Depth(t)'
          /\ stack'[t][k + 1 - d] = stack[t][k]
      BY <1>4, <2>2, <3>1
    <3>. QED
      BY <2>2, <3>2 DEF Leaving
  <2>. QED
    BY <2>1, <2>2
<1>12. Living'
  <2> SUFFICES ASSUME NEW p \in 1..size
               PROVE  Leaving(mem[p].inst)' \/ Lives(mem[p])'
    BY DEF Living
  <2>1. Leaving(mem[p].inst) \/ Lives(mem[p])
    BY DEF Undisturbed, Living
  <2>2. Lives(mem[p]) => Lives(mem[p])'
    BY DEF Lives
  <2>3. Leaving(mem[p].inst) => Leaving(mem[p].inst)'
    BY <1>11 DEF Leaving
  <2>. QED
    BY <2>1, <2>2, <2>3
<1>13. \A j \in Depth(t)' : j # 1 /\ Alone(t, j)' => Alone(t, j - 1 + d)
  <2> SUFFICES ASSUME NEW j \in Depth(t)', j # 1, Alone(t, j)', NEW k \in Depth(t),
                      stack[t][k].step \in Building,
                      stack[t][k].mod = stack[t][j - 1 + d].mod
               PROVE  k = j - 1 + d
    BY DEF Alone
  <2>1. stack'[t][j] = stack[t][j - 1 + d]
    BY <1>3
  <2>2. CASE d = 1 /\ k = 1
    <3>1. f.step \in Building /\ f.mod = stack'[t][j].mod
      BY <1>1, <1>8, <2>1, <2>2 DEF Depth
    <3>2. j = 1
      BY <1>5, <3>1 DEF Alone
    <3>. QED
      BY <3>2
  <2>3. CASE k + 1 - d \in Depth(t)' /\ stack'[t][k + 1 - d] = stack[t][k]
    <3>1. k + 1 - d = j
      BY <2>1, <2>3 DEF Alone
    <3>. QED
      BY <3>1 DEF Depth
  <2>. QED
    BY <1>4, <2>2, <2>3
<1>14. f.step \in Building /\ Alone(t, 1)' => libs[f.mod] = 1
  <2> SUFFICES ASSUME f.step \in Building, Alone(t, 1)'
               PROVE  libs[f.mod] = 1
    OBVIOUS
  <2>1. /\ d = 1 /\ Top(t).step \in Building /\ f.mod = Top(t).mod
        /\ Top(t) = stack[t][1] /\ 1 \in Depth(t)
    BY <1>1, <1>8
  <2>2. Alone(t, 1)
    BY <1>4, <1>5, <2>1 DEF Alone
  <2>. QED
    BY <2>1, <2>2 DEF Undisturbed, Connecting
<1>15. Connecting'
  <2>1. \A g \in FrameType : ConnectKnows(g) => ConnectKnows(g)'
    BY <1>6 DEF ConnectKnows
  <2> SUFFICES ASSUME NEW u \in Thread, NEW k \in Depth(u)', NEW g, g = stack'[u][k]
               PROVE  /\ ConnectKnows(g)'
                      /\ g.step \in Building /\ Alone(u, k)' => libs'[g.mod] = 1
                      /\ k # 1 /\ g.step = "create" => stack'[u][k - 1].mod = Needs[g.mod]
    BY DEF Connecting, ConnectKnows
  <2>2. CASE u # t
    <3>1. k \in Depth(u) /\ g = stack[u][k] /\ g \in FrameType
      BY <1>5, <2>2, Frames DEF Depth
    <3>2. Alone(u, k)' => Alone(u, k)
      BY <1>5, <2>2 DEF Alone, Depth
    <3>. QED
      BY <1>5, <2>1, <2>2, <3>1, <3>2 DEF Undisturbed, Connecting
  <2>3. CASE u = t /\ k = 1
    BY <1>5, <1>14, <2>1, <2>3
  <2>4. CASE u = t /\ k # 1
    <3> DEFINE j == k - 1 + d
    <3>1. j \in Depth(t) /\ g = stack[t][j] /\ g \in FrameType
      BY <1>3, <2>4, Frames
    <3>2. /\ ConnectKnows(g)
          /\ g.step \in Building /\ Alone(t, j) => libs[g.mod] = 1
          /\ j # 1 /\ g.step = "create" => stack[t][j - 1].mod = Needs[g.mod]
      BY <3>1 DEF Undisturbed, Connecting
    <3>3. Alone(t, k)' => Alone(t, j)
      BY <1>13, <2>4
    <3>4. g.step = "create" => stack'[t][k - 1].mod = Needs[g.mod]
      <4>1. CASE k = 2 /\ d = 1
        BY <1>1, <1>5, <1>8, <3>1, <3>2, <4>1 DEF Depth
      <4>2. CASE k = 2 /\ d = 0
        BY <1>1, <1>5, <1>8, <3>1, <4>2 DEF Depth
      <4>3. CASE k # 2
        <5>1. k - 1 \in Depth(t)' /\ k - 1 # 1 /\ j # 1 /\ (k - 1) - 1 + d = j - 1
          BY <2>4, <4>3 DEF Depth
        <5>2. stack'[t][k - 1] = stack[t][j - 1]
          BY <1>3, <5>1
        <5>. QED
          BY <3>2, <5>1, <5>2
      <4>. QED
        BY <4>1, <4>2, <4>3
    <3>. QED
      BY <2>1, <2>4, <3>1, <3>2, <3>3, <3>4
  <2>. QED
    BY <2>2, <2>3, <2>4
<1>16. Disconnecting'
  <2>1. \A g \in FrameType : DisconnectKnows(g) => DisconnectKnows(g)'
    BY DEF DisconnectKnows
  <2> SUFFICES ASSUME NEW u \in Thread, NEW k \in Depth(u)', NEW g, g = stack'[u][k]
               PROVE  /\ DisconnectKnows(g)'
                      /\ g.step \in Ending =>
                           /\ g.inst \in alive <=> k = 1 /\ g.step = "destroy"
                           /\ \A j \in Depth(u)' :
                                stack'[u][j].step \in Ending /\ stack'[u][j].inst = g.inst => j = k
    BY DEF Disconnecting, DisconnectKnows
  <2>2. CASE u # t
    <3>1. k \in Depth(u) /\ g = stack[u][k] /\ g \in FrameType
      BY <1>5, <2>2, Frames DEF Depth
    <3>. QED
      BY <1>5, <2>1, <2>2, <3>1 DEF Undisturbed, Disconnecting, Depth
  <2>3. CASE u = t /\ k = 1
    BY <1>5, <2>1, <2>3
  <2>4. CASE u = t /\ k # 1 /\ d = 1
    <3>1. k \in Depth(t) /\ g = stack[t][k] /\ g \in FrameType
      BY <1>3, <2>4, Frames DEF Depth
    <3>2. \A j \in Depth(t)' : j # 1 => j \in Depth(t) /\ stack'[t][j] = stack[t][j]
      BY <1>3, <2>4 DEF Depth
    <3>. QED
      BY <1>5, <2>1, <2>4, <3>1, <3>2 DEF Undisturbed, Disconnecting
  <2>5. CASE u = t /\ k # 1 /\ d = 0
    <3>1. k - 1 \in Depth(t) /\ g = stack[t][k - 1] /\ g \in FrameType
      BY <1>3, <2>5, Frames DEF Depth
    <3>2. stack[t] # <<>> /\ Top(t).step \in Calling
      BY <1>1, <2>5, <3>1 DEF Depth, Calling
    <3>3. g.step \in Calling
      BY <3>1, <3>2, ConnectFrames
    <3>4. DisconnectKnows(g)
      BY <3>1 DEF Undisturbed, Disconnecting
    <3>. QED
      BY <2>1, <2>5, <3>1, <3>3, <3>4, KindsApart
  <2>. QED
    BY <2>2, <2>3, <2>4, <2>5
<1>17. Unlisted'
  <2>1. \A i : Adding(i) => Adding(i)'
    BY <1>1, <1>5, <1>8 DEF Adding, At, Top
  <2>2. \A i : Making(i) => Making(i)'
    BY <1>1, <1>5, <1>8 DEF Making, At, Top
  <2>3. \A m : Loading(m) => Loading(m)'
    <3> SUFFICES ASSUME NEW m, NEW u \in Thread, NEW k \in Depth(u),
                        stack[u][k].step \in Building, stack[u][k].mod = m
                 PROVE  Loading(m)'
      BY DEF Loading
    <3>1. CASE u # t
      BY <1>5, <3>1 DEF Loading, Depth
    <3>2. CASE u = t /\ d = 1 /\ k = 1
      BY <1>1, <1>5, <1>8, <3>2 DEF Loading, Depth
    <3>3. CASE u = t /\ ~(d = 1 /\ k = 1)
      BY <1>4, <3>3 DEF Loading
    <3>. QED
      BY <3>1, <3>2, <3>3
  <2>4. /\ \A m \in Module : ~Cached(m)' => sinst'[m] = NoInst \/ Adding(sinst[m])'
        /\ \A m \in Module : sinst'[m] # NoInst => sinst'[m][1] = m
    BY <1>6, <2>1 DEF Undisturbed, Unlisted
  <2>5. \A m \in Module : ~Cached(m)' => libs'[m] = 0 \/ Loading(m)'
    BY <1>6, <2>3 DEF Undisturbed, Unlisted
  <2>6. \A i \in alive' : Known(i)' \/ Adding(i)'
    BY <1>7, <2>1 DEF Undisturbed, Unlisted
  <2>7. \A j \in Instance : refs'[j] = NoInst \/ j \in alive' \/ Making(j)'
    BY <2>2 DEF Undisturbed, Unlisted
  <2>. QED
    BY <2>4, <2>5, <2>6, <2>7 DEF Unlisted
<1>. QED
  BY <1>9, <1>10, <1>12, <1>15, <1>16, <1>17 DEF Undisturbed

LEMMA PendingSame ==
  ASSUME NEW t \in Thread, NEW n, NEW d, Keeps(t, n, d), NEW i,
         Releases(stack'[t], i) <=> Releases(stack[t], i)
  PROVE  Pending(i)' = Pending(i)
BY DEF Keeps, Pending

(* What the innermost frame of a thread knows.                              *)
LEMMA TopKnows ==
  ASSUME TypeOK, Undisturbed, NEW t \in Thread, stack[t] # <<>>
  PROVE  ConnectKnows(Top(t)) /\ DisconnectKnows(Top(t))
BY TopFrame DEF Undisturbed, Connecting, Disconnecting

(* Connect begins: nobody refers to more than before.                       *)
LEMMA ClientConnectUndisturbed ==
  ASSUME TypeOK, Formed, Undisturbed, NEW t \in Thread, NEW m \in Module, ClientConnect(t, m),
         ~raced'
  PROVE  Undisturbed'
<1> DEFINE f == Frame("find", m, NoInst, 0)
<1>1. f \in FrameType /\ f.step = "find" /\ f.mod = m /\ stack[t] = <<>> /\ Call(t, f)
  BY ClientConnectForm
<1> HIDE DEF f
<1>2. /\ Keeps(t, 1, 0) /\ Apart' /\ stack'[t][1] = f
      /\ stack'[t] # <<>> /\ Head(stack'[t]) = f
  BY <1>1, Called
<1>3. UNCHANGED <<mem, size, libs, sinst, alive, refs, holds>>
  BY DEF ClientConnect
<1>4. \A i \in Instance : References(i)' = References(i)
  <2> SUFFICES ASSUME NEW i \in Instance
               PROVE  References(i)' = References(i)
    OBVIOUS
  <2>1. Pending(i)' = Pending(i)
    BY <1>1, <1>2, PendingSame DEF Releases, Releasing
  <2>2. Holding(i)' = Holding(i) /\ Using(i)' = Using(i)
    BY <1>3 DEF Holding, Using
  <2>. QED
    BY <2>1, <2>2, ReferencesSame
<1>5. ConnectKnows(f) /\ DisconnectKnows(f) /\ f.step \notin Ending /\ f.step \notin Building
  BY <1>1 DEF ConnectKnows, DisconnectKnows, Building, Releasing, Ending
<1>6. 0 <= Len(stack[t])
  BY Frames
<1>. QED
  BY <1>1, <1>2, <1>3, <1>4, <1>5, <1>6, UndisturbedCalls

(* The search of Connect finds the entry of the module, or no entry has it. *)
LEMMA FindCachedUndisturbed ==
  ASSUME TypeOK, Formed, Undisturbed, NEW t \in Thread, FindCached(t), ~raced'
  PROVE  Undisturbed'
<1> DEFINE p == FindCachedModule(Top(t).mod)
           s == IF p = 0 THEN "load" ELSE "hit"
           f == Frame(s, Top(t).mod, NoInst, p)
<1>1. /\ f \in FrameType /\ f.step = s /\ f.mod = Top(t).mod /\ f.ptr = p
      /\ stack[t] # <<>> /\ Top(t).step = "find" /\ Step(t, f)
  BY FindCachedForm
<1>2. /\ p = 0 => s = "load" /\ ~Cached(f.mod)
      /\ p # 0 => s = "hit" /\ p \in 1..size /\ mem[p].mod = f.mod
  BY <1>1, FoundModule
<1> HIDE DEF p, s, f
<1>3. /\ Keeps(t, 1, 1) /\ Apart' /\ stack'[t][1] = f
      /\ stack'[t] # <<>> /\ Head(stack'[t]) = f
  BY <1>1, Stepped
<1>4. UNCHANGED <<mem, size, libs, sinst, alive, refs, holds>>
  BY DEF FindCached
<1>5. f.step \in {"load", "hit"}
  BY <1>1, <1>2
<1>6. \A i \in Instance : References(i)' = References(i)
  <2> SUFFICES ASSUME NEW i \in Instance
               PROVE  References(i)' = References(i)
    OBVIOUS
  <2>1. Pending(i)' = Pending(i)
    BY <1>1, <1>3, <1>5, PendingSame DEF Releases, Releasing, Top
  <2>2. Holding(i)' = Holding(i) /\ Using(i)' = Using(i)
    BY <1>4 DEF Holding, Using
  <2>. QED
    BY <2>1, <2>2, ReferencesSame
<1>7. ConnectKnows(f)
  BY <1>1, <1>2, <1>5 DEF ConnectKnows, Building
<1>8. DisconnectKnows(f) /\ f.step \notin Ending /\ f.step \notin Building
  BY <1>5 DEF DisconnectKnows, Building, Releasing, Ending
<1>9. 1 <= Len(stack[t]) /\ Top(t).step \notin Ending \cup {"made", "push"} \cup Building
  BY <1>1, TopFrame DEF Ending, Building
<1>. QED
  BY <1>1, <1>3, <1>4, <1>6, <1>7, <1>8, <1>9, UndisturbedCalls

(* The count that Connect reads is the entry's until it is written: nobody  *)
(* else counts there.                                                       *)
LEMMA ReadHitUndisturbed ==
  ASSUME TypeOK, Formed, Undisturbed, NEW t \in Thread, ReadHit(t), ~raced'
  PROVE  Undisturbed'
<1> DEFINE f == [Top(t) EXCEPT !.step = "bump", !.val = mem[Top(t).ptr].count]
<1>1. /\ f \in FrameType /\ f.step = "bump" /\ f.mod = Top(t).mod
      /\ f.ptr = Top(t).ptr /\ f.val = mem[Top(t).ptr].count
      /\ stack[t] # <<>> /\ Top(t).step = "hit" /\ Step(t, f)
  BY ReadHitForm
<1> HIDE DEF f
<1>2. /\ Keeps(t, 1, 1) /\ Apart' /\ stack'[t][1] = f
      /\ stack'[t] # <<>> /\ Head(stack'[t]) = f
  BY <1>1, Stepped
<1>3. UNCHANGED <<mem, size, libs, sinst, alive, refs, holds>>
  BY DEF ReadHit
<1>4. \A i \in Instance : References(i)' = References(i)
  <2> SUFFICES ASSUME NEW i \in Instance
               PROVE  References(i)' = References(i)
    OBVIOUS
  <2>1. Pending(i)' = Pending(i)
    BY <1>1, <1>2, PendingSame DEF Releases, Releasing, Top
  <2>2. Holding(i)' = Holding(i) /\ Using(i)' = Using(i)
    BY <1>3 DEF Holding, Using
  <2>. QED
    BY <2>1, <2>2, ReferencesSame
<1>5. ConnectKnows(f)
  BY <1>1, TopKnows DEF ConnectKnows, Building
<1>6. DisconnectKnows(f) /\ f.step \notin Ending /\ f.step \notin Building
  BY <1>1 DEF DisconnectKnows, Building, Releasing, Ending
<1>7. 1 <= Len(stack[t]) /\ Top(t).step \notin Ending \cup {"made", "push"} \cup Building
  BY <1>1, TopFrame DEF Ending, Building
<1>. QED
  BY <1>1, <1>2, <1>3, <1>4, <1>5, <1>6, <1>7, UndisturbedCalls

(* A constructor whose module needs another one calls Connect for that one. *)
LEMMA ConstructUndisturbed ==
  ASSUME TypeOK, Formed, Undisturbed, NEW t \in Thread, Construct(t), ~raced'
  PROVE  Undisturbed'
<1> DEFINE n == Needs[Top(t).mod]
           f == [Top(t) EXCEPT !.step = "made"]
           g == Frame("find", n, NoInst, 0)
<1>1. /\ stack[t] # <<>> /\ Top(t).step = "create" /\ 1 <= Len(stack[t])
      /\ \/ /\ n = None /\ f \in FrameType /\ f.step = "made" /\ f.mod = Top(t).mod
            /\ f.inst = Top(t).inst /\ Step(t, f)
         \/ n \in Module /\ g \in FrameType /\ g.step = "find" /\ g.mod = n /\ Call(t, g)
  BY ConstructForm, TopFrame
<1> HIDE DEF f, g
<1>2. UNCHANGED <<mem, size, libs, sinst, alive, refs, holds>>
  BY DEF Construct
<1>3. ConnectKnows(Top(t))
  BY <1>1, TopKnows
<1>4. ASSUME NEW d \in {0, 1}, Keeps(t, 1, d), stack'[t] # <<>>,
             Head(stack'[t]).step \notin Releasing, NEW i \in Instance
      PROVE  References(i)' = References(i)
  <2>1. Pending(i)' = Pending(i)
    BY <1>1, <1>4, PendingSame DEF Releases, Releasing, Top
  <2>2. Holding(i)' = Holding(i) /\ Using(i)' = Using(i)
    BY <1>2 DEF Holding, Using
  <2>. QED
    BY <2>1, <2>2, ReferencesSame
<1>5. CASE /\ n = None /\ f \in FrameType /\ f.step = "made" /\ f.mod = Top(t).mod
           /\ f.inst = Top(t).inst /\ Step(t, f)
  <2>1. /\ Keeps(t, 1, 1) /\ Apart' /\ stack'[t][1] = f
        /\ stack'[t] # <<>> /\ Head(stack'[t]) = f
    BY <1>1, <1>5, Stepped
  <2>2. f.step \notin Releasing /\ f.step \notin Ending
    BY <1>5 DEF Releasing, Ending
  <2>3. ConnectKnows(f) /\ f.step \in Building /\ Top(t).step \in Building
    BY <1>1, <1>3, <1>5 DEF ConnectKnows, Building
  <2>4. DisconnectKnows(f)
    BY <1>5, <2>2 DEF DisconnectKnows
  <2>5. Top(t).step \notin Ending \cup {"made", "push"}
    BY <1>1 DEF Ending
  <2>6. \A i \in Instance : References(i)' = References(i)
    BY <1>4, <2>1, <2>2
  <2>. QED
    BY <1>1, <1>2, <1>5, <2>1, <2>2, <2>3, <2>4, <2>5, <2>6, UndisturbedCalls
<1>6. CASE n \in Module /\ g \in FrameType /\ g.step = "find" /\ g.mod = n /\ Call(t, g)
  <2>1. /\ Keeps(t, 1, 0) /\ Apart' /\ stack'[t][1] = g
        /\ stack'[t] # <<>> /\ Head(stack'[t]) = g
    BY <1>6, Called
  <2>2. /\ ConnectKnows(g) /\ DisconnectKnows(g) /\ g.step \notin Building
        /\ g.step \notin Releasing /\ g.step \notin Ending
    BY <1>6 DEF ConnectKnows, DisconnectKnows, Building, Releasing, Ending
  <2>3. \A i \in Instance : References(i)' = References(i)
    BY <1>4, <2>1, <2>2
  <2>4. 0 <= Len(stack[t])
    BY Frames
  <2>. QED
    BY <1>1, <1>2, <1>6, <2>1, <2>2, <2>3, <2>4, UndisturbedCalls
<1>. QED
  BY <1>1, <1>5, <1>6

(* Disconnect begins: the reference of the client is now the call's.        *)
LEMMA ClientDisconnectUndisturbed ==
  ASSUME TypeOK, Formed, Undisturbed, NEW t \in Thread, NEW i \in holds[t],
         ClientDisconnect(t, i), ~raced'
  PROVE  Undisturbed'
<1> DEFINE f == Frame("lookup", i[1], i, 0)
<1>1. /\ i \in Instance /\ f \in FrameType /\ f.step = "lookup" /\ f.mod = i[1] /\ f.inst = i
      /\ stack[t] = <<>> /\ Call(t, f) /\ holds' = [holds EXCEPT ![t] = @ \ {i}]
  BY ClientDisconnectForm
<1> HIDE DEF f
<1>2. /\ Keeps(t, 1, 0) /\ Apart' /\ stack'[t][1] = f
      /\ stack'[t] # <<>> /\ Head(stack'[t]) = f
  BY <1>1, Called
<1>3. UNCHANGED <<mem, size, libs, sinst, alive, refs>>
  BY DEF ClientDisconnect
<1>4. \A j \in Instance : References(j)' = References(j)
  <2> SUFFICES ASSUME NEW j \in Instance
               PROVE  References(j)' = References(j)
    OBVIOUS
  <2>1. Using(j)' = Using(j)
    BY <1>3 DEF Using
  <2>2. CASE j # i
    <3>1. Pending(j)' = Pending(j)
      BY <1>1, <1>2, <2>2, PendingSame DEF Releases
    <3>2. Holding(j)' = Holding(j)
      BY <1>1, <2>2 DEF Holding, TypeOK
    <3>. QED
      BY <2>1, <3>1, <3>2, ReferencesSame
  <2>3. CASE j = i
    <3>1. Releases(stack'[t], j) /\ t \notin Pending(j)
      BY <1>1, <1>2, <2>3 DEF Releases, Releasing, Pending
    <3>2. Pending(j)' = Pending(j) \cup {t}
      BY <1>2, <3>1, PendingStep
    <3>3. Holding(j)' = Holding(j) \ {t} /\ t \in Holding(j)
      BY <1>1, <2>3 DEF Holding, TypeOK
    <3>4. Cardinality(Pending(j)') = Cardinality(Pending(j)) + 1
      BY <3>1, <3>2, ReferenceSets, FS_AddElement
    <3>5. Cardinality(Holding(j)') = Cardinality(Holding(j)) - 1
      BY <3>3, ReferenceSets, FS_RemoveElement
    <3>. QED
      BY <2>1, <3>4, <3>5, ReferenceSets, Finite DEF References
  <2>. QED
    BY <2>2, <2>3
<1>5. ConnectKnows(f) /\ DisconnectKnows(f) /\ f.step \notin Ending /\ f.step \notin Building
  BY <1>1 DEF ConnectKnows, DisconnectKnows, Building, Releasing, Ending
<1>6. 0 <= Len(stack[t])
  BY Frames
<1>. QED
  BY <1>1, <1>2, <1>3, <1>4, <1>5, <1>6, UndisturbedCalls

(* The search of Disconnect finds the entry: what a call releases is        *)
(* counted.                                                                 *)
LEMMA FindEntryUndisturbed ==
  ASSUME TypeOK, Formed, Undisturbed, NEW t \in Thread, FindEntry(t), ~raced'
  PROVE  Undisturbed'
<1> DEFINE p == FindCachedInstance(Top(t).inst)
           f == [Top(t) EXCEPT !.step = "count", !.ptr = p]
<1>1. /\ stack[t] # <<>> /\ Top(t).step = "lookup" /\ Top(t).inst \in Instance
      /\ p # 0 => /\ f \in FrameType /\ f.step = "count" /\ f.mod = Top(t).mod
                  /\ f.inst = Top(t).inst /\ f.ptr = p /\ Step(t, f)
  BY FindEntryForm
<1>2. p # 0
  <2>1. t \in Pending(Top(t).inst)
    BY <1>1 DEF Pending, Releases, Releasing, Top
  <2>2. Cardinality(Pending(Top(t).inst)) # 0
    BY <2>1, ReferenceSets, FS_EmptySet
  <2>3. References(Top(t).inst) # 0
    BY <2>2, ReferenceSets, Finite DEF References
  <2>4. Known(Top(t).inst)
    BY <1>1, <2>3 DEF Undisturbed, Counted
  <2>. QED
    BY <2>4, FoundInstance
<1>3. p \in 1..size /\ mem[p].inst = Top(t).inst
  BY <1>2, FoundInstance
<1> HIDE DEF p, f
<1>4. /\ Keeps(t, 1, 1) /\ Apart' /\ stack'[t][1] = f
      /\ stack'[t] # <<>> /\ Head(stack'[t]) = f
  BY <1>1, <1>2, Stepped
<1>5. UNCHANGED <<mem, size, libs, sinst, alive, refs, holds>>
  BY DEF FindEntry
<1>6. \A i \in Instance : References(i)' = References(i)
  <2> SUFFICES ASSUME NEW i \in Instance
               PROVE  References(i)' = References(i)
    OBVIOUS
  <2>1. Pending(i)' = Pending(i)
    BY <1>1, <1>2, <1>4, PendingSame DEF Releases, Releasing, Top
  <2>2. Holding(i)' = Holding(i) /\ Using(i)' = Using(i)
    BY <1>5 DEF Holding, Using
  <2>. QED
    BY <2>1, <2>2, ReferencesSame
<1>7. DisconnectKnows(f)
  BY <1>1, <1>2, <1>3, TopKnows DEF DisconnectKnows, Releasing, Ending
<1>8. ConnectKnows(f) /\ f.step \notin Ending /\ f.step \notin Building
  BY <1>1, <1>2 DEF ConnectKnows, Building, Releasing, Ending
<1>9. 1 <= Len(stack[t]) /\ Top(t).step \notin Ending \cup {"made", "push"} \cup Building
  BY <1>1, TopFrame DEF Ending, Building
<1>. QED
  BY <1>1, <1>2, <1>4, <1>5, <1>6, <1>7, <1>8, <1>9, UndisturbedCalls

(* The count that Disconnect reads is the entry's until it is written.      *)
LEMMA ReadCountUndisturbed ==
  ASSUME TypeOK, Formed, Undisturbed, NEW t \in Thread, ReadCount(t), ~raced'
  PROVE  Undisturbed'
<1> DEFINE f == [Top(t) EXCEPT !.step = "drop", !.val = mem[Top(t).ptr].count]
<1>1. /\ f \in FrameType /\ f.step = "drop" /\ f.mod = Top(t).mod /\ f.inst = Top(t).inst
      /\ f.ptr = Top(t).ptr /\ f.val = mem[Top(t).ptr].count
      /\ stack[t] # <<>> /\ Top(t).step = "count" /\ Step(t, f)
  BY ReadCountForm
<1> HIDE DEF f
<1>2. /\ Keeps(t, 1, 1) /\ Apart' /\ stack'[t][1] = f
      /\ stack'[t] # <<>> /\ Head(stack'[t]) = f
  BY <1>1, Stepped
<1>3. UNCHANGED <<mem, size, libs, sinst, alive, refs, holds>>
  BY DEF ReadCount
<1>4. \A i \in Instance : References(i)' = References(i)
  <2> SUFFICES ASSUME NEW i \in Instance
               PROVE  References(i)' = References(i)
    OBVIOUS
  <2>1. Pending(i)' = Pending(i)
    BY <1>1, <1>2, PendingSame DEF Releases, Releasing, Top
  <2>2. Holding(i)' = Holding(i) /\ Using(i)' = Using(i)
    BY <1>3 DEF Holding, Using
  <2>. QED
    BY <2>1, <2>2, ReferencesSame
<1>5. DisconnectKnows(f)
  BY <1>1, TopKnows DEF DisconnectKnows, Releasing, Ending
<1>6. ConnectKnows(f) /\ f.step \notin Ending /\ f.step \notin Building
  BY <1>1 DEF ConnectKnows, Building, Releasing, Ending
<1>7. 1 <= Len(stack[t]) /\ Top(t).step \notin Ending \cup {"made", "push"} \cup Building
  BY <1>1, TopFrame DEF Ending, Building
<1>. QED
  BY <1>1, <1>2, <1>3, <1>4, <1>5, <1>6, <1>7, UndisturbedCalls

(* A constructor whose module's needs are met is not called again below.    *)
LEMMA NotBelow ==
  ASSUME TypeOK, Formed, Undisturbed, NEW t \in Thread, stack[t] # <<>>,
         Top(t).step \in {"made", "push"}, NEW k \in Depth(t), k # 1
  PROVE  stack[t][k].mod # Top(t).mod
<1>1. Top(t).step \in Calling
  BY DEF Calling
<1>2. stack[t][k].step = "create" /\ stack[t][k - 1].mod = Needs[stack[t][k].mod]
  BY <1>1, ConnectFrames DEF Undisturbed, Connecting
<1>3. k - 1 \in Depth(t) /\ Top(t) = stack[t][1]
  BY Frames, TopFrame DEF Depth
<1>4. ~Cached(stack[t][k - 1].mod)
  <2>1. stack[t][k - 1].step \in Building
    BY <1>1, <1>3, ConnectFrames DEF Building
  <2>. QED
    BY <1>3, <2>1 DEF Undisturbed, Connecting, ConnectKnows
<1>5. stack[t][k - 1].mod \in Module
  BY <1>3, Frames DEF FrameType
<1>6. Needs[Top(t).mod] = None \/ Cached(Needs[Top(t).mod])
  BY TopKnows DEF ConnectKnows
<1>. QED
  BY <1>2, <1>4, <1>5, <1>6, Constants

(* What Connect returns has one reference more.                             *)
LEMMA ConnectReferences ==
  ASSUME TypeOK, Formed, Undisturbed, NEW t \in Thread, stack[t] # <<>>,
         Top(t).step \in {"bump", "push"}, NEW i \in Instance, i[1] = Top(t).mod,
         ConnectReturns(t, i)
  PROVE  /\ References(i)' = References(i) + 1
         /\ \A j \in Instance : j # i => References(j)' = References(j)
<1>1. /\ Top(t) = stack[t][1] /\ Len(stack[t]) \in Nat \ {0} /\ 1 \in Depth(t)
      /\ Top(t).step \in Calling /\ Top(t).step \notin Releasing
  BY TopFrame DEF Calling, Releasing
<1>2. CASE /\ Len(stack[t]) = 1 /\ Keeps(t, 0, 1) /\ stack'[t] = <<>>
           /\ holds' = [holds EXCEPT ![t] = @ \cup {i}] /\ refs' = refs
  <2>1. \A j \in Instance : Pending(j)' = Pending(j)
    BY <1>1, <1>2, PendingSame DEF Releases, Top
  <2>2. \A j \in Instance : Using(j)' = Using(j)
    BY <1>2 DEF Using
  <2>3. \A j \in Instance : j # i => Holding(j)' = Holding(j)
    BY <1>2 DEF Holding, TypeOK
  <2>4. t \notin Holding(i)
    BY <1>1, <1>2 DEF Holding, Formed, Asking
  <2>5. Holding(i)' = Holding(i) \cup {t}
    BY <1>2 DEF Holding, TypeOK
  <2>6. Cardinality(Holding(i)') = Cardinality(Holding(i)) + 1
    BY <2>4, <2>5, ReferenceSets, FS_AddElement
  <2>7. References(i)' = References(i) + 1
    BY <2>1, <2>2, <2>6, ReferenceSets, Finite DEF References
  <2>. QED
    BY <2>1, <2>2, <2>3, <2>7, ReferencesSame
<1>3. CASE /\ Len(stack[t]) # 1 /\ Keeps(t, 1, 2) /\ 2 \in Depth(t)
           /\ stack[t][2].step = "create" /\ stack[t][2].inst \in Instance
           /\ Head(stack'[t]) = [stack[t][2] EXCEPT !.step = "made"]
           /\ [stack[t][2] EXCEPT !.step = "made"] \in FrameType
           /\ refs' = [refs EXCEPT ![stack[t][2].inst] = i] /\ holds' = holds
  <2> DEFINE o == stack[t][2].inst
  <2>1. \A j \in Instance : Pending(j)' = Pending(j)
    <3>1. [stack[t][2] EXCEPT !.step = "made"].step = "made"
      BY <1>3, Frames DEF FrameType
    <3>2. \A j \in Instance : ~Releases(stack'[t], j) /\ ~Releases(stack[t], j)
      BY <1>1, <1>3, <3>1 DEF Releases, Releasing, Top
    <3>. QED
      BY <1>3, <3>2, PendingSame
  <2>2. refs[o] = NoInst
    <3>1. o \notin alive
      BY <1>3 DEF Undisturbed, Connecting, ConnectKnows, Building
    <3>2. \A u \in Thread : u # t => stack[u] = <<>>
      BY <1>3, OthersIdle DEF Undisturbed
    <3>3. ~Making(o)
      BY <3>2 DEF Making, At
    <3>. QED
      BY <1>3, <3>1, <3>3 DEF Undisturbed, Unlisted
  <2>3. o \notin Using(i) /\ \A j \in Instance : o \notin Using(j)
    BY <2>2, Constants DEF Using
  <2>4. Using(i)' = Using(i) \cup {o}
    BY <1>3 DEF Using, TypeOK
  <2>5. \A j \in Instance : j # i => Using(j)' = Using(j)
    BY <1>3, <2>3 DEF Using, TypeOK
  <2>6. \A j \in Instance : Holding(j)' = Holding(j)
    BY <1>3 DEF Holding
  <2>7. Cardinality(Using(i)') = Cardinality(Using(i)) + 1
    BY <2>3, <2>4, ReferenceSets, FS_AddElement
  <2>8. References(i)' = References(i) + 1
    BY <2>1, <2>6, <2>7, ReferenceSets, Finite DEF References
  <2>. QED
    BY <2>1, <2>5, <2>6, <2>8, ReferencesSame
<1>. QED
  BY <1>1, <1>2, <1>3, ConnectReturnsTo

(* The frames a call of Connect leaves on its thread's stack.               *)
LEMMA ConnectReturnsFrames ==
  ASSUME TypeOK, Formed, Undisturbed, NEW t \in Thread, stack[t] # <<>>,
         Top(t).step \in {"bump", "push"}, NEW i \in Instance, ConnectReturns(t, i),
         libs' = libs, NEW m, m = Top(t).mod, Cached(m)',
         Top(t).step = "bump" => Cached(Top(t).mod),
         \A g \in FrameType : g.step = "create" /\ ConnectKnows(g) /\ g.mod # Top(t).mod =>
           ConnectKnows(g)'
  PROVE  /\ \A k \in Depth(t)' :
              /\ stack'[t][k] \in FrameType /\ stack'[t][k].step \in {"create", "made"}
              /\ \A g \in FrameType : g = stack'[t][k] => ConnectKnows(g)'
              /\ Alone(t, k)' => libs[stack'[t][k].mod] = 1
              /\ k # 1 => stack'[t][k - 1].mod = Needs[stack'[t][k].mod]
         /\ \A k \in Depth(t) : k # 1 => \E j \in Depth(t)' :
              stack'[t][j].step \in Building /\ stack'[t][j].mod = stack[t][k].mod
<1>1. /\ Top(t) = stack[t][1] /\ Len(stack[t]) \in Nat \ {0} /\ 1 \in Depth(t)
      /\ Top(t).step \in Calling
  BY TopFrame DEF Calling
<1>2. CASE Len(stack[t]) = 1 /\ Keeps(t, 0, 1) /\ stack'[t] = <<>>
  BY <1>2 DEF Depth
<1>3. CASE /\ Len(stack[t]) # 1 /\ Keeps(t, 1, 2) /\ 2 \in Depth(t)
           /\ stack[t][2] \in FrameType /\ stack[t][2].step = "create"
           /\ stack'[t][1] = [stack[t][2] EXCEPT !.step = "made"]
  <2> DEFINE up == stack[t][2]
             f == [up EXCEPT !.step = "made"]
  <2>1. /\ f \in FrameType /\ f.step = "made" /\ f.mod = up.mod /\ f.inst = up.inst
        /\ stack'[t][1] = f
    BY <1>3, NextFrame DEF Calling
  <2> HIDE DEF f
  <2>2. \A k \in Depth(t) : k # 1 =>
          /\ stack[t][k] \in FrameType /\ stack[t][k].step = "create"
          /\ ConnectKnows(stack[t][k])
          /\ Alone(t, k) => libs[stack[t][k].mod] = 1
          /\ stack[t][k - 1].mod = Needs[stack[t][k].mod]
    BY <1>1, Frames, ConnectFrames DEF Undisturbed, Connecting, Building
  <2>3. \A k \in Depth(t) : k # 1 => stack[t][k].mod # Top(t).mod
    <3>1. CASE Top(t).step = "push"
      BY <3>1, NotBelow
    <3>2. CASE Top(t).step = "bump"
      <4>1. \A k \in Depth(t) : k # 1 => ~Cached(stack[t][k].mod)
        BY <2>2 DEF ConnectKnows, Building
      <4>. QED
        BY <3>2, <4>1
    <3>. QED
      BY <3>1, <3>2
  <2>4. \A k \in Depth(t) : \A g \in FrameType :
          k # 1 /\ g = stack[t][k] => ConnectKnows(g)'
    BY <2>2, <2>3
  <2>5. \A k \in Depth(t)' : \/ k = 1 /\ stack'[t][k] = f
                             \/ /\ k # 1 /\ k + 1 \in Depth(t) /\ k + 1 # 1
                                /\ stack'[t][k] = stack[t][k + 1]
    <3> SUFFICES ASSUME NEW k \in Depth(t)', k # 1
                 PROVE  /\ k + 1 \in Depth(t) /\ k + 1 # 1
                        /\ stack'[t][k] = stack[t][k + 1]
      BY <2>1
    <3>1. k \in 1..Len(stack'[t]) /\ k > 1 /\ k - 1 + 2 = k + 1 /\ k + 1 # 1
      BY <1>3 DEF Keeps, Depth
    <3>. QED
      BY <1>3, <3>1 DEF Keeps
  <2>6. \A k \in Depth(t) : k # 1 =>
          /\ k - 1 \in Depth(t)' /\ stack'[t][k - 1].mod = stack[t][k].mod
          /\ stack'[t][k - 1].step \in Building
    <3> SUFFICES ASSUME NEW k \in Depth(t), k # 1
                 PROVE  /\ k - 1 \in Depth(t)' /\ stack'[t][k - 1].mod = stack[t][k].mod
                        /\ stack'[t][k - 1].step \in Building
      OBVIOUS
    <3>1. k - 1 \in Depth(t)' /\ (k - 1 = 1 <=> k = 2)
      BY <1>1, <1>3 DEF Keeps, Depth
    <3>2. CASE k = 2
      BY <2>1, <3>1, <3>2 DEF Building
    <3>3. CASE k # 2
      <4>1. stack'[t][k - 1] = stack[t][k]
        BY <2>5, <3>1, <3>3 DEF Depth
      <4>. QED
        BY <2>2, <3>1, <4>1 DEF Building
    <3>. QED
      BY <3>2, <3>3
  <2>7. ASSUME NEW k \in Depth(t)', Alone(t, k)'
        PROVE  Alone(t, k + 1)
    <3>1. k + 1 \in Depth(t) /\ k + 1 # 1 /\ stack'[t][k].mod = stack[t][k + 1].mod
      <4>1. k \in Nat \ {0} /\ 1 + 1 = 2
        BY DEF Depth
      <4>2. k + 1 \in Depth(t)
        BY <1>3, <2>5, <4>1
      <4>3. k + 1 # 1 /\ (k + 1) - 1 = k
        BY <4>1
      <4>. QED
        BY <2>6, <4>2, <4>3
    <3> SUFFICES ASSUME NEW j \in Depth(t), stack[t][j].step \in Building,
                        stack[t][j].mod = stack[t][k + 1].mod
                 PROVE  j = k + 1
      BY DEF Alone
    <3>2. j # 1
      BY <1>1, <2>3, <3>1
    <3>3. j - 1 = k
      BY <2>6, <2>7, <3>1, <3>2 DEF Alone
    <3>. QED
      BY <3>3 DEF Depth
  <2>8. \A k \in Depth(t) : k # 1 => \E j \in Depth(t)' :
          stack'[t][j].step \in Building /\ stack'[t][j].mod = stack[t][k].mod
    BY <2>6
  <2> SUFFICES ASSUME NEW k \in Depth(t)'
               PROVE  /\ stack'[t][k] \in FrameType /\ stack'[t][k].step \in {"create", "made"}
                      /\ \A g \in FrameType : g = stack'[t][k] => ConnectKnows(g)'
                      /\ Alone(t, k)' => libs[stack'[t][k].mod] = 1
                      /\ k # 1 => stack'[t][k - 1].mod = Needs[stack'[t][k].mod]
    BY <2>8
  <2>9. CASE k = 1
    <3>1. \A g \in FrameType : g = f => ConnectKnows(g)'
      <4> SUFFICES ASSUME NEW g \in FrameType, g = f, NEW h \in FrameType, h = up
                   PROVE  ConnectKnows(g)'
        BY <1>3
      <4>1. ConnectKnows(h)' /\ h.step = "create"
        BY <1>3, <2>4
      <4>2. Needs[h.mod] = Top(t).mod
        BY <1>1, <1>3, <2>2
      <4>3. g.step = "made" /\ g.mod = h.mod /\ g.inst = h.inst
        BY <2>1
      <4>4. Cached(Needs[g.mod])'
        BY <4>2, <4>3 DEF Cached
      <4>. QED
        BY <4>1, <4>3, <4>4 DEF ConnectKnows, Building
    <3>2. Alone(t, k)' => libs[f.mod] = 1
      <4>1. k + 1 = 2
        BY <2>9
      <4>. QED
        BY <1>3, <2>1, <2>2, <2>7, <4>1
    <3>. QED
      BY <2>1, <2>9, <3>1, <3>2
  <2>10. CASE k # 1
    <3>1. k + 1 \in Depth(t) /\ k + 1 # 1 /\ stack'[t][k] = stack[t][k + 1]
      BY <2>5, <2>10
    <3>2. k \in Depth(t) /\ (k + 1) - 1 = k
      BY <3>1 DEF Depth
    <3>3. stack'[t][k - 1].mod = stack[t][k].mod
      BY <2>6, <2>10, <3>2
    <3>. QED
      BY <2>2, <2>4, <2>7, <2>10, <3>1, <3>2, <3>3
  <2>. QED
    BY <2>9, <2>10
<1>. QED
  BY <1>1, <1>2, <1>3, ConnectReturnsTo

(* The calls of other threads while thread t counts.                        *)
LEMMA OthersCount ==
  ASSUME TypeOK, Formed, Undisturbed, NEW t \in Thread, stack[t] # <<>>,
         Top(t).step \in {"bump", "drop"}, Top(t).ptr \in Slot, NEW c,
         mem' = [mem EXCEPT ![Top(t).ptr].count = c],
         UNCHANGED <<size, libs, sinst, alive>>,
         NEW u \in Thread, u # t, NEW k \in Depth(u), NEW g \in FrameType, g = stack[u][k]
  PROVE  ConnectKnows(g)' /\ DisconnectKnows(g)' /\ g.step \notin Building \cup Ending
<1>1. /\ \A q \in Slot : /\ mem'[q].mod = mem[q].mod /\ mem'[q].inst = mem[q].inst
                         /\ q # Top(t).ptr => mem'[q] = mem[q]
      /\ 1..size \subseteq Slot
  BY Types DEF TypeOK
<1>2. stack[u] # <<>> /\ Len(stack[u]) \in Nat
  BY Frames DEF Depth
<1>3. ~Slow(stack[u])
  BY DEF Undisturbed, Apart, Conflict
<1>4. g.step \notin {"load"} \cup Building \cup Ending
  BY <1>3 DEF Slow, Depth, Building, Ending
<1>5. k = 1
  BY <1>4 DEF Formed, Nesting, Building, Ending
<1>6. ConnectKnows(g) /\ DisconnectKnows(g)
  BY DEF Undisturbed, Connecting, Disconnecting
<1>7. g.step \in {"hit", "bump", "count", "drop"} => g.ptr # Top(t).ptr
  <2> SUFFICES ASSUME g.step \in {"hit", "bump", "count", "drop"}
               PROVE  g.ptr # Top(t).ptr
    OBVIOUS
  <2>1. Head(stack[u]) = g /\ Head(stack[t]) = Top(t)
    BY <1>2, <1>5, TopFrame DEF Top
  <2>2. Counting(stack[u]) /\ Counting(stack[t])
    BY <1>2, <2>1 DEF Counting
  <2>3. ~Conflict(stack[u], stack[t])
    BY DEF Undisturbed, Apart
  <2>. QED
    BY <2>1, <2>2, <2>3 DEF Conflict
<1>8. ConnectKnows(g)'
  BY <1>1, <1>4, <1>6, <1>7 DEF ConnectKnows, Building
<1>9. DisconnectKnows(g)'
  BY <1>1, <1>4, <1>6, <1>7 DEF DisconnectKnows
<1>. QED
  BY <1>4, <1>8, <1>9

(* Connect counts what it hands out.                                        *)
LEMMA UseCachedUndisturbed ==
  ASSUME TypeOK, Formed, Undisturbed, NEW t \in Thread, UseCached(t), ~raced'
  PROVE  Undisturbed'
<1> DEFINE c == (Top(t).val + 1) % CountMod
<1> SUFFICES ASSUME NEW p, p = Top(t).ptr, NEW i, i = mem[p].inst, NEW m, m = Top(t).mod
             PROVE  Undisturbed'
  OBVIOUS
<1>1. /\ stack[t] # <<>> /\ Top(t).step = "bump" /\ Top(t).step \in Calling
      /\ p \in Slot /\ i \in Instance /\ mem' = [mem EXCEPT ![p].count = c]
      /\ ConnectReturns(t, i)
  BY UseCachedForm
<1>2. UNCHANGED <<size, libs, sinst, alive>>
  BY DEF UseCached
<1>3. /\ p \in 1..size /\ mem[p].mod = Top(t).mod /\ Top(t).val = mem[p].count
      /\ i[1] = Top(t).mod /\ mem[p].count = References(i) /\ Cached(Top(t).mod)
  BY <1>1, TopKnows DEF ConnectKnows, Undisturbed, Listed, Counted, Cached
<1>4. /\ References(i)' = References(i) + 1
      /\ \A j \in Instance : j # i => References(j)' = References(j)
  BY <1>1, <1>3, ConnectReferences
<1>5. c = References(i)'
  <2>1. References(i)' \in 0..(CountMod - 1) /\ Top(t).val + 1 = References(i) + 1
    BY <1>3, NewReferenceSets
  <2>. QED
    BY <1>4, <2>1, Finite
<1>6. /\ \A q \in Slot : /\ mem'[q].mod = mem[q].mod /\ mem'[q].inst = mem[q].inst
                         /\ q # p => mem'[q] = mem[q]
      /\ mem'[p].count = c /\ 1..size \subseteq Slot
  BY <1>1, Types DEF TypeOK
<1> HIDE DEF c
<1>7. /\ \A n : Cached(n)' <=> Cached(n)
      /\ \A j : Known(j)' <=> Known(j)
  BY <1>2, <1>6 DEF Cached, Known
<1>8. ASSUME NEW u \in Thread, NEW k \in Depth(u)
      PROVE  stack[u][k].step \notin Ending
  <2>1. stack[u][k] \in FrameType
    BY Frames
  <2>2. CASE u = t
    BY <1>1, <2>2, ConnectFrames, KindsApart
  <2>3. CASE u # t
    BY <1>1, <1>2, <2>1, <2>3, OthersCount
  <2>. QED
    BY <2>2, <2>3
<1>9. \A j : ~Leaving(j)
  BY <1>8 DEF Leaving
<1>10. \A q \in 1..size : Lives(mem[q])
  BY <1>9 DEF Undisturbed, Living
<1>11. Apart' /\ \A u \in Thread : u # t => stack'[u] = stack[u]
  BY <1>1, ConnectReturnsTo DEF Keeps
<1>12. Listed'
  BY <1>2, <1>6 DEF Undisturbed, Listed
<1>13. Counted'
  <2>1. \A q \in 1..size : mem[q].inst = i => q = p
    BY <1>3 DEF Undisturbed, Listed
  <2>2. \A q \in 1..size : mem[q].inst \in Instance
    BY Types DEF Formed, Filled
  <2>3. \A q \in 1..size : \A j \in Instance : j = mem[q].inst => mem'[q].count = References(j)'
    <3> SUFFICES ASSUME NEW q \in 1..size, NEW j \in Instance, j = mem[q].inst
                 PROVE  mem'[q].count = References(j)'
      OBVIOUS
    <3>1. CASE q = p
      BY <1>5, <1>6, <3>1
    <3>2. CASE q # p
      <4>1. References(j)' = References(j)
        BY <1>4, <2>1, <3>2
      <4>. QED
        BY <1>6, <3>2, <4>1 DEF Undisturbed, Counted
    <3>. QED
      BY <3>1, <3>2
  <2>4. \A q \in 1..size' : mem'[q].count = References(mem[q].inst)'
    BY <1>2, <1>6, <2>2, <2>3 DEF References, Holding, Using, Pending
  <2>5. \A j \in Instance : References(j)' # 0 => Known(j)'
    <3>1. Known(i)
      BY <1>3 DEF Known
    <3>. QED
      BY <1>4, <1>7, <3>1 DEF Undisturbed, Counted
  <2>. QED
    BY <2>4, <2>5 DEF Counted
<1>14. Living'
  <2> SUFFICES ASSUME NEW q \in 1..size
               PROVE  Lives(mem[q])'
    BY <1>2 DEF Living
  <2>1. Lives(mem[q])
    BY <1>10
  <2>2. mem'[q].count > 0
    <3>1. CASE q = p
      <4>1. References(i) \in Nat
        BY ReferenceSets, Finite
      <4>. QED
        BY <1>4, <1>5, <1>6, <3>1, <4>1
    <3>2. CASE q # p
      BY <1>6, <2>1, <3>2 DEF Lives
    <3>. QED
      BY <3>1, <3>2
  <2>. QED
    BY <1>2, <1>6, <2>1, <2>2 DEF Lives
<1>15. /\ \A k \in Depth(t)' :
            /\ stack'[t][k] \in FrameType /\ stack'[t][k].step \in {"create", "made"}
            /\ \A g \in FrameType : g = stack'[t][k] => ConnectKnows(g)'
            /\ Alone(t, k)' => libs[stack'[t][k].mod] = 1
            /\ k # 1 => stack'[t][k - 1].mod = Needs[stack'[t][k].mod]
       /\ \A k \in Depth(t) : k # 1 => \E j \in Depth(t)' :
            stack'[t][j].step \in Building /\ stack'[t][j].mod = stack[t][k].mod
  <2>1. Cached(m)'
    BY <1>3, <1>7
  <2>2. \A g \in FrameType : g.step = "create" /\ ConnectKnows(g) /\ g.mod # Top(t).mod =>
          ConnectKnows(g)'
    BY <1>2, <1>7 DEF ConnectKnows, Building
  <2>. QED
    BY <1>1, <1>2, <1>3, <2>1, <2>2, ConnectReturnsFrames
<1>16. Connecting'
  <2> SUFFICES ASSUME NEW u \in Thread, NEW k \in Depth(u)', NEW g, g = stack'[u][k]
               PROVE  /\ ConnectKnows(g)'
                      /\ g.step \in Building /\ Alone(u, k)' => libs'[g.mod] = 1
                      /\ k # 1 /\ g.step = "create" => stack'[u][k - 1].mod = Needs[g.mod]
    BY DEF Connecting, ConnectKnows
  <2>1. CASE u = t
    BY <1>2, <1>15, <2>1
  <2>2. CASE u # t
    <3>1. k \in Depth(u) /\ g = stack[u][k] /\ g \in FrameType
      BY <1>11, <2>2, Frames DEF Depth
    <3>2. ConnectKnows(g)' /\ g.step \notin Building
      BY <1>1, <1>2, <2>2, <3>1, OthersCount
    <3>. QED
      BY <3>2 DEF Building
  <2>. QED
    BY <2>1, <2>2
<1>17. Disconnecting'
  <2> SUFFICES ASSUME NEW u \in Thread, NEW k \in Depth(u)', NEW g, g = stack'[u][k]
               PROVE  DisconnectKnows(g)' /\ g.step \notin Ending
    BY DEF Disconnecting, DisconnectKnows
  <2>1. CASE u = t
    <3>1. g.step \in {"create", "made"}
      BY <1>15, <2>1
    <3>. QED
      BY <3>1 DEF DisconnectKnows, Releasing, Ending
  <2>2. CASE u # t
    <3>1. k \in Depth(u) /\ g = stack[u][k] /\ g \in FrameType
      BY <1>11, <2>2, Frames DEF Depth
    <3>. QED
      BY <1>1, <1>2, <2>2, <3>1, OthersCount
  <2>. QED
    BY <2>1, <2>2
<1>18. ASSUME NEW u \in Thread, NEW k \in Depth(u), stack[u][k].step \in Building
       PROVE  u = t /\ k # 1
  <2>1. stack[u][k] \in FrameType /\ Top(t) = stack[t][1]
    BY <1>1, Frames, TopFrame
  <2>2. u = t
    BY <1>1, <1>2, <1>18, <2>1, OthersCount
  <2>. QED
    BY <1>1, <1>18, <2>1, <2>2 DEF Building
<1>19. \A j : ~Adding(j) /\ ~Making(j)
  <2>1. ASSUME NEW u \in Thread, At(u, "push") \/ At(u, "made")
        PROVE  FALSE
    <3>1. 1 \in Depth(u) /\ stack[u][1].step \in Building
      BY <2>1, TopFrame DEF At, Building
    <3>. QED
      BY <1>18, <3>1
  <2>. QED
    BY <2>1 DEF Adding, Making
<1>20. Unlisted'
  <2>1. \A n : Loading(n) => Loading(n)'
    BY <1>15, <1>18 DEF Loading
  <2>2. \A n \in Module : /\ ~Cached(n)' => sinst'[n] = NoInst
                          /\ sinst'[n] # NoInst => sinst'[n][1] = n
    BY <1>2, <1>7, <1>19 DEF Undisturbed, Unlisted
  <2>3. \A n \in Module : ~Cached(n)' => libs'[n] = 0 \/ Loading(n)'
    BY <1>2, <1>7, <2>1 DEF Undisturbed, Unlisted
  <2>4. \A j \in alive' : Known(j)'
    BY <1>2, <1>7, <1>19 DEF Undisturbed, Unlisted
  <2>5. \A j \in Instance : refs'[j] = NoInst \/ j \in alive' \/ Making(j)'
    <3>1. \A j \in Instance : refs[j] = NoInst \/ j \in alive'
      BY <1>2, <1>19 DEF Undisturbed, Unlisted
    <3>2. CASE refs' = refs
      BY <3>1, <3>2
    <3>3. CASE /\ 2 \in Depth(t) /\ stack[t][2] \in FrameType
               /\ refs' = [refs EXCEPT ![stack[t][2].inst] = i]
               /\ stack'[t] # <<>>
               /\ Head(stack'[t]) = [stack[t][2] EXCEPT !.step = "made"]
      <4> SUFFICES ASSUME NEW o \in Instance, o = stack[t][2].inst,
                          NEW j \in Instance
                   PROVE  refs'[j] = NoInst \/ j \in alive' \/ Making(j)'
        BY <3>1, <3>3 DEF TypeOK
      <4>1. Top(t)'.step = "made" /\ Top(t)'.inst = o
        BY <3>3 DEF Top, FrameType
      <4>2. Making(o)'
        BY <3>3, <4>1 DEF Making, At
      <4>3. CASE j = o
        BY <4>2, <4>3
      <4>4. CASE j # o
        BY <3>1, <3>3, <4>4 DEF TypeOK
      <4>. QED
        BY <4>3, <4>4
    <3>. QED
      BY <1>1, <3>2, <3>3, ConnectReturnsTo
  <2>. QED
    BY <2>2, <2>3, <2>4, <2>5 DEF Unlisted
<1>. QED
  BY <1>11, <1>12, <1>13, <1>14, <1>16, <1>17, <1>20 DEF Undisturbed

(* The frames a call of Disconnect leaves on its thread's stack.            *)
LEMMA DisconnectReturnsFrames ==
  ASSUME TypeOK, Formed, Undisturbed, NEW t \in Thread, stack[t] # <<>>,
         Top(t).step \notin Calling, DisconnectReturns(t), alive' = alive,
         \A k \in Depth(t) : \A g \in FrameType :
           k # 1 /\ g = stack[t][k] => DisconnectKnows(g)'
  PROVE  /\ \A k \in Depth(t)' :
              /\ stack'[t][k] \in FrameType /\ stack'[t][k].step \in {"destroy", "deleted"}
              /\ \A g \in FrameType : g = stack'[t][k] => DisconnectKnows(g)'
              /\ stack'[t][k].inst \notin alive'
              /\ k = 1 => stack'[t][k].step = "deleted"
              /\ \A j \in Depth(t)' : stack'[t][j].inst = stack'[t][k].inst => j = k
         /\ \A k \in Depth(t) : k # 1 => \E j \in Depth(t)' :
              stack'[t][j].step \in Ending /\ stack'[t][j].inst = stack[t][k].inst
<1>1. /\ Top(t) = stack[t][1] /\ Len(stack[t]) \in Nat \ {0} /\ 1 \in Depth(t)
  BY TopFrame
<1>2. CASE Len(stack[t]) = 1 /\ Keeps(t, 0, 1) /\ stack'[t] = <<>>
  BY <1>2 DEF Depth
<1>3. CASE /\ Len(stack[t]) # 1 /\ Keeps(t, 1, 2) /\ 2 \in Depth(t)
           /\ stack[t][2] \in FrameType /\ stack[t][2].step = "destroy"
           /\ stack'[t][1] = [stack[t][2] EXCEPT !.step = "deleted"]
  <2> DEFINE f == [stack[t][2] EXCEPT !.step = "deleted"]
  <2>1. /\ f \in FrameType /\ f.step = "deleted" /\ f.mod = stack[t][2].mod
        /\ f.inst = stack[t][2].inst /\ f.ptr = stack[t][2].ptr /\ stack'[t][1] = f
    BY <1>3, NextFrame DEF Ending
  <2> HIDE DEF f
  <2>2. \A k \in Depth(t) : k # 1 =>
          /\ stack[t][k] \in FrameType /\ stack[t][k].step = "destroy"
          /\ stack[t][k].inst \notin alive
          /\ \A j \in Depth(t) : j # 1 /\ stack[t][j].inst = stack[t][k].inst => j = k
    BY <1>1, Frames, DisconnectFrames DEF Undisturbed, Disconnecting, Ending
  <2>3. \A k \in Depth(t)' : \/ k = 1 /\ stack'[t][k] = f
                             \/ /\ k # 1 /\ k + 1 \in Depth(t) /\ k + 1 # 1
                                /\ stack'[t][k] = stack[t][k + 1]
    <3> SUFFICES ASSUME NEW k \in Depth(t)', k # 1
                 PROVE  /\ k + 1 \in Depth(t) /\ k + 1 # 1
                        /\ stack'[t][k] = stack[t][k + 1]
      BY <2>1
    <3>1. k \in 1..Len(stack'[t]) /\ k > 1 /\ k - 1 + 2 = k + 1 /\ k + 1 # 1
      BY <1>3 DEF Keeps, Depth
    <3>. QED
      BY <1>3, <3>1 DEF Keeps
  <2>4. \A k \in Depth(t)' :
          /\ k + 1 \in Depth(t) /\ k + 1 # 1
          /\ stack'[t][k].inst = stack[t][k + 1].inst
    <3> SUFFICES ASSUME NEW k \in Depth(t)'
                 PROVE  /\ k + 1 \in Depth(t) /\ k + 1 # 1
                        /\ stack'[t][k].inst = stack[t][k + 1].inst
      OBVIOUS
    <3>1. 1 + 1 = 2 /\ 2 # 1
      OBVIOUS
    <3>2. CASE k = 1
      BY <1>3, <2>1, <3>1, <3>2
    <3>3. CASE k # 1
      BY <2>3, <3>3
    <3>. QED
      BY <3>2, <3>3
  <2>5. \A k \in Depth(t) : k # 1 => \E j \in Depth(t)' :
          stack'[t][j].step \in Ending /\ stack'[t][j].inst = stack[t][k].inst
    <3> SUFFICES ASSUME NEW k \in Depth(t), k # 1
                 PROVE  /\ k - 1 \in Depth(t)' /\ stack'[t][k - 1].step \in Ending
                        /\ stack'[t][k - 1].inst = stack[t][k].inst
      OBVIOUS
    <3>1. k - 1 \in Depth(t)' /\ (k - 1) + 1 = k
      <4>1. k \in 1..Len(stack[t]) /\ Len(stack'[t]) = Len(stack[t]) - 2 + 1
        BY <1>3 DEF Keeps, Depth
      <4>2. k - 1 \in 1..Len(stack'[t]) /\ (k - 1) + 1 = k
        BY <1>1, <4>1
      <4>. QED
        BY <4>2 DEF Depth
    <3>2. stack'[t][k - 1].step \in Ending
      <4>1. CASE k - 1 = 1
        BY <2>1, <4>1 DEF Ending
      <4>2. CASE k - 1 # 1
        <5>1. stack'[t][k - 1] = stack[t][k]
          BY <2>3, <3>1, <4>2
        <5>. QED
          BY <2>2, <5>1 DEF Ending
      <4>. QED
        BY <4>1, <4>2
    <3>. QED
      BY <2>4, <3>1, <3>2
  <2> SUFFICES ASSUME NEW k \in Depth(t)'
               PROVE  /\ stack'[t][k] \in FrameType
                      /\ stack'[t][k].step \in {"destroy", "deleted"}
                      /\ \A g \in FrameType : g = stack'[t][k] => DisconnectKnows(g)'
                      /\ stack'[t][k].inst \notin alive'
                      /\ k = 1 => stack'[t][k].step = "deleted"
                      /\ \A j \in Depth(t)' : stack'[t][j].inst = stack'[t][k].inst => j = k
    BY <2>5
  <2>6. stack'[t][k].inst \notin alive'
    BY <2>2, <2>4
  <2>7. \A j \in Depth(t)' : stack'[t][j].inst = stack'[t][k].inst => j = k
    <3> SUFFICES ASSUME NEW j \in Depth(t)', stack'[t][j].inst = stack'[t][k].inst
                 PROVE  j = k
      OBVIOUS
    <3>1. j + 1 = k + 1
      BY <2>2, <2>4
    <3>. QED
      BY <3>1 DEF Depth
  <2>8. CASE k = 1
    <3>1. \A g \in FrameType : g = f => DisconnectKnows(g)'
      <4> SUFFICES ASSUME NEW g \in FrameType, g = f, NEW h \in FrameType, h = stack[t][2]
                   PROVE  DisconnectKnows(g)'
        BY <1>3
      <4>1. DisconnectKnows(h)' /\ h.step = "destroy"
        BY <1>3
      <4>2. /\ g.step = "deleted" /\ g.mod = h.mod /\ g.inst = h.inst /\ g.ptr = h.ptr
        BY <2>1
      <4>. QED
        BY <4>1, <4>2 DEF DisconnectKnows, Releasing, Ending
    <3>. QED
      BY <2>1, <2>6, <2>7, <2>8, <3>1
  <2>9. CASE k # 1
    BY <2>2, <2>3, <2>6, <2>7, <2>9
  <2>. QED
    BY <2>8, <2>9
<1>. QED
  BY <1>1, <1>2, <1>3, DisconnectReturnsTo

(* Disconnect counts what it releases; at zero the call begins to destroy   *)
(* the instance, which nobody refers to any more.                           *)
LEMMA CountDownUndisturbed ==
  ASSUME TypeOK, Formed, Undisturbed, NEW t \in Thread, CountDown(t), ~raced'
  PROVE  Undisturbed'
<1> SUFFICES ASSUME NEW p, p = Top(t).ptr, NEW i, i = Top(t).inst,
                    NEW c, c = (Top(t).val + CountMod - 1) % CountMod
             PROVE  Undisturbed'
  OBVIOUS
<1> DEFINE f == [Top(t) EXCEPT !.step = "destroy"]
<1>1. /\ stack[t] # <<>> /\ Top(t).step = "drop" /\ Top(t).step \notin Calling
      /\ p \in Slot /\ i \in Instance /\ mem' = [mem EXCEPT ![p].count = c]
      /\ c = 0 => /\ f \in FrameType /\ f.step = "destroy" /\ f.mod = Top(t).mod
                  /\ f.inst = Top(t).inst /\ f.ptr = p /\ Step(t, f)
      /\ c # 0 => DisconnectReturns(t)
  BY CountDownForm
<1>2. UNCHANGED <<size, libs, sinst, alive, refs, holds>>
  BY DEF CountDown, DropTo
<1> HIDE DEF f
<1>3. /\ p \in 1..size /\ mem[p].inst = i /\ Top(t).val = mem[p].count
      /\ Top(t).mod = i[1] /\ mem[p].count = References(i) /\ mem[p].mod = Top(t).mod
  BY <1>1, TopKnows DEF DisconnectKnows, Undisturbed, Listed, Counted, Releasing
<1>4. /\ c = 0 => /\ Keeps(t, 1, 1) /\ stack'[t][1] = f /\ stack'[t] # <<>>
                  /\ Head(stack'[t]) = f
      /\ Apart' /\ \A u \in Thread : u # t => stack'[u] = stack[u]
      /\ \E n, d \in {0, 1, 2} : Keeps(t, n, d)
      /\ \A j : ~Releases(stack'[t], j)
  <2>1. CASE c = 0
    BY <1>1, <2>1, Stepped DEF Keeps, Releases, Releasing
  <2>2. CASE c # 0
    <3>1. \A g \in FrameType : [g EXCEPT !.step = "deleted"].step \notin Releasing
      BY DEF FrameType, Releasing
    <3>. QED
      BY <1>1, <2>2, <3>1, DisconnectReturnsTo DEF Keeps, Releases
  <2>. QED
    BY <2>1, <2>2
<1>5. /\ References(i)' = References(i) - 1 /\ References(i) \in Nat \ {0}
      /\ \A j \in Instance : j # i => References(j)' = References(j)
  <2>1. \A j : Holding(j)' = Holding(j) /\ Using(j)' = Using(j)
    BY <1>2 DEF Holding, Using
  <2>2. t \in Pending(i) /\ \A j : j # i => t \notin Pending(j)
    BY <1>1 DEF Pending, Releases, Releasing, Top
  <2>3. \A j : Pending(j)' = Pending(j) \ {t}
    BY <1>4, PendingStep
  <2>4. \A j \in Instance : j # i => References(j)' = References(j)
    BY <2>1, <2>2, <2>3, ReferencesSame
  <2>5. Cardinality(Pending(i)') = Cardinality(Pending(i)) - 1
    BY <2>2, <2>3, ReferenceSets, FS_RemoveElement
  <2>6. Cardinality(Pending(i)) # 0
    BY <2>2, ReferenceSets, FS_EmptySet
  <2>. QED
    BY <2>1, <2>4, <2>5, <2>6, ReferenceSets, Finite DEF References
<1>6. c = References(i)'
  <2>1. /\ Top(t).val = References(i) /\ References(i) \in 1..(CountMod - 1)
    BY <1>3, <1>5, ReferenceSets
  <2>2. c = References(i) - 1
    <3>1. \A n \in Nat \ {0} : \A v \in 1..(n - 1) : (v + n - 1) % n = v - 1
      OBVIOUS
    <3>. QED
      BY <2>1, <3>1, Finite
  <2>. QED
    BY <1>5, <2>2
<1>7. /\ \A q \in Slot : /\ mem'[q].mod = mem[q].mod /\ mem'[q].inst = mem[q].inst
                         /\ q # p => mem'[q] = mem[q]
      /\ mem'[p].count = c /\ 1..size \subseteq Slot
  BY <1>1, Types DEF TypeOK
<1>8. /\ \A n : Cached(n)' <=> Cached(n)
      /\ \A j : Known(j)' <=> Known(j)
  BY <1>2, <1>7 DEF Cached, Known
<1>9. \A q \in 1..size : mem[q].inst = i => q = p
  BY <1>3 DEF Undisturbed, Listed
<1>10. ASSUME NEW u \in Thread, NEW k \in Depth(u)
       PROVE  /\ stack[u][k].step \notin Building
              /\ stack[u][k].step \in Ending => u = t /\ stack[u][k].inst # i
  <2>1. stack[u][k] \in FrameType
    BY Frames
  <2>2. CASE u = t
    <3>1. stack[u][k].step \notin Building
      BY <1>1, <2>2, DisconnectFrames, KindsApart
    <3>2. stack[u][k].step \in Ending => stack[u][k].inst # i
      <4> SUFFICES ASSUME stack[u][k].step \in Ending, stack[u][k].inst = i
                   PROVE  FALSE
        OBVIOUS
      <4>1. PICK q \in 1..size : mem[q].inst = i /\ mem[q].count = 0
        BY DEF Undisturbed, Disconnecting, DisconnectKnows
      <4>. QED
        BY <1>3, <1>5, <1>9, <4>1
    <3>. QED
      BY <2>2, <3>1, <3>2
  <2>3. CASE u # t
    BY <1>1, <1>2, <2>1, <2>3, OthersCount
  <2>. QED
    BY <2>2, <2>3
<1>11. Lives(mem[p])
  <2>1. ~Leaving(i)
    BY <1>10 DEF Leaving
  <2>. QED
    BY <1>3, <2>1 DEF Undisturbed, Living
<1>12. Listed'
  BY <1>2, <1>7 DEF Undisturbed, Listed
<1>13. Counted'
  <2>1. \A q \in 1..size : mem[q].inst \in Instance
    BY Types DEF Formed, Filled
  <2>2. \A q \in 1..size : \A j \in Instance : j = mem[q].inst => mem'[q].count = References(j)'
    <3> SUFFICES ASSUME NEW q \in 1..size, NEW j \in Instance, j = mem[q].inst
                 PROVE  mem'[q].count = References(j)'
      OBVIOUS
    <3>1. CASE q = p
      BY <1>3, <1>6, <1>7, <3>1
    <3>2. CASE q # p
      <4>1. References(j)' = References(j)
        BY <1>5, <1>9, <3>2
      <4>. QED
        BY <1>7, <3>2, <4>1 DEF Undisturbed, Counted
    <3>. QED
      BY <3>1, <3>2
  <2>3. \A q \in 1..size' : mem'[q].count = References(mem[q].inst)'
    BY <1>2, <1>7, <2>1, <2>2 DEF References, Holding, Using, Pending
  <2>4. \A j \in Instance : References(j)' # 0 => Known(j)'
    <3>1. Known(i)
      BY <1>3 DEF Known
    <3>. QED
      BY <1>5, <1>8, <3>1 DEF Undisturbed, Counted
  <2>. QED
    BY <2>3, <2>4 DEF Counted
<1>14. \A k \in Depth(t) : \A g \in FrameType :
         k # 1 /\ g = stack[t][k] => DisconnectKnows(g)'
  <2> SUFFICES ASSUME NEW k \in Depth(t), NEW g \in FrameType, k # 1, g = stack[t][k]
               PROVE  DisconnectKnows(g)'
    OBVIOUS
  <2>1. DisconnectKnows(g) /\ g.step = "destroy"
    BY <1>1, DisconnectFrames DEF Undisturbed, Disconnecting
  <2>2. /\ g.ptr # p /\ g.ptr \in Slot
        /\ \E q \in 1..size : q # p /\ mem[q] = mem[g.ptr]
    <3>1. mem[g.ptr].count = 0 /\ mem[p].count # 0
      BY <1>3, <1>5, <2>1 DEF DisconnectKnows, Ending
    <3>2. g.ptr \in Slot
      BY <2>1 DEF Formed, FramesFilled, FrameFilled, Pointing, Ending
    <3>. QED
      BY <2>1, <3>1, <3>2 DEF DisconnectKnows, Ending
  <2>3. mem'[g.ptr] = mem[g.ptr] /\ \E q \in 1..size' : mem'[q] = mem'[g.ptr]
    BY <1>2, <1>7, <2>2
  <2>. QED
    BY <1>2, <2>1, <2>3 DEF DisconnectKnows, Releasing, Ending
<1>15. ASSUME NEW u \in Thread, u # t, NEW k \in Depth(u)', NEW g, g = stack'[u][k]
       PROVE  /\ g \in FrameType /\ g.step \notin Building \cup Ending
              /\ ConnectKnows(g)' /\ DisconnectKnows(g)'
  <2>1. k \in Depth(u) /\ g = stack[u][k] /\ g \in FrameType
    BY <1>4, <1>15, Frames DEF Depth
  <2>. QED
    BY <1>1, <1>2, <1>15, <2>1, OthersCount
<1>16. ASSUME NEW k \in Depth(t)', NEW g, g = stack'[t][k]
       PROVE  /\ g \in FrameType /\ g.step \in {"destroy", "deleted"}
              /\ DisconnectKnows(g)'
              /\ g.inst \in alive' <=> k = 1 /\ g.step = "destroy"
              /\ \A j \in Depth(t)' : stack'[t][j].inst = g.inst => j = k
  <2>1. CASE c # 0
    <3>1. /\ stack'[t][k] \in FrameType /\ stack'[t][k].step \in {"destroy", "deleted"}
          /\ \A h \in FrameType : h = stack'[t][k] => DisconnectKnows(h)'
          /\ stack'[t][k].inst \notin alive'
          /\ k = 1 => stack'[t][k].step = "deleted"
          /\ \A j \in Depth(t)' : stack'[t][j].inst = stack'[t][k].inst => j = k
      BY <1>1, <1>2, <1>14, <2>1, DisconnectReturnsFrames
    <3>. QED
      BY <1>16, <3>1
  <2>2. CASE c = 0
    <3>1. /\ k \in Depth(t) /\ f.inst = i
          /\ \A j \in Depth(t)' : j # 1 => j \in Depth(t) /\ stack'[t][j] = stack[t][j]
      <4>1. Len(stack'[t]) = Len(stack[t]) /\ Len(stack[t]) \in Nat /\ f.inst = i
        BY <1>1, <1>4, <2>2, Frames DEF Keeps
      <4>2. \A j \in 1..Len(stack[t]) : j # 1 => j > 1 /\ j - 1 + 1 = j
        OBVIOUS
      <4>3. \A j \in Depth(t)' : j # 1 => j \in Depth(t) /\ stack'[t][j] = stack[t][j]
        BY <1>4, <2>2, <4>1, <4>2 DEF Keeps, Depth
      <4>. QED
        BY <4>1, <4>3 DEF Depth
    <3>2. CASE k = 1
      <4>1. g = f /\ f.step = "destroy" /\ f.mod = i[1] /\ f.ptr = p /\ f \in FrameType
        BY <1>1, <1>3, <1>4, <1>16, <2>2, <3>2
      <4>2. /\ mem'[p].inst = i /\ mem'[p].count = 0 /\ p \in 1..size'
            /\ sinst[i[1]] = i /\ libs[i[1]] = 1 /\ i \in alive
        BY <1>1, <1>2, <1>3, <1>7, <1>11, <2>2 DEF Lives
      <4>3. DisconnectKnows(g)'
        BY <1>2, <3>1, <4>1, <4>2 DEF DisconnectKnows, Releasing, Ending
      <4>4. \A j \in Depth(t)' : stack'[t][j].inst = i => j = 1
        <5>1. \A j \in Depth(t) : j # 1 => stack[t][j].inst # i
          BY <1>1, <1>10, DisconnectFrames DEF Ending
        <5>. QED
          BY <3>1, <5>1
      <4>. QED
        BY <1>2, <3>1, <3>2, <4>1, <4>2, <4>3, <4>4
    <3>3. CASE k # 1
      <4>1. g = stack[t][k] /\ g \in FrameType /\ g.step = "destroy"
        BY <1>1, <1>16, <3>1, <3>3, Frames, DisconnectFrames
      <4>2. g.inst # i /\ g.inst \notin alive
        BY <1>10, <3>1, <3>3, <4>1 DEF Undisturbed, Disconnecting, Ending
      <4>3. DisconnectKnows(g)'
        BY <1>14, <3>1, <3>3, <4>1
      <4>4. \A j \in Depth(t)' : stack'[t][j].inst = g.inst => j = k
        <5>1. \A j \in Depth(t) : j # 1 /\ stack[t][j].inst = g.inst => j = k
          BY <1>1, <3>1, <4>1, DisconnectFrames DEF Undisturbed, Disconnecting, Ending
        <5>2. stack'[t][1].inst = i
          BY <1>4, <2>2, <3>1
        <5>. QED
          BY <3>1, <4>2, <5>1, <5>2
      <4>. QED
        BY <1>2, <3>3, <4>1, <4>2, <4>3, <4>4
    <3>. QED
      BY <3>2, <3>3
  <2>. QED
    BY <2>1, <2>2
<1>17. /\ \A j : Leaving(j) => Leaving(j)'
       /\ c = 0 => Leaving(i)'
  <2>1. c = 0 => Leaving(i)'
    <3>1. c = 0 => 1 \in Depth(t)' /\ stack'[t][1].step \in Ending /\ stack'[t][1].inst = i
      <4>1. stack[t] # <<>> => 1 \in Depth(t)
        BY TopFrame
      <4>. QED
        BY <1>1, <1>4, <4>1 DEF Ending, Keeps, Depth
    <3>. QED
      BY <3>1 DEF Leaving
  <2> SUFFICES ASSUME NEW j, NEW k \in Depth(t), stack[t][k].step \in Ending,
                      stack[t][k].inst = j
               PROVE  Leaving(j)'
    BY <1>10, <2>1 DEF Leaving
  <2>2. k # 1
    BY <1>1, TopFrame DEF Ending
  <2>3. CASE c # 0
    <3>1. \A h \in Depth(t) : h # 1 => \E n \in Depth(t)' :
            stack'[t][n].step \in Ending /\ stack'[t][n].inst = stack[t][h].inst
      BY <1>1, <1>2, <1>14, <2>3, DisconnectReturnsFrames
    <3>. QED
      BY <2>2, <3>1 DEF Leaving
  <2>4. CASE c = 0
    <3>1. k \in Depth(t)' /\ stack'[t][k] = stack[t][k]
      BY <1>4, <2>2, <2>4 DEF Keeps, Depth
    <3>. QED
      BY <3>1 DEF Leaving
  <2>. QED
    BY <2>3, <2>4
<1>18. Living'
  <2> SUFFICES ASSUME NEW q \in 1..size, NEW j, j = mem[q].inst
               PROVE  Leaving(j)' \/ Lives(mem[q])'
    BY <1>2, <1>7 DEF Living, Leaving
  <2>1. CASE q = p
    <3>1. c # 0 => c > 0
      BY <1>5, <1>6, NewReferenceSets
    <3>. QED
      BY <1>2, <1>3, <1>7, <1>11, <1>17, <2>1, <3>1 DEF Lives
  <2>2. CASE q # p
    <3>1. Leaving(j) \/ Lives(mem[q])
      BY DEF Undisturbed, Living
    <3>. QED
      BY <1>2, <1>7, <1>17, <2>2, <3>1 DEF Lives
  <2>. QED
    BY <2>1, <2>2
<1>19. Connecting'
  <2> SUFFICES ASSUME NEW u \in Thread, NEW k \in Depth(u)', NEW g, g = stack'[u][k]
               PROVE  ConnectKnows(g)' /\ g.step \notin Building
    BY DEF Connecting, ConnectKnows, Building
  <2>1. CASE u = t
    <3>1. g.step \in {"destroy", "deleted"}
      BY <1>16, <2>1
    <3>. QED
      BY <3>1 DEF ConnectKnows, Building
  <2>. QED
    BY <1>15, <2>1
<1>20. Disconnecting'
  <2> SUFFICES ASSUME NEW u \in Thread, NEW k \in Depth(u)', NEW g, g = stack'[u][k]
               PROVE  /\ DisconnectKnows(g)'
                      /\ g.step \in Ending =>
                           /\ g.inst \in alive' <=> k = 1 /\ g.step = "destroy"
                           /\ \A j \in Depth(u)' : stack'[u][j].inst = g.inst => j = k
    BY DEF Disconnecting, DisconnectKnows
  <2>. QED
    BY <1>15, <1>16
<1>21. Unlisted'
  <2>1. ASSUME NEW u \in Thread, At(u, "push") \/ At(u, "made")
        PROVE  FALSE
    <3>1. 1 \in Depth(u) /\ stack[u][1].step \in Building
      BY <2>1, TopFrame DEF At, Building
    <3>. QED
      BY <1>10, <3>1
  <2>2. (\A j : ~Adding(j) /\ ~Making(j)) /\ \A n : ~Loading(n)
    BY <1>10, <2>1 DEF Adding, Making, Loading
  <2>. QED
    BY <1>2, <1>8, <2>2 DEF Undisturbed, Unlisted
<1>. QED
  BY <1>4, <1>12, <1>13, <1>18, <1>19, <1>20, <1>21 DEF Undisturbed

(* A call of Connect that loads or creates has the manager for itself.      *)
LEMMA AloneInConnect ==
  ASSUME TypeOK, Formed, Undisturbed, NEW t \in Thread, stack[t] # <<>>,
         Top(t).step \in {"load"} \cup Building
  PROVE  /\ \A u \in Thread : u # t => stack[u] = <<>>
         /\ ~Cached(Top(t).mod) /\ Top(t).mod \in Module
         /\ \A u \in Thread : \A k \in Depth(u) : u = t /\ stack[u][k].step \in Calling
         /\ \A i : ~Leaving(i)
         /\ \A i : Adding(i) => Top(t).step = "push" /\ Top(t).inst = i
         /\ \A i : Making(i) => Top(t).step = "made" /\ Top(t).inst = i
<1>1. \A u \in Thread : u # t => stack[u] = <<>>
  BY OthersIdle DEF Undisturbed
<1>2. ~Cached(Top(t).mod)
  BY TopKnows DEF ConnectKnows
<1>3. Top(t).step \in Calling
  BY DEF Calling, Building
<1>4. \A u \in Thread : \A k \in Depth(u) : u = t /\ stack[u][k].step \in Calling
  BY <1>1, <1>3, Frames, ConnectFrames DEF Depth
<1>5. \A i : ~Leaving(i)
  BY <1>4, KindsApart DEF Leaving
<1>6. /\ \A i : Adding(i) => Top(t).step = "push" /\ Top(t).inst = i
      /\ \A i : Making(i) => Top(t).step = "made" /\ Top(t).inst = i
  BY <1>1 DEF Adding, Making, At
<1>. QED
  BY <1>1, <1>2, <1>4, <1>5, <1>6, TopFilled

(* A step of loading or creating that leaves the vector alone.              *)
LEMMA BuildingGoesOn ==
  ASSUME TypeOK, Formed, Undisturbed, NEW t \in Thread, stack[t] # <<>>,
         Top(t).step \in {"load", "made"}, NEW f \in FrameType, f.step \in Building,
         f.mod = Top(t).mod, Step(t, f), ~raced',
         UNCHANGED <<mem, size, holds, refs>>, alive \subseteq alive',
         \A n \in Module : n # f.mod => sinst'[n] = sinst[n] /\ libs'[n] = libs[n],
         ConnectKnows(f)', Alone(t, 1)' => libs'[f.mod] = 1,
         \A k \in Depth(t) : \A g \in FrameType :
           k # 1 /\ g = stack[t][k] => ConnectKnows(g)'
  PROVE  /\ Apart' /\ Listed' /\ Counted' /\ Living' /\ Connecting' /\ Disconnecting'
         /\ stack'[t] # <<>> /\ Top(t)' = f /\ 1 \in Depth(t)' /\ stack'[t][1] = f
         /\ \A k \in Depth(t) : k # 1 => k \in Depth(t)' /\ stack'[t][k] = stack[t][k]
<1>1. /\ \A u \in Thread : u # t => stack[u] = <<>>
      /\ ~Cached(f.mod) /\ f.mod \in Module /\ \A i : ~Leaving(i)
  BY AloneInConnect DEF Building
<1>2. /\ Keeps(t, 1, 1) /\ Apart' /\ stack'[t] # <<>> /\ stack'[t][1] = f
      /\ Top(t)' = f
  BY Stepped DEF Top
<1>3. /\ Top(t) = stack[t][1] /\ Len(stack[t]) \in Nat \ {0} /\ 1 \in Depth(t)
      /\ Top(t).step \in Calling
  BY TopFrame DEF Calling
<1>4. /\ \A u \in Thread : u # t => stack'[u] = <<>>
      /\ Depth(t)' = Depth(t)
      /\ \A k \in Depth(t) : k # 1 => stack'[t][k] = stack[t][k]
  <2>1. Len(stack'[t]) = Len(stack[t])
    BY <1>2, <1>3 DEF Keeps
  <2>2. \A k \in 1..Len(stack[t]) : k # 1 => k > 1 /\ k - 1 + 1 = k
    OBVIOUS
  <2>. QED
    BY <1>1, <1>2, <2>1, <2>2 DEF Keeps, Depth
<1>5. \A i \in Instance : References(i)' = References(i)
  <2> SUFFICES ASSUME NEW i \in Instance
               PROVE  References(i)' = References(i)
    OBVIOUS
  <2>1. Pending(i)' = Pending(i)
    <3>1. ~Releases(stack'[t], i) /\ ~Releases(stack[t], i)
      BY <1>2, <1>3, KindsApart DEF Releases, Top
    <3>. QED
      BY <1>2, <3>1, PendingSame
  <2>2. Holding(i)' = Holding(i) /\ Using(i)' = Using(i)
    BY DEF Holding, Using
  <2>. QED
    BY <2>1, <2>2, ReferencesSame
<1>6. Listed'
  BY DEF Undisturbed, Listed
<1>7. Counted'
  <2>1. \A i : Known(i)' <=> Known(i)
    BY DEF Known
  <2>. QED
    BY <1>5, <2>1, Types DEF Undisturbed, Counted, Formed, Filled
<1>8. Living'
  <2> SUFFICES ASSUME NEW p \in 1..size
               PROVE  Lives(mem[p])'
    BY DEF Living
  <2>1. Lives(mem[p])
    BY <1>1 DEF Undisturbed, Living
  <2>2. mem[p].mod # f.mod /\ mem[p].mod \in Module
    BY <1>1, Types DEF Cached, Formed, Filled
  <2>. QED
    BY <2>1, <2>2 DEF Lives
<1>9. Connecting'
  <2> SUFFICES ASSUME NEW u \in Thread, NEW k \in Depth(u)', NEW g, g = stack'[u][k]
               PROVE  /\ ConnectKnows(g)'
                      /\ g.step \in Building /\ Alone(u, k)' => libs'[g.mod] = 1
                      /\ k # 1 /\ g.step = "create" => stack'[u][k - 1].mod = Needs[g.mod]
    BY DEF Connecting, ConnectKnows
  <2>1. u = t /\ k \in Depth(t)
    BY <1>4 DEF Depth
  <2>2. CASE k = 1
    BY <1>2, <2>1, <2>2
  <2>3. CASE k # 1
    <3>1. g = stack[t][k] /\ g \in FrameType /\ g.mod \in Module /\ k \in Depth(t)
      BY <1>4, <2>1, <2>3, Frames DEF FrameType
    <3>2. g.step \in Building /\ Alone(t, k)' => libs'[g.mod] = 1
      <4> SUFFICES ASSUME g.step \in Building, Alone(t, k)'
                   PROVE  libs'[g.mod] = 1
        OBVIOUS
      <4>1. g.mod # f.mod
        BY <1>2, <1>3, <1>4, <2>1, <2>3 DEF Alone
      <4>2. Alone(t, k)
        BY <1>3, <1>4, <2>1, <3>1, <4>1 DEF Alone
      <4>. QED
        BY <3>1, <4>1, <4>2 DEF Undisturbed, Connecting
    <3>3. g.step = "create" => stack'[t][k - 1].mod = Needs[g.mod]
      <4>1. k - 1 \in Depth(t)
        BY <1>3, <2>3, <3>1 DEF Depth
      <4>2. stack'[t][k - 1].mod = stack[t][k - 1].mod
        BY <1>2, <1>3, <1>4, <4>1
      <4>. QED
        BY <2>1, <2>3, <3>1, <4>2 DEF Undisturbed, Connecting
    <3>. QED
      BY <2>1, <2>3, <3>1, <3>2, <3>3
  <2>. QED
    BY <2>2, <2>3
<1>10. Disconnecting'
  <2> SUFFICES ASSUME NEW k \in Depth(t), NEW g, g = stack'[t][k]
               PROVE  g.step \in Calling /\ g.step \notin Releasing \cup Ending
    BY <1>4 DEF Disconnecting, DisconnectKnows, Releasing, Ending, Depth
  <2>1. g.step \in Calling
    BY <1>2, <1>3, <1>4, ConnectFrames, KindsApart
  <2>. QED
    BY <2>1, KindsApart
<1>. QED
  BY <1>2, <1>3, <1>4, <1>6, <1>7, <1>8, <1>9, <1>10

(* The library is loaded once, unless constructors need each other in a     *)
(* circle: then none of them ever returns.                                  *)
LEMMA LoadLibraryUndisturbed ==
  ASSUME TypeOK, Formed, Undisturbed, NEW t \in Thread, LoadLibrary(t), ~raced'
  PROVE  Undisturbed'
<1>1. PICK f \in FrameType :
        LET m == Top(t).mod
        IN  /\ m \in Module /\ f.mod = m /\ f.inst \in Instance
            /\ libs' = [libs EXCEPT ![m] = @ + 1]
            /\ \/ sinst[m] # NoInst /\ f.step = "push" /\ f.inst = sinst[m]
               \/ sinst[m] = NoInst /\ f.step = "create" /\ f.inst[1] = m
            /\ stack[t] # <<>> /\ Top(t).step = "load" /\ Step(t, f)
  BY LoadLibraryForm
<1>2. /\ \A u \in Thread : u # t => stack[u] = <<>>
      /\ ~Cached(f.mod) /\ f.mod \in Module /\ \A i : ~Adding(i) /\ ~Making(i)
  BY <1>1, AloneInConnect
<1>3. sinst[f.mod] = NoInst /\ f.step = "create" /\ f.inst[1] = f.mod
  BY <1>1, <1>2 DEF Undisturbed, Unlisted
<1>4. /\ UNCHANGED <<mem, size, sinst, alive, refs, holds>>
      /\ \A n \in Module : n # f.mod => libs'[n] = libs[n]
      /\ libs'[f.mod] = libs[f.mod] + 1
  BY <1>1 DEF LoadLibrary, TypeOK
<1>5. f.inst \notin alive
  <2>1. ~Known(f.inst)
    BY <1>2, <1>3 DEF Known, Cached, Undisturbed, Listed
  <2>. QED
    BY <1>2, <2>1 DEF Undisturbed, Unlisted
<1>6. \A n : Cached(n)' <=> Cached(n)
  BY <1>4 DEF Cached
<1>7. ConnectKnows(f)'
  BY <1>2, <1>3, <1>4, <1>5, <1>6 DEF ConnectKnows
<1>8. \A k \in Depth(t) : \A g \in FrameType :
        k # 1 /\ g = stack[t][k] => ConnectKnows(g)'
  <2>1. \A g \in FrameType : ConnectKnows(g) => ConnectKnows(g)'
    BY <1>4, <1>6 DEF ConnectKnows
  <2>. QED
    BY <2>1 DEF Undisturbed, Connecting
<1>9. /\ stack'[t][1] = f /\ 1 \in Depth(t)' /\ stack'[t] # <<>>
      /\ \A k \in Depth(t) : k # 1 => k \in Depth(t)' /\ stack'[t][k] = stack[t][k]
  <2>1. Keeps(t, 1, 1) /\ stack'[t][1] = f /\ stack'[t] # <<>>
    BY <1>1, Stepped
  <2>2. Len(stack'[t]) = Len(stack[t]) /\ Len(stack[t]) \in Nat \ {0}
    BY <1>1, <2>1, TopFrame DEF Keeps
  <2>3. \A k \in 1..Len(stack[t]) : k # 1 => k > 1 /\ k - 1 + 1 = k
    OBVIOUS
  <2>. QED
    BY <2>1, <2>2, <2>3 DEF Keeps, Depth
<1>10. Alone(t, 1)' => libs'[f.mod] = 1
  <2> SUFFICES ASSUME Alone(t, 1)'
               PROVE  libs[f.mod] = 0
    BY <1>4
  <2>1. ~Loading(f.mod)
    <3>1. Top(t) = stack[t][1] /\ stack[t][1].step \notin Building
      BY <1>1, TopFrame DEF Building
    <3> SUFFICES ASSUME NEW k \in Depth(t), stack[t][k].step \in Building,
                        stack[t][k].mod = f.mod
                 PROVE  FALSE
      BY <1>2, Frames DEF Loading, Depth
    <3>2. k # 1
      BY <3>1
    <3>3. k \in Depth(t)' /\ stack'[t][k] = stack[t][k]
      BY <1>9, <3>2
    <3>. QED
      BY <1>9, <3>2, <3>3 DEF Alone
  <2>. QED
    BY <1>2, <2>1 DEF Undisturbed, Unlisted
<1>11. /\ Apart' /\ Listed' /\ Counted' /\ Living' /\ Connecting' /\ Disconnecting'
  <2>1. f.step \in Building /\ alive \subseteq alive'
    BY <1>3, <1>4 DEF Building
  <2>. QED
    BY <1>1, <1>4, <1>7, <1>8, <1>10, <2>1, BuildingGoesOn
<1>12. Unlisted'
  <2>1. Loading(f.mod)'
    BY <1>3, <1>9 DEF Loading, Building
  <2>2. \A n : Loading(n) => Loading(n)'
    <3> SUFFICES ASSUME NEW n, NEW k \in Depth(t), stack[t][k].step \in Building,
                        stack[t][k].mod = n
                 PROVE  Loading(n)'
      BY <1>2, Frames DEF Loading, Depth
    <3>1. k # 1
      BY <1>1, TopFrame DEF Building
    <3>. QED
      BY <1>9, <3>1 DEF Loading
  <2>. QED
    BY <1>2, <1>4, <1>6, <2>1, <2>2 DEF Undisturbed, Unlisted, Known
<1>. QED
  BY <1>11, <1>12 DEF Undisturbed

(* The new object is the library's singleton.                               *)
LEMMA ConstructedUndisturbed ==
  ASSUME TypeOK, Formed, Undisturbed, NEW t \in Thread, Constructed(t), ~raced'
  PROVE  Undisturbed'
<1> SUFFICES ASSUME NEW i, i = Top(t).inst,
                    NEW f, f = [Top(t) EXCEPT !.step = "push"]
             PROVE  Undisturbed'
  OBVIOUS
<1>1. /\ f \in FrameType /\ f.step = "push" /\ f.mod = Top(t).mod
      /\ f.inst = i /\ f.mod \in Module /\ i \in Instance
      /\ stack[t] # <<>> /\ Top(t).step = "made" /\ Step(t, f)
  BY ConstructedForm
<1>2. /\ \A u \in Thread : u # t => stack[u] = <<>>
      /\ ~Cached(f.mod) /\ \A j : ~Adding(j)
      /\ \A j : Making(j) => j = i
  BY <1>1, AloneInConnect DEF Building
<1>3. /\ UNCHANGED <<mem, size, libs, refs, holds>>
      /\ alive' = alive \cup {i}
      /\ sinst' = [sinst EXCEPT ![f.mod] = i]
  BY <1>1 DEF Constructed
<1>4. /\ \A n \in Module : n # f.mod => sinst'[n] = sinst[n]
      /\ sinst'[f.mod] = i
  BY <1>1, <1>3 DEF TypeOK
<1>5. /\ i[1] = f.mod /\ (Needs[f.mod] = None \/ Cached(Needs[f.mod]))
  BY <1>1, TopKnows DEF ConnectKnows, Building
<1>6. \A n : Cached(n)' <=> Cached(n)
  BY <1>3 DEF Cached
<1>7. ConnectKnows(f)'
  BY <1>1, <1>2, <1>3, <1>4, <1>5, <1>6 DEF ConnectKnows, Building
<1>8. \A k \in Depth(t) : k # 1 => stack[t][k].mod # f.mod
  BY <1>1, NotBelow
<1>9. \A k \in Depth(t) : \A g \in FrameType :
        k # 1 /\ g = stack[t][k] => ConnectKnows(g)'
  <2> SUFFICES ASSUME NEW k \in Depth(t), NEW g \in FrameType, k # 1, g = stack[t][k]
               PROVE  ConnectKnows(g)'
    OBVIOUS
  <2>1. g.step = "create" /\ ConnectKnows(g) /\ g.mod # f.mod /\ g.mod \in Module
    <3>1. Top(t).step \in Calling
      BY <1>1 DEF Calling
    <3>. QED
      BY <1>1, <1>8, <3>1, ConnectFrames DEF Undisturbed, Connecting, FrameType
  <2>2. g.inst # i
    BY <1>5, <2>1 DEF ConnectKnows, Building
  <2>. QED
    BY <1>3, <1>4, <1>6, <2>1, <2>2 DEF ConnectKnows, Building
<1>10. libs'[f.mod] = 1
  <2>1. Top(t) = stack[t][1] /\ 1 \in Depth(t)
    BY <1>1, TopFrame
  <2>2. Alone(t, 1)
    BY <1>1, <1>8, <2>1 DEF Alone
  <2>. QED
    BY <1>1, <1>3, <2>1, <2>2 DEF Undisturbed, Connecting, Building
<1>11. /\ Apart' /\ Listed' /\ Counted' /\ Living' /\ Connecting' /\ Disconnecting'
       /\ stack'[t] # <<>> /\ Top(t)' = f /\ 1 \in Depth(t)' /\ stack'[t][1] = f
       /\ \A k \in Depth(t) : k # 1 => k \in Depth(t)' /\ stack'[t][k] = stack[t][k]
  <2>1. f.step \in Building /\ alive \subseteq alive'
    BY <1>1, <1>3 DEF Building
  <2>2. \A n \in Module : n # f.mod => sinst'[n] = sinst[n] /\ libs'[n] = libs[n]
    BY <1>3, <1>4
  <2>. QED
    BY <1>1, <1>3, <1>7, <1>9, <1>10, <2>1, <2>2, BuildingGoesOn
<1>12. Unlisted'
  <2>1. Adding(i)'
    BY <1>1, <1>11 DEF Adding, At
  <2>2. \A n : Loading(n) => Loading(n)'
    <3> SUFFICES ASSUME NEW n, NEW k \in Depth(t), stack[t][k].step \in Building,
                        stack[t][k].mod = n
                 PROVE  Loading(n)'
      BY <1>2, Frames DEF Loading, Depth
    <3>1. CASE k = 1
      <4>1. f.mod = n /\ f.step \in Building
        BY <1>1, <3>1, TopFrame DEF Building
      <4>. QED
        BY <1>11, <4>1 DEF Loading
    <3>2. CASE k # 1
      BY <1>11, <3>2 DEF Loading
    <3>. QED
      BY <3>1, <3>2
  <2>3. \A n \in Module : /\ ~Cached(n)' => sinst'[n] = NoInst \/ Adding(sinst[n])'
                          /\ sinst'[n] # NoInst => sinst'[n][1] = n
    <3> SUFFICES ASSUME NEW n \in Module, NEW j, j = sinst'[n]
                 PROVE  /\ ~Cached(n)' => j = NoInst \/ Adding(j)'
                        /\ j # NoInst => j[1] = n
      BY DEF Adding
    <3>1. CASE n = f.mod
      BY <1>4, <1>5, <2>1, <3>1
    <3>2. CASE n # f.mod
      BY <1>2, <1>4, <1>6, <3>2 DEF Undisturbed, Unlisted
    <3>. QED
      BY <3>1, <3>2
  <2>4. \A n \in Module : ~Cached(n)' => libs'[n] = 0 \/ Loading(n)'
    BY <1>3, <1>6, <2>2 DEF Undisturbed, Unlisted
  <2>5. \A j \in alive' : Known(j)' \/ Adding(j)'
    BY <1>2, <1>3, <2>1 DEF Undisturbed, Unlisted, Known
  <2>6. \A j \in Instance : refs'[j] = NoInst \/ j \in alive' \/ Making(j)'
    BY <1>2, <1>3 DEF Undisturbed, Unlisted
  <2>. QED
    BY <2>3, <2>4, <2>5, <2>6 DEF Unlisted
<1>. QED
  BY <1>11, <1>12 DEF Undisturbed

(* The new entry counts one, the reference that Connect hands out.          *)
LEMMA PushEntryUndisturbed ==
  ASSUME TypeOK, Formed, Undisturbed, NEW t \in Thread, PushEntry(t), ~raced'
  PROVE  Undisturbed'
<1> SUFFICES ASSUME NEW i, i = Top(t).inst, NEW m, m = Top(t).mod,
                    NEW e, e = [mod |-> m, count |-> 1, inst |-> i]
             PROVE  Undisturbed'
  OBVIOUS
<1>1. /\ stack[t] # <<>> /\ Top(t).step = "push" /\ Top(t).step \in Calling
      /\ m \in Module /\ i \in Instance
      /\ size' = size + 1 /\ size + 1 \in Slot
      /\ mem' = [mem EXCEPT ![size + 1] = e]
      /\ ConnectReturns(t, i)
  BY PushEntryForm
<1>2. UNCHANGED <<libs, sinst, alive>>
  BY DEF PushEntry
<1>3. /\ \A u \in Thread : u # t => stack[u] = <<>>
      /\ ~Cached(m) /\ \A j : ~Leaving(j) /\ ~Making(j)
      /\ \A j : Adding(j) => j = i
  BY <1>1, AloneInConnect DEF Building
<1>4. i[1] = m /\ i \in alive /\ sinst[m] = i
  BY <1>1, TopKnows DEF ConnectKnows, Building
<1>5. \A k \in Depth(t) : k # 1 => stack[t][k].mod # m
  BY <1>1, NotBelow
<1>6. libs[m] = 1
  <2>1. Top(t) = stack[t][1] /\ 1 \in Depth(t)
    BY <1>1, TopFrame
  <2>2. Alone(t, 1)
    BY <1>1, <1>5, <2>1 DEF Alone
  <2>. QED
    BY <1>1, <2>1, <2>2 DEF Undisturbed, Connecting, Building
<1>7. ~Known(i)
  BY <1>3, <1>4 DEF Known, Cached, Undisturbed, Listed
<1>8. /\ References(i)' = 1
      /\ \A j \in Instance : j # i => References(j)' = References(j)
  <2>1. References(i) = 0
    BY <1>1, <1>7 DEF Undisturbed, Counted
  <2>. QED
    BY <1>1, <1>4, <2>1, ConnectReferences
<1>9. /\ size \in Nat /\ 1..size \subseteq Slot
      /\ \A q \in 1..size' : /\ q # size + 1 => q \in 1..size /\ mem'[q] = mem[q]
                             /\ q = size + 1 => mem'[q] = e
      /\ \A q \in 1..size : q \in 1..size' /\ q # size + 1 /\ mem'[q] = mem[q]
      /\ size + 1 \in 1..size'
      /\ e.mod = m /\ e.inst = i /\ e.count = 1
  <2>1. size \in Nat /\ 1..size \subseteq Slot
    BY Types
  <2>2. /\ \A q \in 1..(size + 1) : q # size + 1 => q \in 1..size
        /\ \A q \in 1..size : q \in 1..(size + 1) /\ q # size + 1
        /\ size + 1 \in 1..(size + 1)
    BY <2>1
  <2>. QED
    BY <1>1, <2>1, <2>2 DEF TypeOK
<1>10. /\ \A n : Cached(n)' <=> Cached(n) \/ n = m
       /\ \A j : Known(j)' <=> Known(j) \/ j = i
  BY <1>9 DEF Cached, Known
<1>11. Apart' /\ \A u \in Thread : u # t => stack'[u] = <<>>
  BY <1>1, <1>3, ConnectReturnsTo DEF Keeps
<1>12. Listed'
  BY <1>3, <1>4, <1>9 DEF Undisturbed, Listed, Cached
<1>13. Counted'
  <2>1. \A q \in 1..size : mem[q].inst \in Instance /\ mem[q].inst # i
    BY <1>7, Types DEF Formed, Filled, Known
  <2>2. \A q \in 1..size' : \A j \in Instance : j = mem'[q].inst => mem'[q].count = References(j)'
    BY <1>8, <1>9, <2>1 DEF Undisturbed, Counted
  <2>3. \A q \in 1..size' : mem'[q].inst \in Instance
    BY <1>1, <1>9, <2>1
  <2>4. \A q \in 1..size' : mem'[q].count = References(mem[q].inst)'
    BY <2>2, <2>3 DEF References, Holding, Using, Pending
  <2>5. \A j \in Instance : References(j)' # 0 => Known(j)'
    BY <1>8, <1>10 DEF Undisturbed, Counted
  <2>. QED
    BY <2>4, <2>5 DEF Counted
<1>14. Living'
  <2> SUFFICES ASSUME NEW q \in 1..size'
               PROVE  Lives(mem[q])'
    BY DEF Living
  <2>1. CASE q = size + 1
    BY <1>2, <1>4, <1>6, <1>9, <2>1 DEF Lives
  <2>2. CASE q # size + 1
    <3>1. Lives(mem[q]) /\ mem'[q] = mem[q]
      BY <1>3, <1>9, <2>2 DEF Undisturbed, Living
    <3>. QED
      BY <1>2, <3>1 DEF Lives
  <2>. QED
    BY <2>1, <2>2
<1>15. /\ \A k \in Depth(t)' :
            /\ stack'[t][k] \in FrameType /\ stack'[t][k].step \in {"create", "made"}
            /\ \A g \in FrameType : g = stack'[t][k] => ConnectKnows(g)'
            /\ Alone(t, k)' => libs[stack'[t][k].mod] = 1
            /\ k # 1 => stack'[t][k - 1].mod = Needs[stack'[t][k].mod]
       /\ \A k \in Depth(t) : k # 1 => \E j \in Depth(t)' :
            stack'[t][j].step \in Building /\ stack'[t][j].mod = stack[t][k].mod
  <2>1. Cached(m)'
    BY <1>10
  <2>2. \A g \in FrameType : g.step = "create" /\ ConnectKnows(g) /\ g.mod # Top(t).mod =>
          ConnectKnows(g)'
    BY <1>2, <1>10 DEF ConnectKnows, Building
  <2>. QED
    BY <1>1, <1>2, <2>1, <2>2, ConnectReturnsFrames
<1>16. Connecting'
  <2> SUFFICES ASSUME NEW u \in Thread, NEW k \in Depth(u)', NEW g, g = stack'[u][k]
               PROVE  /\ ConnectKnows(g)'
                      /\ g.step \in Building /\ Alone(u, k)' => libs'[g.mod] = 1
                      /\ k # 1 /\ g.step = "create" => stack'[u][k - 1].mod = Needs[g.mod]
    BY DEF Connecting, ConnectKnows
  <2>1. u = t
    BY <1>11 DEF Depth
  <2>. QED
    BY <1>2, <1>15, <2>1
<1>17. Disconnecting'
  <2> SUFFICES ASSUME NEW u \in Thread, NEW k \in Depth(u)', NEW g, g = stack'[u][k]
               PROVE  g.step \notin Releasing \cup Ending
    BY DEF Disconnecting, DisconnectKnows, Releasing, Ending
  <2>1. u = t
    BY <1>11 DEF Depth
  <2>2. g.step \in {"create", "made"}
    BY <1>15, <2>1
  <2>. QED
    BY <2>2 DEF Releasing, Ending
<1>18. Unlisted'
  <2>1. \A n : n # m /\ Loading(n) => Loading(n)'
    <3> SUFFICES ASSUME NEW n, n # m, NEW u \in Thread, NEW k \in Depth(u),
                        stack[u][k].step \in Building, stack[u][k].mod = n
                 PROVE  Loading(n)'
      BY DEF Loading
    <3>1. u = t
      BY <1>3, Frames DEF Depth
    <3>2. k # 1
      BY <1>1, <3>1, TopFrame
    <3>. QED
      BY <1>15, <3>1, <3>2 DEF Loading
  <2>2. \A n \in Module : /\ ~Cached(n)' => sinst'[n] = NoInst
                          /\ sinst'[n] # NoInst => sinst'[n][1] = n
    BY <1>2, <1>3, <1>4, <1>10 DEF Undisturbed, Unlisted
  <2>3. \A n \in Module : ~Cached(n)' => libs'[n] = 0 \/ Loading(n)'
    BY <1>2, <1>10, <2>1 DEF Undisturbed, Unlisted
  <2>4. \A j \in alive' : Known(j)'
    BY <1>2, <1>3, <1>10 DEF Undisturbed, Unlisted
  <2>5. \A j \in Instance : refs'[j] = NoInst \/ j \in alive' \/ Making(j)'
    <3>1. \A j \in Instance : refs[j] = NoInst \/ j \in alive'
      BY <1>2, <1>3 DEF Undisturbed, Unlisted
    <3>2. CASE refs' = refs
      BY <3>1, <3>2
    <3>3. CASE /\ 2 \in Depth(t) /\ stack[t][2] \in FrameType
               /\ refs' = [refs EXCEPT ![stack[t][2].inst] = i]
               /\ stack'[t] # <<>>
               /\ Head(stack'[t]) = [stack[t][2] EXCEPT !.step = "made"]
      <4> SUFFICES ASSUME NEW o \in Instance \cup {NoInst}, o = stack[t][2].inst,
                          NEW j \in Instance
                   PROVE  refs'[j] = NoInst \/ j \in alive' \/ Making(j)'
        BY <3>1, <3>3 DEF FrameType
      <4>1. Top(t)'.step = "made" /\ Top(t)'.inst = o
        BY <3>3 DEF Top, FrameType
      <4>2. Making(o)'
        BY <3>3, <4>1 DEF Making, At
      <4>3. CASE j = o
        BY <4>2, <4>3
      <4>4. CASE j # o
        BY <3>1, <3>3, <4>4 DEF TypeOK
      <4>. QED
        BY <4>3, <4>4
    <3>. QED
      BY <1>1, <3>2, <3>3, ConnectReturnsTo
  <2>. QED
    BY <2>2, <2>3, <2>4, <2>5 DEF Unlisted
<1>. QED
  BY <1>11, <1>12, <1>13, <1>14, <1>16, <1>17, <1>18 DEF Undisturbed

(* A call of Disconnect that destroys an instance has the manager for       *)
(* itself, and the entry that it points at is the module's.                 *)
LEMMA AloneInDisconnect ==
  ASSUME TypeOK, Formed, Undisturbed, NEW t \in Thread, stack[t] # <<>>,
         Top(t).step \in Ending, NEW i, i = Top(t).inst, NEW m, m = Top(t).mod,
         NEW e, e = mem[Top(t).ptr]
  PROVE  /\ \A u \in Thread : u # t => stack[u] = <<>>
         /\ \A u \in Thread : \A k \in Depth(u) : u = t /\ stack[u][k].step \notin Calling
         /\ \A j : ~Adding(j) /\ ~Making(j)
         /\ \A n : ~Loading(n)
         /\ i \in Instance /\ m \in Module /\ m = i[1]
         /\ e.inst = i /\ e.mod = m /\ e.count = 0
         /\ \E p \in 1..size : mem[p] = e
         /\ \A q \in 1..size : mem[q].mod = m \/ mem[q].inst = i => mem[q] = e
         /\ References(i) = 0
         /\ \A k \in Depth(t) : k # 1 =>
              /\ stack[t][k] \in FrameType /\ stack[t][k].step = "destroy"
              /\ DisconnectKnows(stack[t][k])
              /\ stack[t][k].inst \notin alive
              /\ stack[t][k].inst # i /\ stack[t][k].mod # m
<1>1. \A u \in Thread : u # t => stack[u] = <<>>
  BY OthersIdle DEF Undisturbed
<1>2. Top(t).step \notin Calling
  BY KindsApart
<1>3. \A u \in Thread : \A k \in Depth(u) : u = t /\ stack[u][k].step \notin Calling
  BY <1>1, <1>2, Frames, DisconnectFrames DEF Depth
<1>4. (\A j : ~Adding(j) /\ ~Making(j)) /\ \A n : ~Loading(n)
  <2>1. ASSUME NEW u \in Thread, At(u, "push") \/ At(u, "made")
        PROVE  FALSE
    <3>1. 1 \in Depth(u) /\ stack[u][1].step \in Calling
      BY <2>1, TopFrame DEF At, Calling
    <3>. QED
      BY <1>3, <3>1
  <2>. QED
    BY <1>3, <2>1, KindsApart DEF Adding, Making, Loading
<1>5. /\ m = i[1] /\ e.inst = i /\ e.count = 0
      /\ \E p \in 1..size : mem[p] = e
  BY TopKnows DEF DisconnectKnows
<1>6. PICK p \in 1..size : mem[p] = e
  BY <1>5
<1>7. i \in Instance /\ m \in Module
  BY <1>5, TopFilled DEF Pointing
<1>8. e.mod = m /\ References(i) = 0
  BY <1>5, <1>6 DEF Undisturbed, Listed, Counted
<1>9. \A q \in 1..size : mem[q].mod = m \/ mem[q].inst = i => mem[q] = e
  BY <1>5, <1>6, <1>8 DEF Undisturbed, Listed
<1>10. ASSUME NEW k \in Depth(t), k # 1, NEW g, g = stack[t][k]
       PROVE  /\ g \in FrameType /\ g.step = "destroy" /\ DisconnectKnows(g)
              /\ g.inst \notin alive /\ g.inst # i /\ g.mod # m
  <2>1. g \in FrameType /\ g.step = "destroy" /\ Top(t) = stack[t][1] /\ 1 \in Depth(t)
    BY <1>2, <1>10, Frames, TopFrame, DisconnectFrames
  <2>2. DisconnectKnows(g) /\ g.inst \notin alive /\ g.inst # i
    BY <1>10, <2>1 DEF Undisturbed, Disconnecting, Ending
  <2>3. g.mod # m
    <3>1. PICK q \in 1..size : mem[q].inst = g.inst /\ g.mod = g.inst[1]
      BY <2>1, <2>2 DEF DisconnectKnows, Ending
    <3>2. mem[q].mod = g.mod
      BY <3>1 DEF Undisturbed, Listed
    <3>. QED
      BY <1>5, <1>9, <2>2, <3>1, <3>2
  <2>. QED
    BY <2>1, <2>2, <2>3
<1>. QED
  BY <1>1, <1>3, <1>4, <1>5, <1>7, <1>8, <1>9, <1>10

(* A step of destroying or unloading that leaves the vector alone: it       *)
(* changes the frame at c, and at c = 2 it has the destructor call          *)
(* Disconnect.                                                              *)
LEMMA EndingGoesOn ==
  ASSUME TypeOK, Formed, Undisturbed, NEW t \in Thread, stack[t] # <<>>,
         Top(t).step \in Ending, NEW c \in {1, 2}, Keeps(t, c, 1), Apart',
         NEW f \in FrameType, stack'[t][c] = f, f.inst = Top(t).inst, f.mod = Top(t).mod,
         f.step \in Ending, DisconnectKnows(f)', f.step = "destroy" => c = 2,
         c = 2 => stack'[t][1].step = "lookup" /\ stack'[t][1].mod = stack'[t][1].inst[1],
         UNCHANGED <<mem, size, holds>>, alive' = alive \ {f.inst},
         \A n \in Module : n # f.mod => sinst'[n] = sinst[n] /\ libs'[n] = libs[n],
         sinst'[f.mod] \in {NoInst, f.inst},
         \A j \in Instance : refs'[j] = IF j = f.inst THEN NoInst ELSE refs[j],
         \A j \in Instance : References(j)' = References(j)
  PROVE  Undisturbed'
<1> SUFFICES ASSUME NEW i, i = Top(t).inst, NEW m, m = Top(t).mod,
                    NEW e, e = mem[Top(t).ptr]
             PROVE  Undisturbed'
  OBVIOUS
<1>1. /\ \A u \in Thread : u # t => stack[u] = <<>>
      /\ \A u \in Thread : \A k \in Depth(u) : u = t /\ stack[u][k].step \notin Calling
      /\ \A j : ~Adding(j) /\ ~Making(j)
      /\ \A n : ~Loading(n)
      /\ i \in Instance /\ m \in Module /\ m = i[1]
      /\ e.inst = i /\ e.mod = m /\ e.count = 0
      /\ \E p \in 1..size : mem[p] = e
      /\ \A q \in 1..size : mem[q].mod = m \/ mem[q].inst = i => mem[q] = e
  BY AloneInDisconnect
<1>2. \A k \in Depth(t) : k # 1 =>
        /\ stack[t][k] \in FrameType /\ stack[t][k].step = "destroy"
        /\ DisconnectKnows(stack[t][k])
        /\ stack[t][k].inst \notin alive
        /\ stack[t][k].inst # i /\ stack[t][k].mod # m
  BY AloneInDisconnect
<1>3. /\ Top(t) = stack[t][1] /\ Len(stack[t]) \in Nat \ {0} /\ 1 \in Depth(t)
  BY TopFrame
<1>4. /\ \A k \in Depth(t)' : \/ k = c
                              \/ k = 1 /\ c = 2
                              \/ /\ k # 1 /\ k - c + 1 \in Depth(t) /\ k - c + 1 # 1
                                 /\ stack'[t][k] = stack[t][k - c + 1]
      /\ \A k \in Depth(t) : k # 1 => /\ k + c - 1 \in Depth(t)'
                                      /\ stack'[t][k + c - 1] = stack[t][k]
      /\ c \in Depth(t)'
      /\ \A j, k \in Depth(t)' : j - c + 1 = k - c + 1 => j = k
  <2>1. Len(stack'[t]) = Len(stack[t]) - 1 + c
    BY DEF Keeps
  <2>2. \A k \in 1..Len(stack'[t]) : k = c \/ (k = 1 /\ c = 2) \/ (k > c /\ k # 1 /\ k - c + 1 # 1)
    OBVIOUS
  <2>3. \A k \in 1..Len(stack[t]) : k # 1 =>
          /\ k + c - 1 \in 1..Len(stack'[t]) /\ k + c - 1 > c /\ k + c - 1 - c + 1 = k
    BY <1>3, <2>1
  <2>4. c \in 1..Len(stack'[t])
    BY <1>3, <2>1
  <2>5. \A j, k \in 1..Len(stack'[t]) : j - c + 1 = k - c + 1 => j = k
    OBVIOUS
  <2>6. \A k \in 1..Len(stack'[t]) : k > c =>
          k - c + 1 \in Depth(t) /\ stack'[t][k] = stack[t][k - c + 1]
    BY DEF Keeps
  <2>7. \A k \in 1..Len(stack[t]) : k # 1 => stack'[t][k + c - 1] = stack[t][k]
    <3> SUFFICES ASSUME NEW k \in 1..Len(stack[t]), k # 1,
                        NEW n, n = k + c - 1
                 PROVE  stack'[t][n] = stack[t][k]
      OBVIOUS
    <3>1. n \in 1..Len(stack'[t]) /\ n > c /\ n - c + 1 = k
      BY <2>3
    <3>. QED
      BY <2>6, <3>1
  <2>. QED
    BY <2>2, <2>3, <2>4, <2>5, <2>6, <2>7 DEF Depth
<1>5. \A k \in Depth(t) : \A g \in FrameType :
        k # 1 /\ g = stack[t][k] => DisconnectKnows(g)'
  <2> SUFFICES ASSUME NEW k \in Depth(t), NEW g \in FrameType, k # 1, g = stack[t][k]
               PROVE  DisconnectKnows(g)'
    OBVIOUS
  <2>1. DisconnectKnows(g) /\ g.mod # f.mod /\ g.mod \in Module
    BY <1>2 DEF FrameType
  <2>. QED
    BY <2>1 DEF DisconnectKnows
<1>6. \A u \in Thread : u # t => Depth(u)' = {}
  <2>1. \A u \in Thread : u # t => stack'[u] = <<>>
    BY <1>1 DEF Keeps
  <2>2. \A s : s = <<>> => 1..Len(s) = {}
    OBVIOUS
  <2>. QED
    BY <2>1, <2>2 DEF Depth
<1>7. ASSUME NEW u \in Thread, NEW k \in Depth(u)', NEW g, g = stack'[u][k]
      PROVE  /\ u = t /\ g.step \notin Calling /\ DisconnectKnows(g)'
             /\ g.step \in Ending =>
                  /\ g.inst \notin alive' /\ ~(k = 1 /\ g.step = "destroy")
                  /\ \A j \in Depth(t)' :
                       stack'[t][j].step \in Ending /\ stack'[t][j].inst = g.inst => j = k
  <2>1. u = t
    BY <1>6
  <2>2. \A j \in Depth(t)' : j # c /\ ~(j = 1 /\ c = 2) => stack'[t][j].inst # i
    BY <1>2, <1>4
  <2>3. c = 2 => stack'[t][1].step \notin Ending
    BY DEF Ending
  <2>4. CASE k = c
    <3>1. g = f /\ g.inst = i /\ g.inst \notin alive'
      BY <1>7, <2>1, <2>4
    <3>2. \A j \in Depth(t)' :
            stack'[t][j].step \in Ending /\ stack'[t][j].inst = g.inst => j = k
      BY <2>2, <2>3, <2>4, <3>1
    <3>. QED
      BY <2>1, <2>4, <3>1, <3>2, KindsApart
  <2>5. CASE k = 1 /\ c = 2
    <3>1. g.step = "lookup" /\ g.mod = g.inst[1]
      BY <1>7, <2>1, <2>5
    <3>. QED
      BY <2>1, <3>1 DEF DisconnectKnows, Ending, Calling
  <2>6. CASE k # c /\ ~(k = 1 /\ c = 2)
    <3>1. PICK l \in Depth(t) : l = k - c + 1 /\ l # 1 /\ g = stack[t][l] /\ k # 1
      BY <1>4, <1>7, <2>1, <2>6
    <3>2. g \in FrameType /\ g.step = "destroy" /\ DisconnectKnows(g)' /\ g.inst \notin alive
      BY <1>2, <1>5, <3>1
    <3>3. \A j \in Depth(t)' :
            stack'[t][j].step \in Ending /\ stack'[t][j].inst = g.inst => j = k
      <4> SUFFICES ASSUME NEW j \in Depth(t)', stack'[t][j].step \in Ending,
                          stack'[t][j].inst = g.inst
                   PROVE  j = k
        OBVIOUS
      <4>1. g.inst # i
        BY <1>2, <3>1
      <4>2. j # c /\ ~(j = 1 /\ c = 2)
        BY <2>3, <4>1
      <4>3. PICK n \in Depth(t) : n = j - c + 1 /\ stack'[t][j] = stack[t][n]
        BY <1>4, <4>2
      <4>4. n = l
        BY <3>1, <3>2, <4>3 DEF Undisturbed, Disconnecting, Ending
      <4>. QED
        BY <1>4, <2>1, <3>1, <4>3, <4>4
    <3>4. g.step \notin Calling
      BY <3>2 DEF Calling
    <3>. QED
      BY <2>1, <3>1, <3>2, <3>3, <3>4
  <2>. QED
    BY <2>4, <2>5, <2>6
<1>8. Listed'
  BY DEF Undisturbed, Listed
<1>9. Counted'
  <2>1. \A j : Known(j)' <=> Known(j)
    BY DEF Known
  <2>. QED
    BY <2>1, Types DEF Undisturbed, Counted, Formed, Filled
<1>10. \A j : Leaving(j) => Leaving(j)'
  <2> SUFFICES ASSUME NEW j, NEW k \in Depth(t), stack[t][k].step \in Ending,
                      stack[t][k].inst = j
               PROVE  Leaving(j)'
    BY <1>1 DEF Leaving
  <2>1. CASE k = 1
    BY <1>3, <1>4, <2>1 DEF Leaving
  <2>2. CASE k # 1
    BY <1>4, <2>2 DEF Leaving
  <2>. QED
    BY <2>1, <2>2
<1>11. Living'
  <2> SUFFICES ASSUME NEW p \in 1..size, NEW j, j = mem[p].inst
               PROVE  Leaving(j)' \/ Lives(mem[p])'
    BY DEF Living, Leaving
  <2>1. CASE Leaving(j)
    BY <1>10, <2>1
  <2>2. CASE Lives(mem[p])
    <3>1. mem[p].mod # f.mod /\ mem[p].inst # f.inst
      BY <1>1, <2>2 DEF Lives
    <3>2. mem[p].mod \in Module
      BY Types DEF Formed, Filled
    <3>. QED
      BY <2>2, <3>1, <3>2 DEF Lives
  <2>. QED
    BY <2>1, <2>2 DEF Undisturbed, Living
<1>12. Connecting'
  <2> SUFFICES ASSUME NEW u \in Thread, NEW k \in Depth(u)', NEW g, g = stack'[u][k]
               PROVE  ConnectKnows(g)' /\ g.step \notin Building
    BY DEF Connecting, ConnectKnows, Building
  <2>1. g.step \notin Calling
    BY <1>7
  <2>. QED
    BY <2>1 DEF ConnectKnows, Building, Calling
<1>13. Disconnecting'
  <2> SUFFICES ASSUME NEW u \in Thread, NEW k \in Depth(u)', NEW g, g = stack'[u][k]
               PROVE  /\ DisconnectKnows(g)'
                      /\ g.step \in Ending =>
                           /\ g.inst \in alive' <=> k = 1 /\ g.step = "destroy"
                           /\ \A j \in Depth(u)' :
                                stack'[u][j].step \in Ending /\ stack'[u][j].inst = g.inst => j = k
    BY DEF Disconnecting, DisconnectKnows
  <2>. QED
    BY <1>7
<1>14. Unlisted'
  <2>1. \A n : Cached(n)' <=> Cached(n)
    BY DEF Cached
  <2>2. \A n \in Module : /\ ~Cached(n)' => sinst'[n] = NoInst
                          /\ sinst'[n] # NoInst => sinst'[n][1] = n
    BY <1>1, <2>1 DEF Undisturbed, Unlisted, Cached
  <2>3. \A n \in Module : ~Cached(n)' => libs'[n] = 0
    BY <1>1, <2>1 DEF Undisturbed, Unlisted, Cached
  <2>4. \A j \in alive' : Known(j)'
    BY <1>1 DEF Undisturbed, Unlisted, Known
  <2>5. \A j \in Instance : refs'[j] = NoInst \/ j \in alive'
    BY <1>1 DEF Undisturbed, Unlisted
  <2>. QED
    BY <2>2, <2>3, <2>4, <2>5 DEF Unlisted
<1>. QED
  BY <1>8, <1>9, <1>11, <1>12, <1>13, <1>14 DEF Undisturbed

(* The steps after the instance is gone: nothing refers to it, and it       *)
(* refers to nothing.                                                       *)
LEMMA ReferencesKept ==
  ASSUME TypeOK, NEW t \in Thread, stack[t] # <<>>, Top(t).step \in Ending,
         NEW f \in FrameType, f.step \in Ending, Step(t, f), UNCHANGED <<holds, refs>>
  PROVE  \A j \in Instance : References(j)' = References(j)
<1> SUFFICES ASSUME NEW j \in Instance
             PROVE  References(j)' = References(j)
  OBVIOUS
<1>1. Keeps(t, 1, 1) /\ Head(stack'[t]) = f
  BY Stepped
<1>2. ~Releases(stack'[t], j) /\ ~Releases(stack[t], j)
  BY <1>1, KindsApart DEF Releases, Top
<1>3. Pending(j)' = Pending(j)
  BY <1>1, <1>2, PendingSame
<1>4. Holding(j)' = Holding(j) /\ Using(j)' = Using(j)
  BY DEF Holding, Using
<1>. QED
  BY <1>3, <1>4, ReferencesSame

(* Such a step without a call.                                              *)
LEMMA EndingSteps ==
  ASSUME TypeOK, Formed, Undisturbed, NEW t \in Thread, stack[t] # <<>>,
         Top(t).step \in Ending, NEW f \in FrameType, Step(t, f), ~raced',
         f.inst = Top(t).inst, f.mod = Top(t).mod, f.step \in Ending, f.step # "destroy",
         DisconnectKnows(f)', UNCHANGED <<mem, size, holds, refs>>,
         alive' = alive \ {f.inst}, refs[f.inst] = NoInst,
         \A n \in Module : n # f.mod => sinst'[n] = sinst[n] /\ libs'[n] = libs[n],
         sinst'[f.mod] \in {NoInst, f.inst}
  PROVE  Undisturbed'
<1>1. Keeps(t, 1, 1) /\ Apart' /\ stack'[t][1] = f
  BY Stepped
<1>2. \A j \in Instance : References(j)' = References(j)
  BY ReferencesKept
<1>3. \A j \in Instance : refs'[j] = IF j = f.inst THEN NoInst ELSE refs[j]
  OBVIOUS
<1> SUFFICES ASSUME NEW c \in {1, 2}, c = 1
             PROVE  Undisturbed'
  OBVIOUS
<1>4. Keeps(t, c, 1) /\ stack'[t][c] = f
  BY <1>1
<1>5. /\ f.step = "destroy" => c = 2
      /\ c = 2 => stack'[t][1].step = "lookup" /\ stack'[t][1].mod = stack'[t][1].inst[1]
  OBVIOUS
<1>. QED
  BY <1>1, <1>2, <1>3, <1>4, <1>5, EndingGoesOn

(* The reference of the object deleted becomes that of its destructor's     *)
(* call of Disconnect.                                                      *)
LEMMA DestroyInstanceUndisturbed ==
  ASSUME TypeOK, Formed, Undisturbed, NEW t \in Thread, DestroyInstance(t), ~raced'
  PROVE  Undisturbed'
<1> SUFFICES ASSUME NEW i, i = Top(t).inst, NEW m, m = Top(t).mod,
                    NEW e, e = mem[Top(t).ptr], NEW n, n = refs[i],
                    NEW up, up = [Top(t) EXCEPT !.mod = m],
                    NEW f, f = [up EXCEPT !.step = "deleted"],
                    NEW g, g = Frame("lookup", n[1], n, 0)
             PROVE  Undisturbed'
  OBVIOUS
<1>1. stack[t] # <<>> /\ Top(t).step = "destroy" /\ Top(t).step \in Ending
  BY DEF DestroyInstance, At, Ending
<1>2. /\ i \in Instance /\ m \in Module /\ m = i[1] /\ References(i) = 0
      /\ e.inst = i /\ e.mod = m /\ e.count = 0 /\ \E p \in 1..size : mem[p] = e
      /\ \A k \in Depth(t) : k # 1 => stack[t][k].step = "destroy"
  BY <1>1, AloneInDisconnect
<1>3. sinst[m] = i /\ libs[m] = 1 /\ i # NoInst
  BY <1>1, <1>2, TopKnows, Constants DEF DisconnectKnows
<1>4. /\ alive' = alive \ {i} /\ refs' = [refs EXCEPT ![i] = NoInst]
      /\ up \in FrameType /\ f \in FrameType
      /\ \/ n = NoInst /\ Step(t, f)
         \/ /\ n \in Instance /\ g \in FrameType
            /\ g.step = "lookup" /\ g.mod = n[1] /\ g.inst = n
            /\ Goes(t, <<g, up>> \o Tail(stack[t]))
  <2> DEFINE m0 == mem[Top(t).ptr].mod
             i0 == sinst[m0]
             n0 == IF i0 = NoInst THEN NoInst ELSE refs[i0]
             up0 == [Top(t) EXCEPT !.mod = m0]
             f0 == [up0 EXCEPT !.step = "deleted"]
             g0 == Frame("lookup", n0[1], n0, 0)
  <2>1. /\ alive' = alive \ {i0}
        /\ refs' = IF i0 = NoInst THEN refs ELSE [refs EXCEPT ![i0] = NoInst]
        /\ up0 \in FrameType /\ f0 \in FrameType
        /\ \/ n0 = NoInst /\ Step(t, f0)
           \/ /\ n0 \in Instance /\ i0 \in Instance /\ g0 \in FrameType
              /\ g0.step = "lookup" /\ g0.mod = n0[1] /\ g0.inst = n0
              /\ Goes(t, <<g0, up0>> \o Tail(stack[t]))
    BY DestroyInstanceForm, Zenon
  <2>2. m0 = m /\ i0 = i /\ n0 = n
    BY <1>2, <1>3
  <2>3. up0 = up /\ f0 = f /\ g0 = g
    BY <2>2
  <2> HIDE DEF m0, i0, n0, up0, f0, g0
  <2>. QED
    BY <1>3, <2>1, <2>2, <2>3
<1>5. UNCHANGED <<mem, size, libs, sinst, holds>>
  BY DEF DestroyInstance
<1>6. /\ up.step = "destroy" /\ up.mod = m /\ up.inst = i /\ up.ptr = Top(t).ptr
      /\ f.step = "deleted" /\ f.mod = m /\ f.inst = i /\ f.ptr = Top(t).ptr
  BY <1>1, <1>2, TopFrame DEF FrameType
<1>7. DisconnectKnows(f)' /\ DisconnectKnows(up)'
  <2>1. \A h \in {f, up} : h.step \in {"deleted", "destroy"} /\ h.mod = m /\ h.inst = i
                          /\ mem'[h.ptr] = e
    BY <1>5, <1>6
  <2>2. \E p \in 1..size' : mem'[p] = e
    BY <1>2, <1>5
  <2>3. sinst'[m] = i /\ libs'[m] = 1
    BY <1>3, <1>5
  <2>4. DisconnectKnows(f)'
    BY <1>2, <2>1, <2>2, <2>3 DEF DisconnectKnows
  <2>5. DisconnectKnows(up)'
    BY <1>2, <2>1, <2>2, <2>3 DEF DisconnectKnows
  <2>. QED
    BY <2>4, <2>5
<1>8. /\ \A j \in Instance : refs'[j] = IF j = i THEN NoInst ELSE refs[j]
      /\ sinst'[m] \in {NoInst, i} /\ m = i[1]
      /\ \A j \in Module : j # m => sinst'[j] = sinst[j] /\ libs'[j] = libs[j]
  BY <1>2, <1>3, <1>4, <1>5 DEF TypeOK
<1>9. \A j : ~Releases(stack[t], j) /\ Holding(j)' = Holding(j)
  BY <1>1, <1>5, KindsApart DEF Releases, Top, Holding
<1>10. CASE n = NoInst /\ Step(t, f)
  <2>1. refs' = refs
    BY <1>2, <1>4, <1>10 DEF TypeOK
  <2>2. f.step \in Ending /\ f.step # "destroy"
    BY <1>6 DEF Ending
  <2>. QED
    BY <1>1, <1>4, <1>5, <1>6, <1>7, <1>8, <1>10, <2>1, <2>2, EndingSteps
<1>11. CASE /\ n \in Instance /\ g \in FrameType
            /\ g.step = "lookup" /\ g.mod = n[1] /\ g.inst = n
            /\ Goes(t, <<g, up>> \o Tail(stack[t]))
  <2>1. /\ Keeps(t, 2, 1) /\ Apart' /\ stack'[t] # <<>> /\ stack'[t][1] = g
        /\ Head(stack'[t]) = g /\ stack'[t][2] = up
    BY <1>1, <1>4, <1>11, Nested
  <2>2. \A j \in Instance : References(j)' = References(j)
    <3>1. \A j : Releases(stack'[t], j) <=> j = n
      BY <1>11, <2>1 DEF Releases, Releasing
    <3>2. \A j \in Instance : j # n => References(j)' = References(j)
      <4> SUFFICES ASSUME NEW j \in Instance, j # n
                   PROVE  References(j)' = References(j)
        OBVIOUS
      <4>1. Pending(j)' = Pending(j)
        BY <1>9, <2>1, <3>1, PendingSame
      <4>2. Using(j)' = Using(j)
        <5>1. \A o \in Instance : refs'[o] = j <=> refs[o] = j
          BY <1>8, Constants
        <5>. QED
          BY <5>1 DEF Using
      <4>. QED
        BY <1>9, <4>1, <4>2, ReferencesSame
    <3>3. References(n)' = References(n)
      <4>1. Pending(n)' = Pending(n) \cup {t} /\ t \notin Pending(n)
        BY <1>9, <2>1, <3>1, PendingStep DEF Pending
      <4>2. Using(n)' = Using(n) \ {i} /\ i \in Using(n)
        <5>1. \A o \in Instance : refs'[o] = n <=> refs[o] = n /\ o # i
          BY <1>8, <1>11, Constants
        <5>. QED
          BY <1>2, <5>1 DEF Using
      <4>3. Cardinality(Pending(n)') = Cardinality(Pending(n)) + 1
        <5>1. IsFiniteSet(Pending(n))
          BY ReferenceSets
        <5>2. Cardinality(Pending(n) \cup {t}) = Cardinality(Pending(n)) + 1
          BY <4>1, <5>1, FS_AddElement, Zenon
        <5>. QED
          BY <4>1, <5>2, Zenon
      <4>4. Cardinality(Using(n)') = Cardinality(Using(n)) - 1
        <5>1. IsFiniteSet(Using(n))
          BY ReferenceSets
        <5>. QED
          BY <4>2, <5>1, FS_RemoveElement
      <4>. QED
        BY <1>9, <4>3, <4>4, ReferenceSets, NewReferenceSets, Finite DEF References
    <3>. QED
      BY <3>2, <3>3
  <2> SUFFICES ASSUME NEW c \in {1, 2}, c = 2
               PROVE  Undisturbed'
    OBVIOUS
  <2>3. Keeps(t, c, 1) /\ stack'[t][c] = up /\ up.step \in Ending
    BY <1>6, <2>1 DEF Ending
  <2>4. c = 2 => stack'[t][1].step = "lookup" /\ stack'[t][1].mod = stack'[t][1].inst[1]
    BY <1>11, <2>1
  <2>5. /\ up.inst = Top(t).inst /\ up.mod = Top(t).mod /\ alive' = alive \ {up.inst}
        /\ \A j \in Module : j # up.mod => sinst'[j] = sinst[j] /\ libs'[j] = libs[j]
        /\ sinst'[up.mod] \in {NoInst, up.inst}
        /\ \A j \in Instance : refs'[j] = IF j = up.inst THEN NoInst ELSE refs[j]
    BY <1>4, <1>6, <1>8
  <2>. QED
    BY <1>1, <1>4, <1>5, <1>7, <2>1, <2>2, <2>3, <2>4, <2>5, EndingGoesOn
<1>. QED
  BY <1>4, <1>10, <1>11

(* What no longer exists refers to nothing.                                 *)
LEMMA GoneRefersToNothing ==
  ASSUME TypeOK, Formed, Undisturbed, NEW t \in Thread, stack[t] # <<>>,
         Top(t).step \in {"deleted", "unload", "remove"}, NEW i, i = Top(t).inst
  PROVE  i \notin alive /\ refs[i] = NoInst
<1>1. Top(t).step \in Ending
  BY DEF Ending
<1>2. /\ i \in Instance /\ \A j : ~Adding(j) /\ ~Making(j)
      /\ Top(t) = stack[t][1] /\ 1 \in Depth(t)
  BY <1>1, AloneInDisconnect, TopFrame
<1>3. i \notin alive
  BY <1>1, <1>2 DEF Undisturbed, Disconnecting
<1>. QED
  BY <1>2, <1>3 DEF Undisturbed, Unlisted

(* The library has no singleton any more.                                   *)
LEMMA InstanceDeletedUndisturbed ==
  ASSUME TypeOK, Formed, Undisturbed, NEW t \in Thread, InstanceDeleted(t), ~raced'
  PROVE  Undisturbed'
<1> SUFFICES ASSUME NEW i, i = Top(t).inst, NEW m, m = Top(t).mod,
                    NEW e, e = mem[Top(t).ptr],
                    NEW f, f = [Top(t) EXCEPT !.step = "unload"]
             PROVE  Undisturbed'
  OBVIOUS
<1>1. /\ f \in FrameType /\ f.step = "unload" /\ f.mod = m
      /\ f.inst = i /\ f.ptr = Top(t).ptr /\ m \in Module
      /\ stack[t] # <<>> /\ Top(t).step = "deleted" /\ Step(t, f)
  BY InstanceDeletedForm
<1>2. Top(t).step \in Ending /\ f.step \in Ending
  BY <1>1 DEF Ending
<1>3. /\ UNCHANGED <<mem, size, libs, alive, refs, holds>>
      /\ sinst' = [sinst EXCEPT ![m] = NoInst]
  BY DEF InstanceDeleted
<1>4. /\ i \in Instance /\ m = i[1] /\ e.inst = i /\ e.count = 0
      /\ \E p \in 1..size : mem[p] = e
  BY <1>1, <1>2, AloneInDisconnect
<1>5. i \notin alive /\ refs[i] = NoInst
  BY <1>1, GoneRefersToNothing
<1>6. /\ sinst'[m] = NoInst /\ libs'[m] = 1
      /\ \A n \in Module : n # m => sinst'[n] = sinst[n] /\ libs'[n] = libs[n]
  <2>1. libs[m] = 1
    BY <1>1, <1>2, TopKnows DEF DisconnectKnows
  <2>. QED
    BY <1>1, <1>3, <2>1 DEF TypeOK
<1>7. DisconnectKnows(f)'
  BY <1>1, <1>2, <1>3, <1>4, <1>6 DEF DisconnectKnows, Releasing
<1>8. alive' = alive \ {i}
  BY <1>3, <1>5
<1>. QED
  BY <1>1, <1>2, <1>3, <1>5, <1>6, <1>7, <1>8, EndingSteps

(* The library is unloaded as often as it was loaded.                       *)
LEMMA UnloadModuleUndisturbed ==
  ASSUME TypeOK, Formed, Undisturbed, NEW t \in Thread, UnloadModule(t), ~raced'
  PROVE  Undisturbed'
<1> SUFFICES ASSUME NEW i, i = Top(t).inst, NEW m, m = Top(t).mod,
                    NEW e, e = mem[Top(t).ptr],
                    NEW f, f = [Top(t) EXCEPT !.step = "remove"]
             PROVE  Undisturbed'
  OBVIOUS
<1>1. /\ f \in FrameType /\ f.step = "remove" /\ f.mod = m
      /\ f.inst = i /\ f.ptr = Top(t).ptr
      /\ libs' = [libs EXCEPT ![e.mod] = IF @ = 0 THEN 0 ELSE @ - 1]
      /\ stack[t] # <<>> /\ Top(t).step = "unload" /\ Step(t, f)
  BY UnloadModuleForm
<1>2. Top(t).step \in Ending /\ f.step \in Ending
  BY <1>1 DEF Ending
<1>3. UNCHANGED <<mem, size, sinst, alive, refs, holds>>
  BY DEF UnloadModule
<1>4. /\ i \in Instance /\ m \in Module /\ m = i[1]
      /\ e.inst = i /\ e.mod = m /\ e.count = 0
      /\ \E p \in 1..size : mem[p] = e
  BY <1>1, <1>2, AloneInDisconnect
<1>5. i \notin alive /\ refs[i] = NoInst
  BY <1>1, GoneRefersToNothing
<1>6. /\ sinst'[m] = NoInst /\ libs'[m] = 0
      /\ \A n \in Module : n # m => sinst'[n] = sinst[n] /\ libs'[n] = libs[n]
  <2>1. sinst[m] = NoInst /\ libs[m] = 1
    BY <1>1, <1>2, TopKnows DEF DisconnectKnows
  <2>. QED
    BY <1>1, <1>3, <1>4, <2>1 DEF TypeOK
<1>7. DisconnectKnows(f)'
  BY <1>1, <1>2, <1>3, <1>4, <1>6 DEF DisconnectKnows, Releasing
<1>8. alive' = alive \ {i}
  BY <1>3, <1>5
<1>. QED
  BY <1>1, <1>2, <1>3, <1>5, <1>6, <1>7, <1>8, EndingSteps

(* The entries that an erase leaves.                                        *)
LEMMA ErasedEntries ==
  ASSUME TypeOK, NEW e \in 1..size, mem' = Erased(e), size' = size - 1
  PROVE  /\ \A q \in 1..size' : \E o \in 1..size : o # e /\ mem'[q] = mem[o]
         /\ \A o \in 1..size : o # e => \E q \in 1..size' : mem'[q] = mem[o]
         /\ \A p, q \in 1..size' : \E k, l \in 1..size :
              /\ mem'[p] = mem[k] /\ mem'[q] = mem[l] /\ (k = l => p = q)
         /\ \A q \in Slot : q < e => mem'[q] = mem[q]
<1>1. size \in Nat /\ 1..size \subseteq Slot /\ e \in Nat
  BY Types
<1>2. /\ \A q \in 1..(size - 1) : q >= e => q + 1 \in 1..size /\ q + 1 # e /\ q < size
      /\ \A q \in 1..(size - 1) : ~(q >= e) => q \in 1..size /\ q # e
      /\ \A o \in 1..size : o > e => o - 1 \in 1..(size - 1) /\ o - 1 >= e /\ o - 1 < size
                                     /\ (o - 1) + 1 = o
      /\ \A o \in 1..size : o < e => o \in 1..(size - 1) /\ ~(o >= e)
      /\ \A o \in 1..size : o # e => o < e \/ o > e
      /\ \A q \in 1..(size - 1) : q \in 1..size
  BY <1>1
<1>3. \A q \in 1..(size - 1) : mem'[q] = IF q >= e THEN mem[q + 1] ELSE mem[q]
  BY <1>1, <1>2 DEF Erased
<1>4. \A q \in 1..size' : \E o \in 1..size : o # e /\ mem'[q] = mem[o]
  BY <1>2, <1>3
<1>5. \A o \in 1..size : o # e => \E q \in 1..size' : mem'[q] = mem[o]
  <2> SUFFICES ASSUME NEW o \in 1..size, o # e
               PROVE  \E q \in 1..(size - 1) : mem'[q] = mem[o]
    OBVIOUS
  <2>1. CASE o < e
    BY <1>2, <1>3, <2>1
  <2>2. CASE o > e
    <3>1. o - 1 \in 1..(size - 1) /\ o - 1 >= e /\ (o - 1) + 1 = o
      BY <1>2, <2>2
    <3>2. mem'[o - 1] = mem[o]
      BY <1>3, <3>1
    <3>. QED
      BY <3>1, <3>2
  <2>. QED
    BY <1>2, <2>1, <2>2
<1>6. \A p, q \in 1..size' : \E k, l \in 1..size :
        /\ mem'[p] = mem[k] /\ mem'[q] = mem[l] /\ (k = l => p = q)
  <2> SUFFICES ASSUME NEW p \in 1..(size - 1), NEW q \in 1..(size - 1)
               PROVE  \E k, l \in 1..size :
                        /\ mem'[p] = mem[k] /\ mem'[q] = mem[l] /\ (k = l => p = q)
    OBVIOUS
  <2>1. PICK k \in 1..size : mem'[p] = mem[k] /\ k = IF p >= e THEN p + 1 ELSE p
    BY <1>2, <1>3
  <2>2. PICK l \in 1..size : mem'[q] = mem[l] /\ l = IF q >= e THEN q + 1 ELSE q
    BY <1>2, <1>3
  <2>3. k = l => p = q
    BY <1>1, <2>1, <2>2
  <2>. QED
    BY <2>1, <2>2, <2>3
<1>7. \A q \in Slot : q < e => mem'[q] = mem[q]
  <2>1. \A q \in Slot : q < e => ~(q >= e)
    BY <1>1, Constants
  <2>. QED
    BY <2>1 DEF Erased
<1>. QED
  BY <1>4, <1>5, <1>6, <1>7

(* The entry erased is that of the module, and the calls outside still      *)
(* point at theirs: no other thread has a call, and an erase that moved an  *)
(* entry they point at would show in shifted.                               *)
LEMMA RemoveCachedUndisturbed ==
  ASSUME TypeOK, Formed, Undisturbed, NEW t \in Thread, RemoveCached(t), ~raced', ~shifted'
  PROVE  Undisturbed'
<1> SUFFICES ASSUME NEW i, i = Top(t).inst, NEW m, m = Top(t).mod,
                    NEW x, x = mem[Top(t).ptr]
             PROVE  Undisturbed'
  OBVIOUS
<1>1. /\ stack[t] # <<>> /\ Top(t).step = "remove" /\ Top(t).step \notin Calling
      /\ Top(t).step \in Ending /\ DisconnectReturns(t)
  BY RemoveCachedForm DEF Ending
<1>2. UNCHANGED <<libs, sinst, alive, refs, holds>>
  BY DEF RemoveCached
<1>3. /\ \A u \in Thread : u # t => stack[u] = <<>>
      /\ \A u \in Thread : \A k \in Depth(u) : u = t /\ stack[u][k].step \notin Calling
      /\ \A j : ~Adding(j) /\ ~Making(j)
      /\ \A n : ~Loading(n)
      /\ i \in Instance /\ m \in Module /\ m = i[1]
      /\ x.inst = i /\ x.mod = m
      /\ \E p \in 1..size : mem[p] = x
      /\ \A q \in 1..size : mem[q].mod = m \/ mem[q].inst = i => mem[q] = x
      /\ References(i) = 0
  BY <1>1, AloneInDisconnect
<1>4. \A k \in Depth(t) : k # 1 =>
        /\ stack[t][k] \in FrameType /\ stack[t][k].step = "destroy"
        /\ DisconnectKnows(stack[t][k])
        /\ stack[t][k].inst # i
  BY <1>1, AloneInDisconnect
<1>5. PICK e \in 1..size :
        /\ mem[e].inst = i /\ mem' = Erased(e) /\ size' = size - 1
        /\ \A k \in Depth(t) : k # 1 /\ stack[t][k].ptr > e =>
             mem'[stack[t][k].ptr] = mem[stack[t][k].ptr]
  <2> DEFINE S == {q \in 1..size : mem[q].inst = mem[Top(t).ptr].inst}
  <2>1. \/ S = {}
        \/ \E e \in S :
             /\ mem' = Erased(e) /\ size' = size - 1
             /\ \A k \in Depth(t) : k # 1 /\ stack[t][k].ptr > e =>
                  mem'[stack[t][k].ptr] = mem[stack[t][k].ptr]
    BY RemoveCachedForm, Zenon
  <2>2. S # {}
    BY <1>3
  <2>. QED
    BY <1>3, <2>1, <2>2
<1>6. /\ \A q \in 1..size : mem[q].mod = m \/ mem[q].inst = i => q = e
      /\ mem[e].mod = m
  BY <1>3, <1>5 DEF Undisturbed, Listed
<1>7. /\ \A q \in 1..size' : \E o \in 1..size : o # e /\ mem'[q] = mem[o]
      /\ \A o \in 1..size : o # e => \E q \in 1..size' : mem'[q] = mem[o]
      /\ \A p, q \in 1..size' : \E k, l \in 1..size :
           /\ mem'[p] = mem[k] /\ mem'[q] = mem[l] /\ (k = l => p = q)
      /\ \A q \in Slot : q < e => mem'[q] = mem[q]
  BY <1>5, ErasedEntries
<1>8. /\ \A n : Cached(n)' <=> Cached(n) /\ n # m
      /\ \A j : Known(j)' <=> Known(j) /\ j # i
  <2>1. \A n : Cached(n)' <=> \E o \in 1..size : o # e /\ mem[o].mod = n
    <3> SUFFICES ASSUME NEW n
                 PROVE  (\E q \in 1..size' : mem'[q].mod = n)
                          <=> \E o \in 1..size : o # e /\ mem[o].mod = n
      BY DEF Cached
    <3>1. ASSUME NEW q \in 1..size', mem'[q].mod = n
          PROVE  \E o \in 1..size : o # e /\ mem[o].mod = n
      <4>1. PICK o \in 1..size : o # e /\ mem'[q] = mem[o]
        BY <1>7
      <4>. QED
        BY <3>1, <4>1
    <3>2. ASSUME NEW o \in 1..size, o # e, mem[o].mod = n
          PROVE  \E q \in 1..size' : mem'[q].mod = n
      <4>1. PICK q \in 1..size' : mem'[q] = mem[o]
        BY <1>7, <3>2
      <4>. QED
        BY <3>2, <4>1
    <3>. QED
      BY <3>1, <3>2
  <2>2. \A j : Known(j)' <=> \E o \in 1..size : o # e /\ mem[o].inst = j
    <3> SUFFICES ASSUME NEW j
                 PROVE  (\E q \in 1..size' : mem'[q].inst = j)
                          <=> \E o \in 1..size : o # e /\ mem[o].inst = j
      BY DEF Known
    <3>1. ASSUME NEW q \in 1..size', mem'[q].inst = j
          PROVE  \E o \in 1..size : o # e /\ mem[o].inst = j
      <4>1. PICK o \in 1..size : o # e /\ mem'[q] = mem[o]
        BY <1>7
      <4>. QED
        BY <3>1, <4>1
    <3>2. ASSUME NEW o \in 1..size, o # e, mem[o].inst = j
          PROVE  \E q \in 1..size' : mem'[q].inst = j
      <4>1. PICK q \in 1..size' : mem'[q] = mem[o]
        BY <1>7, <3>2
      <4>. QED
        BY <3>2, <4>1
    <3>. QED
      BY <3>1, <3>2
  <2>3. \A n : Cached(n)' <=> Cached(n) /\ n # m
    BY <1>6, <2>1 DEF Cached
  <2>4. \A j : Known(j)' <=> Known(j) /\ j # i
    BY <1>5, <1>6, <2>2 DEF Known
  <2>. QED
    BY <2>3, <2>4
<1>9. /\ Apart' /\ \A u \in Thread : u # t => stack'[u] = <<>>
      /\ \E n, d \in {0, 1, 2} : Keeps(t, n, d)
      /\ \A j : ~Releases(stack'[t], j)
  <2>1. \A g \in FrameType : [g EXCEPT !.step = "deleted"].step \notin Releasing
    BY DEF FrameType, Releasing
  <2>2. /\ Apart' /\ \A u \in Thread : u # t => stack'[u] = stack[u]
        /\ \A j : ~Releases(stack'[t], j)
    BY <1>1, <2>1, DisconnectReturnsTo DEF Keeps, Releases
  <2>3. \E n, d \in {0, 1, 2} : Keeps(t, n, d)
    BY <1>1, DisconnectReturnsTo
  <2>. QED
    BY <1>3, <2>2, <2>3
<1>10. \A j \in Instance : References(j)' = References(j)
  <2> SUFFICES ASSUME NEW j \in Instance
               PROVE  References(j)' = References(j)
    OBVIOUS
  <2>1. Pending(j)' = Pending(j)
    <3>1. ~Releases(stack[t], j)
      BY <1>1, KindsApart DEF Releases, Top
    <3>. QED
      BY <1>9, <3>1, PendingSame
  <2>2. Holding(j)' = Holding(j) /\ Using(j)' = Using(j)
    BY <1>2 DEF Holding, Using
  <2>. QED
    BY <2>1, <2>2, ReferencesSame
<1>11. Listed'
  <2> SUFFICES ASSUME NEW p \in 1..size', NEW q \in 1..size'
               PROVE  /\ mem'[p].mod = mem'[q].mod => p = q
                      /\ mem'[p].inst[1] = mem'[p].mod
    BY DEF Listed
  <2>1. PICK k, l \in 1..size : mem'[p] = mem[k] /\ mem'[q] = mem[l] /\ (k = l => p = q)
    BY <1>7
  <2>. QED
    BY <2>1 DEF Undisturbed, Listed
<1>12. Counted'
  <2>1. \A q \in 1..size' : \A j \in Instance : j = mem'[q].inst => mem'[q].count = References(j)'
    BY <1>7, <1>10 DEF Undisturbed, Counted
  <2>2. \A q \in 1..size' : mem'[q].inst \in Instance
    BY <1>7, Types DEF Formed, Filled
  <2>3. \A q \in 1..size' : mem'[q].count = References(mem[q].inst)'
    BY <2>1, <2>2 DEF References, Holding, Using, Pending
  <2>4. \A j \in Instance : References(j)' # 0 => Known(j)'
    BY <1>3, <1>8, <1>10 DEF Undisturbed, Counted
  <2>. QED
    BY <2>3, <2>4 DEF Counted
<1>13. \A k \in Depth(t) : \A g \in FrameType :
         k # 1 /\ g = stack[t][k] => DisconnectKnows(g)'
  <2> SUFFICES ASSUME NEW k \in Depth(t), NEW g \in FrameType, k # 1, g = stack[t][k]
               PROVE  DisconnectKnows(g)'
    OBVIOUS
  <2>1. g.step = "destroy" /\ DisconnectKnows(g) /\ g.inst # i
    BY <1>4
  <2>2. /\ g.mod = g.inst[1] /\ mem[g.ptr].inst = g.inst /\ mem[g.ptr].count = 0
        /\ sinst[g.mod] = g.inst /\ libs[g.mod] = 1
    BY <2>1 DEF DisconnectKnows, Ending
  <2>3. PICK q \in 1..size : mem[q] = mem[g.ptr]
    BY <2>1 DEF DisconnectKnows, Ending
  <2>4. g.ptr \in Slot
    BY <2>1 DEF Formed, FramesFilled, FrameFilled, Pointing, Ending
  <2>5. mem'[g.ptr] = mem[g.ptr]
    <3>1. g.ptr # e
      BY <1>5, <2>1, <2>2
    <3>2. g.ptr < e \/ g.ptr > e
      BY <2>4, <3>1, Types, Constants
    <3>. QED
      BY <1>5, <1>7, <2>4, <3>2
  <2>6. \E o \in 1..size' : mem'[o] = mem'[g.ptr]
    <3>1. q # e
      BY <1>5, <2>1, <2>2, <2>3
    <3>. QED
      BY <1>7, <2>3, <2>5, <3>1
  <2>. QED
    BY <1>2, <2>1, <2>2, <2>5, <2>6 DEF DisconnectKnows, Releasing
<1>14. /\ \A k \in Depth(t)' :
            /\ stack'[t][k] \in FrameType /\ stack'[t][k].step \in {"destroy", "deleted"}
            /\ \A g \in FrameType : g = stack'[t][k] => DisconnectKnows(g)'
            /\ stack'[t][k].inst \notin alive'
            /\ k = 1 => stack'[t][k].step = "deleted"
            /\ \A j \in Depth(t)' : stack'[t][j].inst = stack'[t][k].inst => j = k
       /\ \A k \in Depth(t) : k # 1 => \E j \in Depth(t)' :
            stack'[t][j].step \in Ending /\ stack'[t][j].inst = stack[t][k].inst
  BY <1>1, <1>2, <1>13, DisconnectReturnsFrames
<1>15. ASSUME NEW u \in Thread, NEW k \in Depth(u)'
       PROVE  u = t
  <2>1. \A s : s = <<>> => 1..Len(s) = {}
    OBVIOUS
  <2>. QED
    BY <1>9, <1>15, <2>1 DEF Depth
<1>16. Living'
  <2> SUFFICES ASSUME NEW q \in 1..size', NEW j, j = mem'[q].inst
               PROVE  Leaving(j)' \/ Lives(mem[q])'
    BY DEF Living, Leaving
  <2>1. PICK o \in 1..size : o # e /\ mem'[q] = mem[o]
    BY <1>7
  <2>2. CASE Lives(mem[o])
    BY <1>2, <2>1, <2>2 DEF Lives
  <2>3. CASE Leaving(j)
    <3>1. PICK k \in Depth(t) : stack[t][k].inst = j
      BY <1>3, <2>3 DEF Leaving
    <3>2. k # 1
      BY <1>1, <1>6, <2>1, <3>1, TopFrame
    <3>. QED
      BY <1>14, <3>1, <3>2 DEF Leaving
  <2>. QED
    BY <2>1, <2>2, <2>3 DEF Undisturbed, Living
<1>17. Connecting'
  <2> SUFFICES ASSUME NEW u \in Thread, NEW k \in Depth(u)', NEW g, g = stack'[u][k]
               PROVE  ConnectKnows(g)' /\ g.step \notin Building
    BY DEF Connecting, ConnectKnows, Building
  <2>1. g.step \in {"destroy", "deleted"}
    BY <1>14, <1>15
  <2>. QED
    BY <2>1 DEF ConnectKnows, Building
<1>18. Disconnecting'
  <2> SUFFICES ASSUME NEW u \in Thread, NEW k \in Depth(u)', NEW g, g = stack'[u][k]
               PROVE  /\ DisconnectKnows(g)'
                      /\ g.inst \notin alive' /\ ~(k = 1 /\ g.step = "destroy")
                      /\ \A j \in Depth(u)' : stack'[u][j].inst = g.inst => j = k
    BY DEF Disconnecting, DisconnectKnows
  <2>1. u = t
    BY <1>15
  <2>. QED
    BY <1>14, <2>1
<1>19. Unlisted'
  <2>1. sinst[m] = NoInst /\ libs[m] = 0 /\ i \notin alive
    BY <1>1, TopKnows, GoneRefersToNothing DEF DisconnectKnows
  <2>2. \A n \in Module : /\ ~Cached(n)' => sinst'[n] = NoInst
                          /\ sinst'[n] # NoInst => sinst'[n][1] = n
    BY <1>2, <1>3, <1>8, <2>1 DEF Undisturbed, Unlisted
  <2>3. \A n \in Module : ~Cached(n)' => libs'[n] = 0
    BY <1>2, <1>3, <1>8, <2>1 DEF Undisturbed, Unlisted
  <2>4. \A j \in alive' : Known(j)'
    BY <1>2, <1>3, <1>8, <2>1 DEF Undisturbed, Unlisted
  <2>5. \A j \in Instance : refs'[j] = NoInst \/ j \in alive'
    BY <1>2, <1>3 DEF Undisturbed, Unlisted
  <2>. QED
    BY <2>2, <2>3, <2>4, <2>5 DEF Unlisted
<1>. QED
  BY <1>9, <1>11, <1>12, <1>16, <1>17, <1>18, <1>19 DEF Undisturbed

-----------------------------------------------------------------------------
(* The inductive invariant holds in every reachable state *)

LEMMA Initially ==
  ASSUME Init
  PROVE  IInv
<1>1. TypeOK
  <2>1. /\ 0 \in 0..(CountMod - 1) /\ 0 \in 0..MaxMade /\ 0 \in 0..MaxCalls /\ 0 \in Nat
    BY Finite, Constants, BoundAssumption
  <2>2. \A t \in Thread : stack[t] = <<>> /\ <<>> \in Seq(FrameType)
    BY DEF Init
  <2>3. stack \in [Thread -> Seq(FrameType)]
    BY <2>2 DEF Init
  <2>4. NoEntry \in [mod : Module \cup {None}, count : 0..(CountMod - 1),
                     inst : Instance \cup {NoInst}]
    BY <2>1 DEF NoEntry
  <2>. QED
    BY <2>1, <2>3, <2>4 DEF Init, TypeOK
<1>2. /\ \A t \in Thread : stack[t] = <<>> /\ Depth(t) = {}
      /\ 1..size = {}
  <2>1. \A s : s = <<>> => 1..Len(s) = {}
    OBVIOUS
  <2>. QED
    BY <2>1 DEF Init, Depth
<1>3. Formed
  <2>1. Filled
    BY <1>2 DEF Filled, Init, NoEntry
  <2>2. FramesFilled /\ Nesting /\ Asking
    BY <1>2 DEF FramesFilled, Nesting, Asking
  <2>. QED
    BY <2>1, <2>2 DEF Formed
<1>4. \A i \in Instance : References(i) = 0
  <2> SUFFICES ASSUME NEW i \in Instance
               PROVE  References(i) = 0
    OBVIOUS
  <2>1. Holding(i) = {} /\ Using(i) = {} /\ Pending(i) = {}
    BY <1>2, Constants DEF Init, Holding, Using, Pending, Releases
  <2>. QED
    BY <2>1, FS_EmptySet DEF References
<1>5. Apart
  <2>1. \A s : s = <<>> => ~Slow(s) /\ ~Counting(s)
    <3>1. \A s : s = <<>> => 1..Len(s) = {}
      OBVIOUS
    <3>. QED
      BY <3>1 DEF Slow, Counting
  <2>. QED
    BY <1>2, <2>1 DEF Apart, Conflict
<1>6. Listed /\ Counted /\ Living
  BY <1>2, <1>4 DEF Listed, Counted, Living
<1>7. Connecting /\ Disconnecting
  BY <1>2 DEF Connecting, Disconnecting
<1>8. Unlisted
  BY DEF Init, Unlisted
<1>. QED
  BY <1>1, <1>3, <1>5, <1>6, <1>7, <1>8 DEF IInv, Undisturbed

(* An invariant of calls that have not disturbed each other is one if a     *)
(* step keeps it that leaves them so.                                       *)
LEMMA IInvStep ==
  ASSUME IInv, TypeOK', Formed', raced => raced', shifted => shifted',
         Undisturbed /\ ~raced' /\ ~shifted' => Undisturbed'
  PROVE  IInv'
BY DEF IInv

(* Every step keeps the inductive invariant.                                *)
LEMMA ActionKeeps ==
  ASSUME IInv, NEW t \in Thread,
         \/ \E m \in Module : ClientConnect(t, m)
         \/ FindCached(t) \/ ReadHit(t) \/ UseCached(t) \/ LoadLibrary(t)
         \/ Construct(t) \/ Constructed(t) \/ PushEntry(t)
         \/ \E i \in holds[t] : ClientDisconnect(t, i)
         \/ FindEntry(t) \/ ReadCount(t) \/ CountDown(t) \/ DestroyInstance(t)
         \/ InstanceDeleted(t) \/ UnloadModule(t) \/ RemoveCached(t)
  PROVE  IInv'
<1>. TypeOK /\ Formed
  BY DEF IInv
<1>1. ASSUME NEW m \in Module, ClientConnect(t, m)
      PROVE  IInv'
  <2>1. TypeOK' /\ Formed'
    BY <1>1, ClientConnectForm, Zenon
  <2>2. (raced => raced') /\ (shifted => shifted')
    BY <1>1, Zenon DEF ClientConnect, Call, Goes
  <2>. QED
    BY <1>1, <2>1, <2>2, ClientConnectUndisturbed, IInvStep
<1>2. CASE FindCached(t)
  <2>1. TypeOK' /\ Formed'
    BY <1>2, FindCachedForm, Zenon
  <2>2. (raced => raced') /\ (shifted => shifted')
    BY <1>2, Zenon DEF FindCached, Step, Goes
  <2>. QED
    BY <1>2, <2>1, <2>2, FindCachedUndisturbed, IInvStep
<1>3. CASE ReadHit(t)
  <2>1. TypeOK' /\ Formed'
    BY <1>3, ReadHitForm, Zenon
  <2>2. (raced => raced') /\ (shifted => shifted')
    BY <1>3, Zenon DEF ReadHit, Step, Goes
  <2>. QED
    BY <1>3, <2>1, <2>2, ReadHitUndisturbed, IInvStep
<1>4. CASE UseCached(t)
  <2>1. TypeOK' /\ Formed'
    BY <1>4, UseCachedForm, Zenon
  <2>2. (raced => raced') /\ (shifted => shifted')
    BY <1>4, Zenon DEF UseCached, ConnectReturns, Goes
  <2>. QED
    BY <1>4, <2>1, <2>2, UseCachedUndisturbed, IInvStep
<1>5. CASE LoadLibrary(t)
  <2>1. TypeOK' /\ Formed'
    BY <1>5, LoadLibraryForm, Zenon
  <2>2. (raced => raced') /\ (shifted => shifted')
    BY <1>5, Zenon DEF LoadLibrary, Step, Goes
  <2>. QED
    BY <1>5, <2>1, <2>2, LoadLibraryUndisturbed, IInvStep
<1>6. CASE Construct(t)
  <2>1. TypeOK' /\ Formed'
    BY <1>6, ConstructForm, Zenon
  <2>2. (raced => raced') /\ (shifted => shifted')
    BY <1>6, Zenon DEF Construct, Call, Step, Goes
  <2>. QED
    BY <1>6, <2>1, <2>2, ConstructUndisturbed, IInvStep
<1>7. CASE Constructed(t)
  <2>1. TypeOK' /\ Formed'
    BY <1>7, ConstructedForm, Zenon
  <2>2. (raced => raced') /\ (shifted => shifted')
    BY <1>7, Zenon DEF Constructed, Step, Goes
  <2>. QED
    BY <1>7, <2>1, <2>2, ConstructedUndisturbed, IInvStep
<1>8. CASE PushEntry(t)
  <2>1. TypeOK' /\ Formed'
    BY <1>8, PushEntryForm, Zenon
  <2>2. (raced => raced') /\ (shifted => shifted')
    BY <1>8, Zenon DEF PushEntry, ConnectReturns, Goes
  <2>. QED
    BY <1>8, <2>1, <2>2, PushEntryUndisturbed, IInvStep
<1>9. ASSUME NEW i \in holds[t], ClientDisconnect(t, i)
      PROVE  IInv'
  <2>1. TypeOK' /\ Formed'
    BY <1>9, ClientDisconnectForm, Zenon
  <2>2. (raced => raced') /\ (shifted => shifted')
    BY <1>9, Zenon DEF ClientDisconnect, Call, Goes
  <2>. QED
    BY <1>9, <2>1, <2>2, ClientDisconnectUndisturbed, IInvStep
<1>10. CASE FindEntry(t)
  <2>1. TypeOK' /\ Formed'
    BY <1>10, FindEntryForm, Zenon
  <2>2. (raced => raced') /\ (shifted => shifted')
    BY <1>10, Zenon DEF FindEntry, DisconnectReturns, Step, Goes
  <2>. QED
    BY <1>10, <2>1, <2>2, FindEntryUndisturbed, IInvStep
<1>11. CASE ReadCount(t)
  <2>1. TypeOK' /\ Formed'
    BY <1>11, ReadCountForm, Zenon
  <2>2. (raced => raced') /\ (shifted => shifted')
    BY <1>11, Zenon DEF ReadCount, Step, Goes
  <2>. QED
    BY <1>11, <2>1, <2>2, ReadCountUndisturbed, IInvStep
<1>12. CASE CountDown(t)
  <2>1. TypeOK' /\ Formed'
    BY <1>12, CountDownForm, Zenon
  <2>2. (raced => raced') /\ (shifted => shifted')
    BY <1>12, Zenon DEF CountDown, DropTo, DisconnectReturns, Step, Goes
  <2>. QED
    BY <1>12, <2>1, <2>2, CountDownUndisturbed, IInvStep
<1>13. CASE DestroyInstance(t)
  <2>1. TypeOK' /\ Formed'
    BY <1>13, DestroyInstanceForm, Zenon
  <2>2. (raced => raced') /\ (shifted => shifted')
    BY <1>13, Zenon DEF DestroyInstance, Goes
  <2>. QED
    BY <1>13, <2>1, <2>2, DestroyInstanceUndisturbed, IInvStep
<1>14. CASE InstanceDeleted(t)
  <2>1. TypeOK' /\ Formed'
    BY <1>14, InstanceDeletedForm, Zenon
  <2>2. (raced => raced') /\ (shifted => shifted')
    BY <1>14, Zenon DEF InstanceDeleted, Step, Goes
  <2>. QED
    BY <1>14, <2>1, <2>2, InstanceDeletedUndisturbed, IInvStep
<1>15. CASE UnloadModule(t)
  <2>1. TypeOK' /\ Formed'
    BY <1>15, UnloadModuleForm, Zenon
  <2>2. (raced => raced') /\ (shifted => shifted')
    BY <1>15, Zenon DEF UnloadModule, Step, Goes
  <2>. QED
    BY <1>15, <2>1, <2>2, UnloadModuleUndisturbed, IInvStep
<1>16. CASE RemoveCached(t)
  <2>1. TypeOK' /\ Formed'
    BY <1>16, RemoveCachedForm, Zenon
  <2>2. (raced => raced') /\ (shifted => shifted')
    BY <1>16, Zenon DEF RemoveCached, DisconnectReturns, Goes
  <2>. QED
    BY <1>16, <2>1, <2>2, RemoveCachedUndisturbed, IInvStep
<1>. QED
  BY <1>1, <1>2, <1>3, <1>4, <1>5, <1>6, <1>7, <1>8, <1>9, <1>10, <1>11, <1>12, <1>13,
     <1>14, <1>15, <1>16

LEMMA StutterKeeps ==
  ASSUME IInv, UNCHANGED vars
  PROVE  IInv'
<1>1. UNCHANGED <<mem, size, libs, sinst, alive, refs, holds, stack, made, calls,
                  shifted, raced>>
  BY DEF vars
<1>2. TypeOK'
  BY <1>1 DEF IInv, TypeOK
<1>3. Formed'
  BY <1>1 DEF IInv, Formed, Filled, FramesFilled, FrameFilled, Nesting, Asking, Depth
<1>4. (\A m : Cached(m)' <=> Cached(m)) /\ \A i : Known(i)' <=> Known(i)
  BY <1>1 DEF Cached, Known
<1>5. ASSUME Undisturbed
      PROVE  Undisturbed'
  <2>1. Apart' /\ Listed'
    BY <1>1, <1>5 DEF Undisturbed, Apart, Conflict, Slow, Counting, Listed
  <2>2. Counted'
    BY <1>1, <1>5 DEF Undisturbed, Counted, References, Holding, Using, Pending,
                      Releases, Known
  <2>3. Living'
    BY <1>1, <1>5 DEF Undisturbed, Living, Leaving, Lives, Depth
  <2>4. Connecting'
    BY <1>1, <1>4, <1>5 DEF Undisturbed, Connecting, ConnectKnows, Alone, Depth, Cached
  <2>5. Disconnecting'
    BY <1>1, <1>5 DEF Undisturbed, Disconnecting, DisconnectKnows, Depth
  <2>6. Unlisted'
    BY <1>1, <1>5 DEF Undisturbed, Unlisted, Cached, Known, Adding, Making, Loading,
                      At, Top, Depth
  <2>. QED
    BY <2>1, <2>2, <2>3, <2>4, <2>5, <2>6 DEF Undisturbed
<1>. QED
  BY <1>1, <1>2, <1>3, <1>5 DEF IInv

LEMMA IInvHolds == Spec => []IInv
<1>1. Init => IInv
  BY Initially
<1>2. IInv /\ [Next]_vars => IInv'
  <2> SUFFICES ASSUME IInv, [Next]_vars
               PROVE  IInv'
    OBVIOUS
  <2>1. CASE Next
    <3>1. PICK t \in Thread :
            \/ \E m \in Module : ClientConnect(t, m)
            \/ FindCached(t) \/ ReadHit(t) \/ UseCached(t) \/ LoadLibrary(t)
            \/ Construct(t) \/ Constructed(t) \/ PushEntry(t)
            \/ \E i \in holds[t] : ClientDisconnect(t, i)
            \/ FindEntry(t) \/ ReadCount(t) \/ CountDown(t) \/ DestroyInstance(t)
            \/ InstanceDeleted(t) \/ UnloadModule(t) \/ RemoveCached(t)
      BY <2>1, Zenon DEF Next
    <3>. QED
      BY <3>1, ActionKeeps, Zenon
  <2>2. CASE UNCHANGED vars
    BY <2>2, StutterKeeps
  <2>. QED
    BY <2>1, <2>2
<1>. QED
  BY <1>1, <1>2, PTL DEF Spec

(* The variables keep their types, at any number of threads, modules and    *)
(* objects (ModuleImpl.cpp's Connect and Disconnect, at every interleaving).*)
THEOREM ModulesTypeCorrect == Spec => []TypeOK
<1>1. IInv => TypeOK
  BY DEF IInv
<1>. QED
  BY <1>1, IInvHolds, PTL

-----------------------------------------------------------------------------
(* What a client is connected to exists, and the entries count it *)

LEMMA HeldLives ==
  ASSUME TypeOK, Formed, Undisturbed
  PROVE  HeldIsLive
<1> SUFFICES ASSUME NEW t \in Thread, NEW i \in holds[t]
             PROVE  i \in alive /\ libs[i[1]] > 0
  BY DEF HeldIsLive
<1>1. i \in Instance
  BY DEF TypeOK
<1>2. References(i) # 0
  <2>1. Holding(i) # {}
    BY DEF Holding
  <2>2. Cardinality(Holding(i)) # 0
    BY <2>1, ReferenceSets, FS_EmptySet
  <2>. QED
    BY <2>2, ReferenceSets, Finite DEF References
<1>3. PICK q \in 1..size : mem[q].inst = i
  BY <1>1, <1>2 DEF Undisturbed, Counted, Known
<1>4. ~Leaving(i)
  <2> SUFFICES ASSUME NEW u \in Thread, NEW k \in Depth(u),
                      stack[u][k].step \in Ending, stack[u][k].inst = i
               PROVE  FALSE
    BY DEF Leaving
  <2>1. PICK p \in 1..size : mem[p].inst = i /\ mem[p].count = 0
    BY DEF Undisturbed, Disconnecting, DisconnectKnows
  <2>. QED
    BY <1>2, <2>1 DEF Undisturbed, Counted
<1>5. Lives(mem[q]) /\ mem[q].mod = i[1]
  BY <1>3, <1>4 DEF Undisturbed, Living, Listed
<1>. QED
  BY <1>3, <1>5 DEF Lives

(* With no call in progress all references are clients' and objects'.       *)
LEMMA CountsMatchBetweenCalls ==
  ASSUME TypeOK, Formed, Undisturbed
  PROVE  CountsMatch
<1> SUFFICES ASSUME \A t \in Thread : stack[t] = <<>>
             PROVE  /\ \A e \in Entries : e.count = Holders(e.inst) /\ e.count > 0
                    /\ {e.inst : e \in Entries} = alive
                    /\ \A m \in Module : libs[m] = Cardinality({i \in alive : i[1] = m})
  BY DEF CountsMatch
<1>1. \A t \in Thread : Depth(t) = {} /\ ~At(t, "push") /\ ~At(t, "made")
  <2>1. \A s : s = <<>> => 1..Len(s) = {}
    OBVIOUS
  <2>. QED
    BY <2>1 DEF Depth, At
<1>2. /\ \A i : ~Leaving(i) /\ ~Adding(i) /\ ~Making(i)
      /\ \A m : ~Loading(m)
  BY <1>1 DEF Leaving, Adding, Making, Loading
<1>3. \A q \in 1..size : /\ Lives(mem[q]) /\ mem[q].inst \in Instance
                         /\ mem[q].count = References(mem[q].inst)
                         /\ mem[q].inst[1] = mem[q].mod
  BY <1>2, Types DEF Undisturbed, Living, Counted, Listed, Formed, Filled
<1>4. \A i \in alive : \E q \in 1..size : mem[q].inst = i /\ mem[q].mod = i[1]
  BY <1>2, <1>3 DEF Undisturbed, Unlisted, Known
<1>5. \A i \in Instance : References(i) = Holders(i)
  <2> SUFFICES ASSUME NEW i \in Instance
               PROVE  References(i) = Holders(i)
    OBVIOUS
  <2>1. Pending(i) = {}
    BY DEF Pending, Releases
  <2>2. Using(i) = {j \in alive : refs[j] = i}
    <3>1. \A j \in Instance : refs[j] = i => j \in alive
      BY <1>2, Constants DEF Undisturbed, Unlisted
    <3>. QED
      BY <3>1 DEF Using, TypeOK
  <2>3. Cardinality(Pending(i)) = 0
    BY <2>1, FS_EmptySet
  <2>. QED
    <3>1. Holders(i) = Cardinality(Holding(i)) + Cardinality(Using(i))
      BY <2>2 DEF Holders, Holding
    <3>2. References(i) = Cardinality(Holding(i)) + Cardinality(Using(i)) + 0
      BY <2>3 DEF References
    <3>. QED
      BY <3>1, <3>2, ReferenceSets, Finite
<1>6. \A e \in Entries : e.count = Holders(e.inst) /\ e.count > 0
  BY <1>3, <1>5 DEF Entries, Lives
<1>7. {e.inst : e \in Entries} = alive
  <2>1. \A e \in Entries : e.inst \in alive
    BY <1>3 DEF Entries, Lives
  <2>2. \A i \in alive : \E e \in Entries : e.inst = i
    BY <1>4 DEF Entries
  <2>. QED
    BY <2>1, <2>2
<1>8. ASSUME NEW m \in Module
      PROVE  libs[m] = Cardinality({i \in alive : i[1] = m})
  <2>1. CASE Cached(m)
    <3>1. PICK q \in 1..size : mem[q].mod = m
      BY <2>1 DEF Cached
    <3>2. \A i \in alive : i[1] = m => i = mem[q].inst
      BY <1>4, <3>1 DEF Undisturbed, Listed
    <3>3. mem[q].inst \in alive /\ mem[q].inst[1] = m /\ libs[m] = 1
      BY <1>3, <3>1 DEF Lives
    <3>4. {i \in alive : i[1] = m} = {mem[q].inst}
      BY <3>2, <3>3
    <3>. QED
      BY <3>3, <3>4, FS_Singleton
  <2>2. CASE ~Cached(m)
    <3>1. {i \in alive : i[1] = m} = {}
      BY <1>4, <2>2 DEF Cached
    <3>2. libs[m] = 0
      BY <1>2, <2>2 DEF Undisturbed, Unlisted
    <3>. QED
      BY <3>1, <3>2, FS_EmptySet
  <2>. QED
    BY <2>1, <2>2
<1>. QED
  BY <1>6, <1>7, <1>8

(* Until calls of two threads conflict, or an erase moves an entry in use:  *)
(* what a client is connected to exists and its library is loaded, and      *)
(* between calls every entry counts its clients and objects and nothing     *)
(* else is loaded (ModuleImpl.cpp's Connect and Disconnect).                *)
THEOREM InstancesStayHeld == Spec => []HeldUnlessDisturbed
<1>1. IInv => HeldUnlessDisturbed
  BY HeldLives, CountsMatchBetweenCalls DEF IInv, HeldUnlessDisturbed
<1>. QED
  BY <1>1, IInvHolds, PTL
=============================================================================
