--------------------------- MODULE ModuleManager ---------------------------
(***************************************************************************)
(* The module manager (System/Module/ModuleImpl.cpp): Connect hands out    *)
(* the one instance of a module, loading its library and creating it at    *)
(* the first call, and Disconnect destroys it with the last reference.     *)
(* A module's constructor may connect to another module and its destructor *)
(* disconnects from it, so calls nest on a thread's stack.                 *)
(*                                                                         *)
(* mConnectedModulesList is a vector.  gListMutex covers one search, one   *)
(* push_back or one erase; what a search returns is a raw pointer to an    *)
(* entry, modelled as its position: the entry found there later may be     *)
(* another one, and behind the end the old bytes are still there.  That    *)
(* push_back moves the vector to a larger buffer is left out.              *)
(*                                                                         *)
(* Bounds: MaxCalls, MaxMade; once calls have disturbed each other, those   *)
(* in progress end and no new one starts.                                  *)
(***************************************************************************)
EXTENDS Naturals, Sequences, FiniteSets

CONSTANTS
  Thread,
  Module,
  None,        \* no module
  Needs,       \* the module each constructor connects to, or None
  MaxCalls,    \* bound: calls of Connect by clients
  MaxMade      \* bound: objects created, and entries of the vector

ASSUME NeedsAssumption ==
  /\ None \notin Module
  /\ Needs \in [Module -> Module \cup {None}]
ASSUME BoundAssumption == MaxCalls \in Nat /\ MaxMade \in Nat
ASSUME FiniteAssumption == IsFiniteSet(Thread) /\ IsFiniteSet(Module)

Instance == Module \X (1..MaxMade)             \* a module and the address of an object
NoInst == <<None, 0>>
Slot == 1..MaxMade
\* Stands for the 2^32 of connect_count, which is more than can have a reference.
CountMod == 2 * Cardinality(Thread) + Cardinality(Instance) + 1

VARIABLES
  mem,         \* the vector's buffer: module (its handle), count, instance
  size,        \* the vector's size
  libs,        \* per module: dlopen calls not yet undone
  sinst,       \* per library: its singleton
  alive,       \* instances constructed and not deleted
  refs,        \* per instance: the instance its constructor connected to
  holds,       \* per thread: the instances its client is connected to
  stack,       \* per thread: the calls in progress, innermost first
  made,        \* instances created so far
  calls,       \* Connect calls of clients so far
  shifted,     \* history: an erase moved an entry a Disconnect points at
  raced        \* history: calls of two threads conflicted

vars == <<mem, size, libs, sinst, alive, refs, holds, stack, made, calls,
          shifted, raced>>

Entries == {mem[i] : i \in 1..size}
NoEntry == [mod |-> None, count |-> 0, inst |-> NoInst]

Init ==
  /\ mem = [i \in Slot |-> NoEntry]
  /\ size = 0
  /\ libs = [m \in Module |-> 0]
  /\ sinst = [m \in Module |-> NoInst]
  /\ alive = {}
  /\ refs = [i \in Instance |-> NoInst]
  /\ holds = [t \in Thread |-> {}]
  /\ stack = [t \in Thread |-> <<>>]
  /\ made = 0
  /\ calls = 0
  /\ shifted = FALSE
  /\ raced = FALSE

-----------------------------------------------------------------------------
\* A call in progress: its step, module, instance, pointer to an entry, and the
\* count read there.
Frame(step, m, i, p) == [step |-> step, mod |-> m, inst |-> i, ptr |-> p, val |-> 0]
Top(t) == Head(stack[t])
At(t, step) == stack[t] # <<>> /\ Top(t).step = step

\* Loading, constructing, destroying or unloading.
Slow(st) == \E k \in 1..Len(st) :
              st[k].step \in {"load", "create", "made", "push", "destroy",
                              "deleted", "unload", "remove"}
\* Counting, with no lock: ++ and -- read and write.
Counting(st) == st # <<>> /\ Head(st).step \in {"hit", "bump", "count", "drop"}
Conflict(st1, st2) ==
  \/ Slow(st1) /\ st2 # <<>>
  \/ Counting(st1) /\ Counting(st2) /\ Head(st1).ptr = Head(st2).ptr

\* Thread t's calls in progress become st.
Goes(t, st) ==
  /\ stack' = [stack EXCEPT ![t] = st]
  /\ raced' = (raced \/ \E u, v \in Thread : u # v /\ Conflict(stack'[u], stack'[v]))
Step(t, frame) == Goes(t, <<frame>> \o Tail(stack[t]))
Call(t, frame) == Goes(t, <<frame>> \o stack[t])
Idle(t) == stack[t] = <<>> /\ ~raced /\ ~shifted

\* What FindCachedModule returns: the last position of S, 0 for NULL.
Last(S) == IF S = {} THEN 0 ELSE CHOOSE i \in S : \A j \in S : j <= i
FindCachedModule(m) == Last({i \in 1..size : mem[i].mod = m})
FindCachedInstance(i) == Last({k \in 1..size : mem[k].inst = i})

-----------------------------------------------------------------------------
(* Connect.                                                                 *)

ClientConnect(t, m) ==
  /\ Idle(t)
  /\ calls < MaxCalls
  /\ \A i \in holds[t] : i[1] # m
  /\ calls' = calls + 1
  /\ Call(t, Frame("find", m, NoInst, 0))
  /\ UNCHANGED <<mem, size, libs, sinst, alive, refs, holds, made, shifted>>

\* The result goes to the client, or to the constructor that made the call.
ConnectReturns(t, i) ==
  IF Len(stack[t]) = 1
  THEN /\ holds' = [holds EXCEPT ![t] = @ \cup {i}]
       /\ Goes(t, <<>>)
       /\ UNCHANGED refs
  ELSE LET up == stack[t][2] IN
       /\ refs' = [refs EXCEPT ![up.inst] = i]
       /\ Goes(t, <<[up EXCEPT !.step = "made"]>> \o Tail(Tail(stack[t])))
       /\ UNCHANGED holds

FindCached(t) ==
  /\ At(t, "find")
  /\ LET p == FindCachedModule(Top(t).mod) IN
       Step(t, Frame(IF p = 0 THEN "load" ELSE "hit", Top(t).mod, NoInst, p))
  /\ UNCHANGED <<mem, size, libs, sinst, alive, refs, holds, made, calls, shifted>>

ReadHit(t) ==
  /\ At(t, "hit")
  /\ Step(t, [Top(t) EXCEPT !.step = "bump", !.val = mem[Top(t).ptr].count])
  /\ UNCHANGED <<mem, size, libs, sinst, alive, refs, holds, made, calls, shifted>>

\* Faulty: an existing instance is handed out without counting.
HitUncounted(t) ==
  /\ At(t, "bump")
  /\ ConnectReturns(t, mem[Top(t).ptr].inst)
  /\ UNCHANGED <<mem, size, libs, sinst, alive, made, calls, shifted>>

UseCached(t) ==
  /\ At(t, "bump")
  /\ mem' = [mem EXCEPT ![Top(t).ptr].count = (Top(t).val + 1) % CountMod]
  /\ ConnectReturns(t, mem[Top(t).ptr].inst)
  /\ UNCHANGED <<size, libs, sinst, alive, made, calls, shifted>>

\* LoadModule, and CreateInstance up to the test of sinst
LoadLibrary(t) ==
  /\ At(t, "load")
  /\ LET m == Top(t).mod IN
       /\ libs' = [libs EXCEPT ![m] = @ + 1]
       /\ IF sinst[m] # NoInst
          THEN /\ Step(t, Frame("push", m, sinst[m], 0))
               /\ UNCHANGED made
          ELSE /\ made < MaxMade
               /\ made' = made + 1
               /\ Step(t, Frame("create", m, <<m, made'>>, 0))
  /\ UNCHANGED <<mem, size, sinst, alive, refs, holds, calls, shifted>>

\* The constructor's own Connect
Construct(t) ==
  /\ At(t, "create")
  /\ LET n == Needs[Top(t).mod] IN
       IF n = None THEN Step(t, [Top(t) EXCEPT !.step = "made"])
       ELSE Call(t, Frame("find", n, NoInst, 0))
  /\ UNCHANGED <<mem, size, libs, sinst, alive, refs, holds, made, calls, shifted>>

Constructed(t) ==
  /\ At(t, "made")
  /\ alive' = alive \cup {Top(t).inst}
  /\ sinst' = [sinst EXCEPT ![Top(t).mod] = Top(t).inst]
  /\ Step(t, [Top(t) EXCEPT !.step = "push"])
  /\ UNCHANGED <<mem, size, libs, refs, holds, made, calls, shifted>>

PushEntry(t) ==
  /\ At(t, "push")
  /\ size < MaxMade
  /\ size' = size + 1
  /\ mem' = [mem EXCEPT ![size'] = [mod |-> Top(t).mod, count |-> 1, inst |-> Top(t).inst]]
  /\ ConnectReturns(t, Top(t).inst)
  /\ UNCHANGED <<libs, sinst, alive, made, calls, shifted>>

-----------------------------------------------------------------------------
(* Disconnect.                                                              *)

ClientDisconnect(t, i) ==
  /\ Idle(t)
  /\ i \in holds[t]
  /\ holds' = [holds EXCEPT ![t] = @ \ {i}]
  /\ Call(t, Frame("lookup", i[1], i, 0))
  /\ UNCHANGED <<mem, size, libs, sinst, alive, refs, made, calls, shifted>>

\* To the client, or to the destructor that made the call.
DisconnectReturns(t) ==
  Goes(t, IF Len(stack[t]) = 1 THEN <<>>
          ELSE <<[stack[t][2] EXCEPT !.step = "deleted"]>>
               \o Tail(Tail(stack[t])))

FindEntry(t) ==
  /\ At(t, "lookup")
  /\ LET p == FindCachedInstance(Top(t).inst) IN
       IF p = 0 THEN DisconnectReturns(t)
       ELSE Step(t, [Top(t) EXCEPT !.step = "count", !.ptr = p])
  /\ UNCHANGED <<mem, size, libs, sinst, alive, refs, holds, made, calls, shifted>>

ReadCount(t) ==
  /\ At(t, "count")
  /\ Step(t, [Top(t) EXCEPT !.step = "drop", !.val = mem[Top(t).ptr].count])
  /\ UNCHANGED <<mem, size, libs, sinst, alive, refs, holds, made, calls, shifted>>

\* Writes the count, and destroys the instance at a count of last.
DropTo(t, last) ==
  /\ At(t, "drop")
  /\ LET c == (Top(t).val + CountMod - 1) % CountMod IN
       /\ mem' = [mem EXCEPT ![Top(t).ptr].count = c]
       /\ IF c = last THEN Step(t, [Top(t) EXCEPT !.step = "destroy"])
          ELSE DisconnectReturns(t)
  /\ UNCHANGED <<size, libs, sinst, alive, refs, holds, made, calls, shifted>>

\* Faulty: the instance is destroyed while one reference is left.
CountOffByOne(t) == DropTo(t, 1)

CountDown(t) == DropTo(t, 0)

\* DestroyInstance deletes the library's singleton, whatever it is given; the
\* destructor disconnects from the module it needs.
DestroyInstance(t) ==
  /\ At(t, "destroy")
  /\ LET m == mem[Top(t).ptr].mod
         i == sinst[m]
         n == IF i = NoInst THEN NoInst ELSE refs[i]
         up == [Top(t) EXCEPT !.mod = m]
     IN /\ alive' = alive \ {i}
        /\ Goes(t, (IF n = NoInst THEN <<[up EXCEPT !.step = "deleted"]>>
                    ELSE <<Frame("lookup", n[1], n, 0), up>>) \o Tail(stack[t]))
        /\ refs' = IF i = NoInst THEN refs ELSE [refs EXCEPT ![i] = NoInst]
  /\ UNCHANGED <<mem, size, libs, sinst, holds, made, calls, shifted>>

InstanceDeleted(t) ==
  /\ At(t, "deleted")
  /\ sinst' = [sinst EXCEPT ![Top(t).mod] = NoInst]
  /\ Step(t, [Top(t) EXCEPT !.step = "unload"])
  /\ UNCHANGED <<mem, size, libs, alive, refs, holds, made, calls, shifted>>

\* pModule->handle is read again.
UnloadModule(t) ==
  /\ At(t, "unload")
  /\ LET m == mem[Top(t).ptr].mod IN
       libs' = [libs EXCEPT ![m] = IF @ = 0 THEN 0 ELSE @ - 1]
  /\ Step(t, [Top(t) EXCEPT !.step = "remove"])
  /\ UNCHANGED <<mem, size, sinst, alive, refs, holds, made, calls, shifted>>

\* The first entry with the instance pModule has now.
RemoveCached(t) ==
  /\ At(t, "remove")
  /\ LET S == {i \in 1..size : mem[i].inst = mem[Top(t).ptr].inst}
         e == CHOOSE i \in S : \A j \in S : i <= j
     IN IF S = {} THEN UNCHANGED <<mem, size, shifted>>
        ELSE /\ mem' = [i \in Slot |-> IF i >= e /\ i < size THEN mem[i + 1] ELSE mem[i]]
             /\ size' = size - 1
             /\ shifted' = (shifted \/ \E k \in 2..Len(stack[t]) :
                              /\ stack[t][k].ptr > e
                              /\ mem'[stack[t][k].ptr] # mem[stack[t][k].ptr])
  /\ DisconnectReturns(t)
  /\ UNCHANGED <<libs, sinst, alive, refs, holds, made, calls>>

-----------------------------------------------------------------------------
Next ==
  \E t \in Thread :
    \/ \E m \in Module : ClientConnect(t, m)
    \/ FindCached(t) \/ ReadHit(t) \/ UseCached(t) \/ LoadLibrary(t)
    \/ Construct(t) \/ Constructed(t) \/ PushEntry(t)
    \/ \E i \in holds[t] : ClientDisconnect(t, i)
    \/ FindEntry(t) \/ ReadCount(t) \/ CountDown(t) \/ DestroyInstance(t)
    \/ InstanceDeleted(t) \/ UnloadModule(t) \/ RemoveCached(t)

Spec == Init /\ [][Next]_vars

-----------------------------------------------------------------------------
FrameType == [step : {"find", "hit", "bump", "load", "create", "made", "push",
                      "lookup", "count", "drop", "destroy", "deleted", "unload", "remove"},
              mod : Module, inst : Instance \cup {NoInst}, ptr : 0..MaxMade,
              val : 0..(CountMod - 1)]

TypeOK ==
  /\ mem \in [Slot -> [mod : Module \cup {None}, count : 0..(CountMod - 1), inst : Instance \cup {NoInst}]]
  /\ size \in 0..MaxMade
  /\ libs \in [Module -> Nat]
  /\ sinst \in [Module -> Instance \cup {NoInst}]
  /\ alive \subseteq Instance
  /\ refs \in [Instance -> Instance \cup {NoInst}]
  /\ holds \in [Thread -> SUBSET Instance]
  /\ stack \in [Thread -> Seq(FrameType)]
  /\ made \in 0..MaxMade /\ calls \in 0..MaxCalls
  /\ shifted \in BOOLEAN /\ raced \in BOOLEAN

\* Every instance a client is connected to exists, and its library is loaded.
HeldIsLive ==
  \A t \in Thread : \A i \in holds[t] : i \in alive /\ libs[i[1]] > 0

\* Between calls, each entry counts its references, clients and instances, and
\* nothing without a reference is loaded.
Holders(i) == Cardinality({t \in Thread : i \in holds[t]})
              + Cardinality({j \in alive : refs[j] = i})
CountsMatch ==
  (\A t \in Thread : stack[t] = <<>>) =>
    /\ \A e \in Entries : e.count = Holders(e.inst) /\ e.count > 0
    /\ {e.inst : e \in Entries} = alive
    /\ \A m \in Module : libs[m] = Cardinality({i \in alive : i[1] = m})

\* Both hold until a call overlaps the loading or destroying of another thread,
\* two count on one entry, or an erase moves an entry in use.
HeldUnlessDisturbed == raced \/ shifted \/ (HeldIsLive /\ CountsMatch)
==============================================================================
