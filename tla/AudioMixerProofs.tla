-------------------------- MODULE AudioMixerProofs --------------------------
(***************************************************************************)
(* Proofs about AudioMixer, for every number of clients, streams, players  *)
(* and every set of requests.  The inductive invariant is                  *)
(*                                                                         *)
(*    TypeOK /\ Locked /\ Numbers /\ Calls /\ Streams /\ Counts /\ Loops   *)
(*           /\ DoneIsTold /\ Taken                                        *)
(*                                                                         *)
(* Locked is what CAudioModule's mutex buys: while a call is between two   *)
(* sections of the mixer's mutex, no other call changes the streams, so    *)
(* Calls can say what the stream chosen or found holds.  Streams and       *)
(* Counts make PlayersAccounted; Loops is what DoneIsTold needs of the     *)
(* players.                                                                *)
(***************************************************************************)
EXTENDS AudioMixer, FiniteSetTheorems, WellFoundedInduction, TLAPS

-----------------------------------------------------------------------------
(* The inductive invariant *)

(* The callback thread apart, one call at a time is under way.              *)
Locked == \A c \in Client : call[c] # Idle <=> audioLock = c

(* Ids are given out in order.                                              *)
Numbers == \A p \in Player : p >= nextID => player[p].life = "unborn"

(* What the call under way has chosen, made or found.                       *)
Calls ==
  /\ \A c \in Client : call[c].at = "construct" =>
       /\ call[c].id < nextID /\ player[call[c].id].life = "unborn"
       /\ slot[call[c].stream] = None
  /\ \A c \in Client : call[c].at = "attach" =>
       /\ player[call[c].id].life = "alive" /\ ~player[call[c].id].done
       /\ \A s \in Stream : slot[s] # call[c].id
       /\ slot[call[c].stream] = None
  /\ FoundPlayerStays

(* A player that a stream has is alive and in no other stream, and a living *)
(* player is in a stream or with the call that makes it.                    *)
Streams ==
  /\ \A s, t \in Stream : slot[s] = slot[t] /\ slot[s] # None => s = t
  /\ \A s \in Stream : slot[s] # None => player[slot[s]].life = "alive"
  /\ \A p \in Player : player[p].life = "alive" =>
       \/ \E s \in Stream : slot[s] = p
       \/ \E c \in Client : call[c].at = "attach" /\ call[c].id = p

(* The counts are those of the living players.                              *)
Living(k) == {p \in Player : player[p].life = "alive" /\ player[p].kind = k}
Counts == \A k \in Counted : num[k] = Cardinality(Living(k))

(* The callback thread goes on with a stream it has read.                   *)
Taken == renderer.at = "own" => renderer.stream # None

(* Only a player that was asked to loop has loops left.                     *)
Loops == \A p \in Player : player[p].loops > 0 => player[p].looped

IInv == /\ TypeOK /\ Locked /\ Numbers /\ Calls /\ Streams
        /\ Counts /\ Loops /\ DoneIsTold /\ Taken

-----------------------------------------------------------------------------
(* Constants, least and greatest streams, players *)

LEMMA Constants ==
  /\ NoClient \notin Client /\ Limit \in [Counted -> Nat]
  /\ Request \subseteq RequestType /\ Priority \subseteq Nat /\ Position \subseteq Nat
  /\ NumStreams \in Nat \ {0} /\ Buffer \in Nat \ {0}
  /\ MaxPlayers \in Nat \ {0} /\ MaxTold \in Nat \ {0}
  /\ Stream \subseteq Nat /\ Player \subseteq Nat /\ NumStreams \in Stream
  /\ None \notin Player /\ None \notin Stream /\ IsFiniteSet(Player)
<1>1. IsFiniteSet(Player)
  BY SizeAssumption, FS_Interval DEF Player
<1>. QED
  BY <1>1, ClientAssumption, SizeAssumption, LimitAssumption, RequestAssumption,
     PriorityAssumption DEF Player, Stream, None

(* A set of streams that is not empty has a least and a greatest one.       *)
LEMMA LeastNatural ==
  \A S \in SUBSET Nat : S # {} => \E m \in S : \A n \in S : m <= n
<1> SUFFICES ASSUME NEW S \in SUBSET Nat, S # {}
             PROVE  \E m \in S : \A n \in S : m <= n
  OBVIOUS
<1>1. PICK m \in S : \A n \in S : <<n, m>> \notin OpToRel(<, Nat)
  BY NatLessThanWellFounded, WFMin, Zenon
<1>2. \A n \in S : ~(n < m)
  BY <1>1 DEF OpToRel
<1>. QED
  BY <1>2

LEMMA MinOfStreams ==
  ASSUME NEW S \in SUBSET Stream, S # {}
  PROVE  Min(S) \in S /\ \A s \in S : Min(S) <= s
<1>1. \E m \in S : \A n \in S : m <= n
  BY LeastNatural, Constants
<1>. QED
  BY <1>1 DEF Min

LEMMA MaxOfStreams ==
  ASSUME NEW S \in SUBSET Stream, S # {}
  PROVE  Max(S) \in S /\ \A s \in S : Max(S) >= s
<1> DEFINE T == {NumStreams - s : s \in S}
<1>1. \A s \in S : s \in Nat /\ s <= NumStreams
  BY DEF Stream
<1>2. T \in SUBSET Nat /\ T # {}
  <2>1. \A s \in S : NumStreams - s \in Nat
    BY <1>1, Constants
  <2>. QED
    BY <2>1
<1>3. PICK m \in T : \A n \in T : m <= n
  BY <1>2, LeastNatural
<1>4. PICK t \in S : m = NumStreams - t
  BY <1>3
<1>5. \A s \in S : t >= s
  <2> SUFFICES ASSUME NEW s \in S PROVE t >= s
    OBVIOUS
  <2>1. NumStreams - t <= NumStreams - s
    BY <1>3, <1>4
  <2>. QED
    BY <1>1, <2>1, Constants
<1>. QED
  BY <1>4, <1>5 DEF Max

(* The stream a player is looked for in has it.                             *)
LEMMA FoundStream ==
  ASSUME TypeOK, NEW p \in Attached
  PROVE  FindStreamInternal(p) \in Stream /\ slot[FindStreamInternal(p)] = p
<1> DEFINE S == {s \in Stream : slot[s] = p}
<1>1. S # {} /\ S \in SUBSET Stream
  BY DEF Attached
<1>2. Max(S) \in S
  BY <1>1, MaxOfStreams
<1>. QED
  BY <1>2 DEF FindStreamInternal

(* FindFreeStream: a stream, and one that plays only when all do.           *)
LEMMA FreeStream ==
  /\ FindFreeStream \in Stream
  /\ \/ slot[FindFreeStream] = None \/ Done(slot[FindFreeStream])
     \/ FindFreeStream = NumStreams /\ \A s \in Stream : slot[s] # None /\ ~Done(slot[s])
<1> DEFINE free == {s \in Stream : slot[s] = None \/ Done(slot[s])}
<1>1. CASE free = {}
  BY <1>1, Constants DEF FindFreeStream
<1>2. CASE free # {}
  <2>1. Min(free) \in free
    BY <1>2, MinOfStreams
  <2>2. FindFreeStream = Min(free)
    BY <1>2 DEF FindFreeStream
  <2>. QED
    BY <2>1, <2>2
<1>. QED
  BY <1>1, <1>2

(* FindKillableStream: a stream that has a player, one that has finished    *)
(* and was never seeked, or else the one the simple policy chooses.         *)
LEMMA KillableStream ==
  ASSUME NEW sl, NEW k, NEW prio,
         FindKillableStream(sl, k, prio) # None
  PROVE  LET s == FindKillableStream(sl, k, prio)
             busy == {t \in Stream : sl[t] # None}
         IN  /\ s \in busy
             /\ \/ Done(sl[s])
                \/ /\ policy = "simple"
                   /\ player[sl[s]].kind = k /\ player[sl[s]].priority <= prio
                   /\ \A t \in busy :
                        /\ ~Done(sl[t]) \/ player[sl[t]].seeked
                        /\ player[sl[t]].kind = k =>
                             player[sl[s]].priority <= player[sl[t]].priority
<1> DEFINE busy == {s \in Stream : sl[s] # None}
           dead == {s \in busy : Done(sl[s]) /\ ~player[sl[s]].seeked}
           same == {s \in busy : player[sl[s]].kind = k}
           lowest == {s \in same : /\ player[sl[s]].priority <= prio
                                   /\ \A t \in same : player[sl[s]].priority
                                                        <= player[sl[t]].priority}
           found == FindKillableStream(sl, k, prio)
<1>1. found = IF dead # {} THEN Min(dead)
              ELSE IF policy = "simple" /\ lowest # {} THEN Max(lowest) ELSE None
  BY DEF FindKillableStream
<1>2. CASE dead # {}
  <2>1. Min(dead) \in dead
    BY <1>2, MinOfStreams
  <2>. QED
    BY <1>1, <1>2, <2>1
<1>3. CASE dead = {}
  <2>1. policy = "simple" /\ lowest # {}
    BY <1>1, <1>3
  <2>2. Max(lowest) \in lowest
    BY <2>1, MaxOfStreams
  <2>3. found \in lowest
    BY <1>1, <1>3, <2>1, <2>2
  <2>. QED
    BY <1>3, <2>1, <2>3
<1>. QED
  BY <1>2, <1>3

-----------------------------------------------------------------------------
(* What the operators on players and streams do *)

(* The destructors: the counts stay those of the living players.            *)
LEMMA Buried ==
  ASSUME TypeOK, Streams, Counts, Loops, NEW gone, gone \subseteq Attached,
         player' = Bury(gone), num' = Uncount(num, gone)
  PROVE  /\ player' \in [Player -> PlayerType] /\ num' \in [Counted -> Nat]
         /\ \A p \in gone : player'[p].life = "deleted" /\ player[p].life = "alive"
         /\ \A p \in Player \ gone : player'[p] = player[p]
         /\ Counts' /\ Loops'
<1>1. /\ gone \subseteq Player
      /\ \A p \in gone : player[p].life = "alive" /\ \E s \in Stream : slot[s] = p
  BY Constants DEF Attached, Streams, TypeOK
<1>2. \A p \in Player : Gone(p) \in PlayerType /\ Gone(p).life = "deleted" /\ Gone(p).loops = 0
  <2> SUFFICES ASSUME NEW p \in Player
               PROVE  Gone(p) \in PlayerType /\ Gone(p).life = "deleted" /\ Gone(p).loops = 0
    OBVIOUS
  <2>1. NoPlayer \in PlayerType /\ player[p].external \in BOOLEAN
    BY DEF NoPlayer, PlayerType, Kind, Counted, Life, TypeOK
  <2>. QED
    BY <2>1 DEF Gone, NoPlayer, PlayerType, Life
<1>3. /\ \A p \in gone : player'[p] = Gone(p)
      /\ \A p \in Player \ gone : player'[p] = player[p]
      /\ player' \in [Player -> PlayerType]
  BY <1>1, <1>2 DEF Bury, TypeOK
<1>4. Loops'
  BY <1>1, <1>2, <1>3 DEF Loops
<1>5. ASSUME NEW k \in Counted
      PROVE  num'[k] = Cardinality(Living(k)') /\ num'[k] \in Nat
  <2>1. Living(k)' = Living(k) \ gone
    BY <1>1, <1>2, <1>3 DEF Living
  <2>2. {p \in gone : player[p].kind = k} = Living(k) \cap gone
    BY <1>1 DEF Living
  <2>3. IsFiniteSet(Living(k))
    BY Constants, FS_Subset DEF Living
  <2>4. /\ IsFiniteSet(Living(k) \ gone)
        /\ Cardinality(Living(k) \ gone)
             = Cardinality(Living(k)) - Cardinality(Living(k) \cap gone)
    BY <2>3, FS_Difference
  <2>5. num'[k] = num[k] - Cardinality({p \in gone : player[p].kind = k})
    BY DEF Uncount
  <2>6. num'[k] = Cardinality(Living(k) \ gone)
    BY <2>2, <2>4, <2>5 DEF Counts
  <2>. QED
    BY <2>1, <2>4, <2>6, FS_CardinalityType
<1>6. num' \in [Counted -> Nat]
  BY <1>5 DEF Uncount
<1>. QED
  BY <1>1, <1>2, <1>3, <1>4, <1>5, <1>6 DEF Counts

(* RemovePlayers empties the streams of the players that go.                *)
LEMMA Removed ==
  ASSUME TypeOK, Streams, Counts, Loops, NEW gone, gone \subseteq Attached,
         RemovePlayers(gone)
  PROVE  /\ slot' \in [Stream -> Player \cup {None}]
         /\ external' \in [Stream -> BOOLEAN] /\ alsa' \in Stream \cup {None}
         /\ \A s \in Stream : slot'[s] = IF slot[s] \in gone THEN None ELSE slot[s]
<1>1. slot' = [s \in Stream |-> IF slot[s] \in gone THEN None ELSE slot[s]]
  BY DEF RemovePlayers
<1>2. external' \in [Stream -> BOOLEAN]
  BY DEF RemovePlayers, TypeOK
<1>3. alsa' \in Stream \cup {None}
  BY DEF RemovePlayers, TypeOK
<1>. QED
  BY <1>1, <1>2, <1>3 DEF TypeOK

Same(a, b) == /\ a.life = b.life /\ a.kind = b.kind /\ a.wants = b.wants
              /\ a.looped = b.looped /\ a.length = b.length

LEMMA RenderedPlayer ==
  ASSUME NEW pl \in PlayerType, NEW n \in Int
  PROVE  /\ Rendered(pl, n) \in PlayerType /\ Same(Rendered(pl, n), pl)
         /\ Rendered(pl, n).loops = pl.loops
         /\ Rendered(pl, n).done <=> pl.done \/ pl.left < n
<1>1. CASE pl.done
  BY <1>1 DEF Rendered, Same
<1>2. CASE ~pl.done
  <2> DEFINE l == IF pl.left < n THEN 0 ELSE pl.left - n
  <2>1. l \in Nat /\ (pl.left < n) \in BOOLEAN
    BY DEF PlayerType
  <2>2. Rendered(pl, n) = [pl EXCEPT !.left = l, !.done = pl.left < n]
    BY <1>2 DEF Rendered
  <2> HIDE DEF l
  <2>. QED
    BY <1>2, <2>1, <2>2 DEF PlayerType, Same
<1>. QED
  BY <1>1, <1>2

LEMMA RewoundPlayer ==
  ASSUME NEW pl \in PlayerType, pl.loops > 0
  PROVE  /\ Rewound(pl) \in PlayerType /\ Same(Rewound(pl), pl)
         /\ Rewound(pl).loops = pl.loops - 1 /\ ~Rewound(pl).done
         /\ Rewound(pl).left = pl.length
<1>1. pl.loops - 1 \in Nat
  BY DEF PlayerType
<1>. QED
  BY <1>1 DEF Rewound, PlayerType, Same

(* A pass of the mixer ends a player that is out of loops, or one that      *)
(* loops within a buffer.                                                   *)
LEMMA MixedPlayer ==
  ASSUME NEW pl \in PlayerType, ~pl.done
  PROVE  /\ Mixed(pl) \in PlayerType /\ Same(Mixed(pl), pl)
         /\ Mixed(pl).loops <= pl.loops
         /\ Mixed(pl).done => Completes(pl) \/ (pl.loops > 0 /\ pl.length < Buffer)
         /\ Completes(pl) => Mixed(pl).done /\ pl.loops = 0
<1> DEFINE one == Rendered(pl, Buffer)
           rest == Buffer - pl.left
<1>1. Buffer \in Int /\ rest \in Int /\ rest <= Buffer /\ pl.loops \in Nat
  BY Constants DEF PlayerType
<1>2. /\ one \in PlayerType /\ Same(one, pl) /\ one.loops = pl.loops
  BY <1>1, RenderedPlayer
<1>3. Completes(pl) <=> one.done /\ pl.loops = 0
  BY DEF Completes
<1>4. Mixed(pl) = IF one.done /\ one.loops > 0 THEN Rendered(Rewound(one), rest) ELSE one
  BY DEF Mixed
<1> HIDE DEF one, rest
<1>5. CASE one.done /\ one.loops > 0
  <2>1. /\ Rewound(one) \in PlayerType /\ Same(Rewound(one), one)
        /\ Rewound(one).loops = one.loops - 1 /\ ~Rewound(one).done
        /\ Rewound(one).left = one.length
    BY <1>2, <1>5, RewoundPlayer
  <2>2. /\ Rendered(Rewound(one), rest) \in PlayerType
        /\ Same(Rendered(Rewound(one), rest), Rewound(one))
        /\ Rendered(Rewound(one), rest).loops = one.loops - 1
        /\ Rendered(Rewound(one), rest).done => one.length < rest
    BY <1>1, <2>1, RenderedPlayer
  <2>3. one.length = pl.length /\ pl.length \in Nat
    BY <1>2 DEF Same, PlayerType
  <2>. QED
    BY <1>1, <1>2, <1>3, <1>4, <1>5, <2>1, <2>2, <2>3 DEF Same
<1>6. CASE ~(one.done /\ one.loops > 0)
  BY <1>1, <1>2, <1>3, <1>4, <1>6
<1>. QED
  BY <1>5, <1>6

(* The callback of the external stream ends a player that is out of loops.  *)
LEMMA PlayedPlayer ==
  ASSUME NEW pl \in PlayerType
  PROVE  /\ Played(pl) \in PlayerType /\ Same(Played(pl), pl)
         /\ Played(pl).loops <= pl.loops
         /\ Played(pl).done => Completes(pl)
<1> DEFINE one == Rendered(pl, Buffer)
<1>1. Buffer \in Int /\ pl.loops \in Nat
  BY Constants DEF PlayerType
<1>2. /\ one \in PlayerType /\ Same(one, pl) /\ one.loops = pl.loops
  BY <1>1, RenderedPlayer
<1>3. Completes(pl) <=> one.done /\ pl.loops = 0
  BY DEF Completes
<1>4. Played(pl) = IF one.done /\ one.loops > 0 THEN Rewound(one) ELSE one
  BY DEF Played
<1> HIDE DEF one
<1>5. CASE one.done /\ one.loops > 0
  <2>1. /\ Rewound(one) \in PlayerType /\ Same(Rewound(one), one)
        /\ Rewound(one).loops = one.loops - 1 /\ ~Rewound(one).done
    BY <1>2, <1>5, RewoundPlayer
  <2>. QED
    BY <1>1, <1>2, <1>4, <1>5, <2>1 DEF Same
<1>6. CASE ~(one.done /\ one.loops > 0)
  BY <1>1, <1>2, <1>3, <1>4, <1>6
<1>. QED
  BY <1>5, <1>6

(* What a pass of either callback does to the players and the messages.     *)
Pass ==
  /\ player' \in [Player -> PlayerType] /\ told' \in [Player -> 0..MaxTold]
  /\ \A p \in Player :
       /\ Same(player'[p], player[p]) /\ player'[p].loops <= player[p].loops
       /\ (\A s \in Stream : slot[s] # p) => player'[p] = player[p]
       /\ told'[p] >= told[p]
       /\ player'[p].done => \/ Done(p)
                             \/ player[p].wants => told'[p] > 0
                             \/ player[p].loops > 0 /\ player[p].length < Buffer
       /\ told'[p] # told[p] => \/ ~Done(p) /\ player'[p].done /\ player[p].loops = 0
                                \/ renderer.at = "own" /\ slot[renderer.stream] = p

LEMMA Told ==
  ASSUME TypeOK, NEW p \in Player
  PROVE  /\ Tell(p) \in [Player -> 0..MaxTold] /\ Tell(p)[p] > 0
         /\ \A q \in Player : Tell(p)[q] >= told[q] /\ (q # p => Tell(p)[q] = told[q])
<1>1. MaxTold \in Nat \ {0} /\ told \in [Player -> 0..MaxTold]
  BY Constants DEF TypeOK
<1> DEFINE n == IF told[p] < MaxTold THEN told[p] + 1 ELSE told[p]
<1>2. n \in 0..MaxTold /\ n > 0 /\ n >= told[p]
  BY <1>1
<1>3. Tell(p) = [told EXCEPT ![p] = n]
  BY <1>1 DEF Tell
<1> HIDE DEF n
<1>. QED
  BY <1>1, <1>2, <1>3

LEMMA StreamsPass ==
  ASSUME TypeOK, Streams, NEW upto, RenderStreams(upto)
  PROVE  Pass
<1> DEFINE mixed == IF silent THEN {} ELSE {slot[s] : s \in {t \in ToMix : t < upto}}
<1>1. \A p \in mixed : p \in Player /\ ~player[p].done /\ \E s \in Stream : slot[s] = p
  BY DEF ToMix, ToRender, Done, TypeOK
<1>2. /\ player' = [p \in Player |-> IF p \in mixed THEN Mixed(player[p]) ELSE player[p]]
      /\ told' = [p \in Player |->
                    IF p \in mixed /\ player[p].wants /\ Completes(player[p])
                    THEN Tell(p)[p] ELSE told[p]]
  BY DEF RenderStreams
<1> HIDE DEF mixed
<1>3. \A p \in Player : player[p] \in PlayerType /\ told[p] \in 0..MaxTold
  BY DEF TypeOK
<1>4. ASSUME NEW p \in Player
      PROVE  /\ player'[p] \in PlayerType /\ told'[p] \in 0..MaxTold
             /\ Same(player'[p], player[p]) /\ player'[p].loops <= player[p].loops
             /\ (\A s \in Stream : slot[s] # p) => player'[p] = player[p]
             /\ told'[p] >= told[p]
             /\ player'[p].done => \/ Done(p)
                                   \/ player[p].wants => told'[p] > 0
                                   \/ player[p].loops > 0 /\ player[p].length < Buffer
             /\ told'[p] # told[p] => ~Done(p) /\ player'[p].done /\ player[p].loops = 0
  <2>1. player[p].loops \in Nat
    BY <1>3 DEF PlayerType
  <2>2. CASE p \notin mixed
    BY <1>2, <1>3, <2>1, <2>2 DEF Same, Done
  <2>3. CASE p \in mixed
    <3>1. ~player[p].done /\ player'[p] = Mixed(player[p])
      BY <1>1, <1>2, <2>3
    <3>2. /\ Mixed(player[p]) \in PlayerType /\ Same(Mixed(player[p]), player[p])
          /\ Mixed(player[p]).loops <= player[p].loops
          /\ Mixed(player[p]).done =>
               Completes(player[p]) \/ (player[p].loops > 0 /\ player[p].length < Buffer)
          /\ Completes(player[p]) => Mixed(player[p]).done /\ player[p].loops = 0
      BY <1>3, <3>1, MixedPlayer
    <3>3. Tell(p)[p] \in 0..MaxTold /\ Tell(p)[p] > 0 /\ Tell(p)[p] >= told[p]
      BY Told
    <3>4. told'[p] = IF player[p].wants /\ Completes(player[p]) THEN Tell(p)[p] ELSE told[p]
      BY <1>2, <2>3
    <3>. QED
      BY <1>1, <1>3, <2>3, <3>1, <3>2, <3>3, <3>4 DEF Done
  <2>. QED
    BY <2>2, <2>3
<1>5. player' \in [Player -> PlayerType] /\ told' \in [Player -> 0..MaxTold]
  BY <1>2, <1>4
<1>. QED
  BY <1>4, <1>5 DEF Pass

LEMMA ExternalPass ==
  ASSUME TypeOK, Taken, Streams, RenderExternal
  PROVE  Pass
<1> DEFINE p == slot[renderer.stream]
<1>1. \A q \in Player : player[q] \in PlayerType /\ told[q] \in 0..MaxTold /\ player[q].loops \in Nat
  BY DEF TypeOK, PlayerType
<1>2. CASE UNCHANGED <<player, told>>
  BY <1>1, <1>2 DEF Pass, Same, Done, TypeOK
<1>3. CASE ~UNCHANGED <<player, told>>
  <2>1. /\ p # None
        /\ player' = [player EXCEPT ![p] = Played(player[p])]
        /\ told' = IF player[p].wants /\ Completes(player[p]) THEN Tell(p) ELSE told
    BY <1>3 DEF RenderExternal
  <2>2. /\ p \in Player /\ renderer.at = "own"
        /\ renderer.stream \in Stream /\ slot[renderer.stream] = p
    <3>1. renderer.at = "own" /\ renderer.stream \in Stream
      BY DEF RenderExternal, Taken, RendererType, TypeOK
    <3>. QED
      BY <2>1, <3>1 DEF TypeOK
  <2> HIDE DEF p
  <2>3. /\ Played(player[p]) \in PlayerType /\ Same(Played(player[p]), player[p])
        /\ Played(player[p]).loops <= player[p].loops
        /\ Played(player[p]).done => Completes(player[p])
    BY <1>1, <2>2, PlayedPlayer
  <2>4. player' \in [Player -> PlayerType] /\ player'[p] = Played(player[p])
        /\ \A q \in Player \ {p} : player'[q] = player[q]
    BY <2>1, <2>2, <2>3 DEF TypeOK
  <2>5. /\ Tell(p) \in [Player -> 0..MaxTold] /\ Tell(p)[p] > 0
        /\ \A q \in Player : Tell(p)[q] >= told[q] /\ (q # p => Tell(p)[q] = told[q])
    BY <2>2, Told
  <2>6. /\ told' \in [Player -> 0..MaxTold]
        /\ \A q \in Player : told'[q] >= told[q] /\ (q # p => told'[q] = told[q])
        /\ player[p].wants /\ Completes(player[p]) => told'[p] > 0
    <3>1. told \in [Player -> 0..MaxTold] /\ \A q \in Player : told[q] >= told[q]
      <4>1. 0..MaxTold \subseteq Nat
        BY Constants
      <4>. QED
        BY <1>1, <4>1 DEF TypeOK
    <3>2. CASE player[p].wants /\ Completes(player[p])
      <4>1. told' = Tell(p)
        BY <2>1, <3>2
      <4>. QED
        BY <2>5, <3>2, <4>1
    <3>3. CASE ~(player[p].wants /\ Completes(player[p]))
      <4>1. told' = told
        BY <2>1, <3>3
      <4>. QED
        BY <3>1, <3>3, <4>1
    <3>. QED
      BY <3>2, <3>3
  <2>7. \A q \in Player \ {p} : Same(player'[q], player[q]) /\ player'[q].loops <= player[q].loops
    BY <1>1, <2>4 DEF Same
  <2>8. \A q \in Player : told'[q] # told[q] => renderer.at = "own" /\ slot[renderer.stream] = q
    BY <2>2, <2>6
  <2>. QED
    BY <2>2, <2>3, <2>4, <2>6, <2>7, <2>8 DEF Pass, Done
<1>. QED
  BY <1>2, <1>3

(* StartAudio empties the stream it has found, and may halt one player more. *)
LEMMA Started ==
  ASSUME TypeOK, NEW c \in Client, NEW r \in Request, StartAudio(c, r)
  PROVE  /\ call[c] = Idle /\ audioLock = NoClient /\ audioLock' = c
         /\ nextID \in Player
         /\ \E gone \in SUBSET Attached :
              /\ RemovePlayers(gone)
              /\ slot[FindFreeStream] = None \/ slot[FindFreeStream] \in gone
         /\ \E q \in RequestType :
              \/ /\ call' = [call EXCEPT ![c] = [at |-> "construct", stream |-> FindFreeStream,
                                                 id |-> nextID, request |-> q]]
                 /\ nextID' = nextID + 1
              \/ /\ call' = [call EXCEPT ![c] = [at |-> "refused", request |-> q]]
                 /\ nextID' = nextID
         /\ UNCHANGED <<policy, silent, renderer, told>>
<1> DEFINE s == FindFreeStream
           first == {slot[s]} \ {None}
           sl == [slot EXCEPT ![s] = None]
           k == LimitKind(r.kind)
           room == Uncount(num, first)[k] < Limit[k]
           victim == IF room \/ k = "mem" THEN None
                     ELSE FindKillableStream(sl, k, r.priority)
           second == IF victim = None THEN {} ELSE {sl[victim]}
<1>1. s \in Stream
  BY FreeStream
<1>2. first \subseteq Attached
  BY <1>1 DEF Attached
<1>3. second \subseteq Attached
  <2>1. CASE victim = None
    BY <2>1
  <2>2. CASE victim # None
    <3>1. victim \in {t \in Stream : sl[t] # None}
      BY <2>2, KillableStream
    <3>2. victim # s
      BY <1>1, <3>1 DEF TypeOK
    <3>3. sl[victim] = slot[victim]
      BY <1>1, <3>1, <3>2 DEF TypeOK
    <3>. QED
      BY <2>2, <3>1, <3>3 DEF Attached
  <2>. QED
    BY <2>1, <2>2
<1>4. /\ [r EXCEPT !.kind = k] \in RequestType /\ r \in RequestType
  BY Constants DEF RequestType, LimitKind, Kind, Counted
<1>5. /\ call[c] = Idle /\ audioLock = NoClient /\ audioLock' = c
      /\ nextID <= MaxPlayers
      /\ RemovePlayers(first \cup second)
      /\ UNCHANGED <<policy, silent, renderer, told>>
      /\ \/ /\ call' = [call EXCEPT ![c] =
                          [at |-> "construct", stream |-> s, id |-> nextID,
                           request |-> [r EXCEPT !.kind = IF room THEN @ ELSE k]]]
            /\ nextID' = nextID + 1
         \/ /\ call' = [call EXCEPT ![c] = [at |-> "refused", request |-> r]]
            /\ nextID' = nextID
  BY DEF StartAudio, LockAudio
<1>6. nextID \in Player
  BY <1>5, Constants DEF TypeOK, Player
<1>7. [r EXCEPT !.kind = IF room THEN @ ELSE k] \in RequestType
  <2>1. CASE room
    BY <1>4, <2>1 DEF RequestType
  <2>2. CASE ~room
    BY <1>4, <2>2
  <2>. QED
    BY <2>1, <2>2
<1>8. first \cup second \in SUBSET Attached /\ (slot[s] = None \/ slot[s] \in first \cup second)
  BY <1>2, <1>3
<1> HIDE DEF s, first, second, room, k
<1>. QED
  BY <1>4, <1>5, <1>6, <1>7, <1>8 DEF s

-----------------------------------------------------------------------------
(* Calls under way *)

LEMMA CallFields ==
  ASSUME TypeOK, NEW c \in Client
  PROVE  /\ call[c].at \in {"construct", "attach"} =>
              /\ call[c].stream \in Stream /\ call[c].id \in Player
              /\ call[c].request \in RequestType
              /\ [call[c] EXCEPT !.at = "attach"]
                   = [at |-> "attach", stream |-> call[c].stream, id |-> call[c].id,
                      request |-> call[c].request]
         /\ call[c].at = "refused" => call[c].request \in RequestType
         /\ call[c].at = "found" => call[c].stream \in Stream /\ call[c].id \in Player
         /\ call[c].at = "idle" <=> call[c] = Idle
<1>1. call[c] \in CallType
  BY DEF TypeOK
<1>. QED
  BY <1>1 DEF CallType, Idle

LEMMA CallTypes ==
  /\ Idle \in CallType
  /\ \A s \in Stream, p \in Player, r \in RequestType :
       /\ [at |-> "construct", stream |-> s, id |-> p, request |-> r] \in CallType
       /\ [at |-> "attach", stream |-> s, id |-> p, request |-> r] \in CallType
  /\ \A r \in RequestType : [at |-> "refused", request |-> r] \in CallType
  /\ \A s \in Stream, p \in Player : [at |-> "found", stream |-> s, id |-> p] \in CallType
<1>1. Idle \in CallType
  BY DEF Idle, CallType
<1>2. ASSUME NEW s \in Stream, NEW p \in Player, NEW r \in RequestType
      PROVE  /\ [at |-> "construct", stream |-> s, id |-> p, request |-> r] \in CallType
             /\ [at |-> "attach", stream |-> s, id |-> p, request |-> r] \in CallType
  BY DEF CallType
<1>3. \A r \in RequestType : [at |-> "refused", request |-> r] \in CallType
  BY DEF CallType
<1>4. \A s \in Stream, p \in Player : [at |-> "found", stream |-> s, id |-> p] \in CallType
  BY DEF CallType
<1>. QED
  BY <1>1, <1>2, <1>3, <1>4

(* A call that begins or ends keeps the others, and the lock is its own.    *)
LEMMA CallTaken ==
  ASSUME TypeOK, Locked, NEW c \in Client, LockAudio(c), audioLock' = c,
         NEW x \in CallType, x # Idle, call' = [call EXCEPT ![c] = x]
  PROVE  /\ call' \in [Client -> CallType] /\ audioLock' \in Client \cup {NoClient}
         /\ call'[c] = x /\ \A d \in Client \ {c} : call'[d] = Idle
         /\ \A d \in Client : call[d] = Idle
         /\ Locked'
<1>1. call' \in [Client -> CallType] /\ call'[c] = x
      /\ \A d \in Client \ {c} : call'[d] = call[d]
  BY DEF TypeOK
<1>2. \A d \in Client : call[d] = Idle
  BY Constants DEF LockAudio, Locked
<1>3. Locked'
  BY <1>1, <1>2 DEF Locked
<1>. QED
  BY <1>1, <1>2, <1>3

LEMMA CallEnds ==
  ASSUME TypeOK, Locked, NEW c \in Client, call[c] # Idle, audioLock' = NoClient,
         call' = [call EXCEPT ![c] = Idle]
  PROVE  /\ call' \in [Client -> CallType] /\ audioLock' \in Client \cup {NoClient}
         /\ \A d \in Client : call'[d] = Idle
         /\ \A d \in Client \ {c} : call[d] = Idle
         /\ Locked'
<1>1. call' \in [Client -> CallType] /\ call'[c] = Idle
      /\ \A d \in Client \ {c} : call'[d] = call[d]
  BY CallTypes DEF TypeOK
<1>2. \A d \in Client \ {c} : call[d] = Idle
  BY DEF Locked
<1>3. Locked'
  BY <1>1, <1>2, Constants DEF Locked
<1>. QED
  BY <1>1, <1>2, <1>3

LEMMA CallGoesOn ==
  ASSUME TypeOK, Locked, NEW c \in Client, call[c] # Idle, audioLock' = audioLock,
         NEW x \in CallType, x # Idle, call' = [call EXCEPT ![c] = x]
  PROVE  /\ call' \in [Client -> CallType] /\ audioLock' \in Client \cup {NoClient}
         /\ call'[c] = x
         /\ \A d \in Client \ {c} : call'[d] = Idle /\ call[d] = Idle
         /\ Locked'
<1>1. call' \in [Client -> CallType] /\ call'[c] = x
      /\ \A d \in Client \ {c} : call'[d] = call[d]
  BY DEF TypeOK
<1>2. \A d \in Client \ {c} : call[d] = Idle
  BY DEF Locked
<1>3. Locked'
  BY <1>1, <1>2 DEF Locked
<1>. QED
  BY <1>1, <1>2, <1>3 DEF TypeOK

-----------------------------------------------------------------------------
(* The initial states and the steps *)

LEMMA InitInv == Init => IInv
<1> SUFFICES ASSUME Init PROVE IInv
  OBVIOUS
<1>1. TypeOK
  <2>1. NoPlayer \in PlayerType
    BY DEF NoPlayer, PlayerType, Life, Kind, Counted
  <2>2. 1 \in 1..(MaxPlayers + 1) /\ 0 \in 0..MaxTold /\ Mixing \in RendererType
    BY Constants DEF Mixing, RendererType
  <2>3. /\ call \in [Client -> CallType] /\ slot \in [Stream -> Player \cup {None}]
        /\ external \in [Stream -> BOOLEAN] /\ player \in [Player -> PlayerType]
        /\ num \in [Counted -> Nat] /\ told \in [Player -> 0..MaxTold]
    BY <2>1, <2>2, CallTypes DEF Init
  <2>. QED
    BY <2>2, <2>3 DEF Init, TypeOK
<1>2. \A p \in Player : player[p] = NoPlayer
  BY DEF Init
<1>3. \A c \in Client : call[c] = Idle
  BY DEF Init
<1>4. \A s \in Stream : slot[s] = None
  BY DEF Init
<1>5. Locked
  BY <1>3, Constants DEF Init, Locked
<1>6. Numbers /\ Loops
  BY <1>2 DEF Numbers, Loops, NoPlayer
<1>7. Calls
  BY <1>3 DEF Calls, FoundPlayerStays, Idle
<1>8. Streams
  BY <1>2, <1>4 DEF Streams, NoPlayer
<1>9. Counts
  <2>1. \A k \in Counted : Living(k) = {}
    BY <1>2 DEF Living, NoPlayer
  <2>2. \A k \in Counted : num[k] = 0
    BY DEF Init
  <2>. QED
    BY <2>1, <2>2, FS_EmptySet DEF Counts
<1>10. DoneIsTold /\ Taken
  BY <1>4 DEF DoneIsTold, Attached, Init, Mixing, Taken
<1>. QED
  BY <1>1, <1>5, <1>6, <1>7, <1>8, <1>9, <1>10 DEF IInv

(* Players leave with no call under way.                                    *)
LEMMA RemovalKeeps ==
  ASSUME IInv, NEW gone, gone \subseteq Attached, \A d \in Client : call[d] = Idle,
         player' = Bury(gone), num' = Uncount(num, gone),
         slot' \in [Stream -> Player \cup {None}],
         \A s \in Stream : slot'[s] = IF slot[s] \in gone THEN None ELSE slot[s],
         nextID' \in Nat, nextID' >= nextID,
         told' \in [Player -> 0..MaxTold], \A p \in Player : told'[p] >= told[p]
  PROVE  /\ player' \in [Player -> PlayerType] /\ num' \in [Counted -> Nat]
         /\ Numbers' /\ Streams' /\ Counts' /\ Loops' /\ DoneIsTold'
<1>1. TypeOK /\ Numbers /\ Streams /\ Counts /\ Loops /\ DoneIsTold
  BY DEF IInv
<1>2. /\ player' \in [Player -> PlayerType] /\ num' \in [Counted -> Nat]
      /\ \A p \in gone : player'[p].life = "deleted" /\ player[p].life = "alive"
      /\ \A p \in Player \ gone : player'[p] = player[p]
      /\ Counts' /\ Loops'
  BY <1>1, Buried
<1>3. \A s \in Stream : /\ slot[s] \in Player \cup {None}
                        /\ slot'[s] # None => slot'[s] = slot[s] /\ slot[s] \notin gone
  BY <1>1 DEF TypeOK
<1>4. Numbers'
  <2> SUFFICES ASSUME NEW p \in Player, p >= nextID' PROVE player'[p].life = "unborn"
    BY DEF Numbers
  <2>1. p >= nextID
    BY <1>1, Constants DEF TypeOK
  <2>2. player[p].life = "unborn"
    BY <1>1, <2>1 DEF Numbers
  <2>. QED
    BY <1>2, <2>2
<1>5. Streams'
  <2>1. \A s, t \in Stream : slot'[s] = slot'[t] /\ slot'[s] # None => s = t
    BY <1>1, <1>3 DEF Streams
  <2>2. \A s \in Stream : slot'[s] # None => player'[slot'[s]].life = "alive"
    BY <1>1, <1>2, <1>3 DEF Streams
  <2>3. ASSUME NEW p \in Player, player'[p].life = "alive"
        PROVE  \E s \in Stream : slot'[s] = p
    <3>1. p \notin gone /\ player[p].life = "alive"
      BY <1>2, <2>3
    <3>2. PICK s \in Stream : slot[s] = p
      BY <1>1, <3>1 DEF Streams, Idle
    <3>. QED
      BY <3>1, <3>2
  <2>. QED
    BY <2>1, <2>2, <2>3 DEF Streams
<1>6. DoneIsTold'
  <2> SUFFICES ASSUME NEW s \in Stream, slot'[s] # None, player'[slot'[s]].done,
                      player'[slot'[s]].wants,
                      ~(player'[slot'[s]].looped /\ player'[slot'[s]].length < Buffer)
               PROVE  told'[slot'[s]] > 0
    BY DEF DoneIsTold, Attached, Done
  <2>1. slot'[s] = slot[s] /\ slot[s] \in Player /\ player'[slot[s]] = player[slot[s]]
    BY <1>2, <1>3
  <2>2. told[slot[s]] > 0
    BY <1>1, <2>1 DEF DoneIsTold, Attached, Done
  <2>3. told[slot[s]] \in Nat /\ told'[slot[s]] \in Nat
    <3>1. told \in [Player -> 0..MaxTold] /\ 0..MaxTold \subseteq Nat
      BY <1>1, Constants DEF TypeOK
    <3>. QED
      BY <2>1, <3>1
  <2>. QED
    BY <2>1, <2>2, <2>3
<1>. QED
  BY <1>2, <1>4, <1>5, <1>6

(* Everything else leaves the streams, the counts and the ids alone, and    *)
(* the players that no stream has.                                          *)
LEMMA PassKeeps ==
  ASSUME IInv, Pass, UNCHANGED <<slot, num, nextID>>, TypeOK', Locked', Taken', FoundPlayerStays',
         \A c \in Client : call'[c] # call[c] =>
           {call[c].at, call'[c].at} \cap {"construct", "attach"} = {}
  PROVE  IInv'
<1>1. TypeOK /\ Numbers /\ Calls /\ Streams /\ Counts /\ Loops /\ DoneIsTold
  BY DEF IInv
<1>2. slot' = slot /\ num' = num /\ nextID' = nextID
  OBVIOUS
<1>3. \A p \in Player : /\ player'[p].life = player[p].life
                        /\ player'[p].kind = player[p].kind
  BY DEF Pass, Same
<1>4. Numbers'
  BY <1>1, <1>2, <1>3 DEF Numbers
<1>5. Calls'
  <2>1. ASSUME NEW c \in Client, call'[c].at \in {"construct", "attach"}
        PROVE  /\ call[c] = call'[c] /\ call[c].id \in Player
               /\ player'[call[c].id] = player[call[c].id]
    <3>1. call[c] = call'[c]
      BY <2>1
    <3>2. call[c].id \in Player
      BY <1>1, <2>1, <3>1, CallFields
    <3>3. \A s \in Stream : slot[s] # call[c].id
      <4>1. CASE call[c].at = "construct"
        <5>1. player[call[c].id].life = "unborn" /\ call[c].id # None
          BY <1>1, <3>2, <4>1, Constants DEF Calls
        <5>. QED
          BY <1>1, <5>1 DEF Streams
      <4>2. CASE call[c].at = "attach"
        BY <1>1, <4>2 DEF Calls
      <4>. QED
        BY <2>1, <3>1, <4>1, <4>2
    <3>. QED
      BY <3>1, <3>2, <3>3 DEF Pass
  <2>. QED
    BY <1>1, <1>2, <2>1 DEF Calls
<1>6. Streams'
  <2>1. \A s \in Stream : slot[s] # None => player'[slot[s]].life = "alive"
    BY <1>1, <1>3 DEF Streams, TypeOK
  <2>2. \A c \in Client : call[c].at = "attach" => call'[c] = call[c]
    OBVIOUS
  <2>. QED
    BY <1>1, <1>2, <1>3, <2>1, <2>2 DEF Streams
<1>7. Counts'
  <2>1. \A k \in Counted : Living(k)' = Living(k)
    BY <1>3 DEF Living
  <2>. QED
    BY <1>1, <1>2, <2>1 DEF Counts
<1>8. Loops'
  <2>1. \A p \in Player : player[p].loops \in Nat /\ player'[p].loops \in Nat
    BY <1>1 DEF Pass, TypeOK, PlayerType
  <2>. QED
    BY <1>1, <2>1 DEF Loops, Pass, Same
<1>9. DoneIsTold'
  <2> SUFFICES ASSUME NEW p \in Attached, player'[p].done, player'[p].wants,
                      ~(player'[p].looped /\ player'[p].length < Buffer)
               PROVE  told'[p] > 0
    BY <1>2 DEF DoneIsTold, Attached, Done
  <2>1. p \in Player
    BY <1>1 DEF Attached, TypeOK
  <2>2. player[p].wants /\ ~(player[p].looped /\ player[p].length < Buffer)
    BY <2>1 DEF Pass, Same
  <2>3. CASE player[p].done
    <3>1. told[p] > 0 /\ told[p] \in Nat /\ told'[p] \in Nat /\ told'[p] >= told[p]
      BY <1>1, <2>1, <2>2, <2>3, Constants DEF DoneIsTold, Done, Pass, TypeOK
    <3>. QED
      BY <3>1
  <2>4. CASE ~player[p].done
    BY <1>1, <2>1, <2>2, <2>4 DEF Pass, Done, Loops
  <2>. QED
    BY <2>3, <2>4
<1>. QED
  BY <1>4, <1>5, <1>6, <1>7, <1>8, <1>9 DEF IInv

(* A step of the players alone, for one call or none.                       *)
LEMMA Quiet ==
  ASSUME TypeOK, UNCHANGED told, player' \in [Player -> PlayerType],
         \A p \in Player : /\ Same(player'[p], player[p])
                           /\ player'[p].loops = player[p].loops
                           /\ player'[p].done = player[p].done
                           /\ player'[p] # player[p] => \E s \in Stream : slot[s] = p
  PROVE  Pass
<1>1. \A p \in Player : player[p].loops \in Nat /\ told[p] \in Nat
  BY Constants DEF TypeOK, PlayerType
<1>. QED
  BY <1>1 DEF Pass, Done, TypeOK

LEMMA StartAudioStep ==
  ASSUME IInv, NEW c \in Client, NEW r \in Request, StartAudio(c, r)
  PROVE  IInv'
<1>1. TypeOK /\ Locked /\ Numbers /\ Streams /\ Counts /\ Loops
  BY DEF IInv
<1>2. /\ LockAudio(c) /\ audioLock' = c /\ nextID \in Player
      /\ UNCHANGED <<policy, silent, renderer, told>>
  BY <1>1, Started DEF LockAudio
<1>3. PICK gone \in SUBSET Attached :
        RemovePlayers(gone) /\ (slot[FindFreeStream] = None \/ slot[FindFreeStream] \in gone)
  BY <1>1, Started
<1>4. PICK q \in RequestType :
        \/ /\ call' = [call EXCEPT ![c] = [at |-> "construct", stream |-> FindFreeStream,
                                           id |-> nextID, request |-> q]]
           /\ nextID' = nextID + 1
        \/ /\ call' = [call EXCEPT ![c] = [at |-> "refused", request |-> q]]
           /\ nextID' = nextID
  BY <1>1, Started
<1> DEFINE made == [at |-> "construct", stream |-> FindFreeStream,
                    id |-> nextID, request |-> q]
           refused == [at |-> "refused", request |-> q]
<1>5. /\ made \in CallType /\ made # Idle /\ refused \in CallType /\ refused # Idle
  BY <1>2, FreeStream, CallTypes DEF Idle
<1>6. PICK x \in {made, refused} : call' = [call EXCEPT ![c] = x]
  BY <1>4
<1>7. /\ call' \in [Client -> CallType] /\ audioLock' \in Client \cup {NoClient}
      /\ call'[c] = x /\ \A d \in Client \ {c} : call'[d] = Idle
      /\ \A d \in Client : call[d] = Idle
      /\ Locked'
  BY <1>1, <1>2, <1>5, <1>6, CallTaken
<1>8. /\ slot' \in [Stream -> Player \cup {None}]
      /\ external' \in [Stream -> BOOLEAN] /\ alsa' \in Stream \cup {None}
      /\ \A s \in Stream : slot'[s] = IF slot[s] \in gone THEN None ELSE slot[s]
  BY <1>1, <1>3, Removed
<1>9. nextID' \in 1..(MaxPlayers + 1) /\ nextID' >= nextID
  BY <1>1, <1>2, <1>4, Constants DEF Player
<1>10. /\ player' \in [Player -> PlayerType] /\ num' \in [Counted -> Nat]
       /\ Numbers' /\ Streams' /\ Counts' /\ Loops' /\ DoneIsTold'
  <2>1. told' \in [Player -> 0..MaxTold] /\ \A p \in Player : told'[p] >= told[p]
    BY <1>1, <1>2, Constants DEF TypeOK
  <2>2. player' = Bury(gone) /\ num' = Uncount(num, gone)
    BY <1>3 DEF RemovePlayers
  <2>. QED
    BY <1>3, <1>7, <1>8, <1>9, <2>1, <2>2, RemovalKeeps
<1>11. TypeOK'
  BY <1>1, <1>2, <1>7, <1>8, <1>9, <1>10 DEF TypeOK
<1>12. Calls'
  <2>1. CASE x = made
    <3>1. call'[c] = made /\ nextID' = nextID + 1
      BY <1>2, <1>4, <1>6, <1>7, <2>1 DEF TypeOK
    <3>2. /\ nextID < nextID' /\ nextID' \in Nat /\ player[nextID].life = "unborn"
      BY <1>1, <1>2, <3>1, Constants DEF Numbers
    <3>3. player'[nextID].life = "unborn"
      BY <1>1, <1>2, <1>3, <3>2, Buried DEF RemovePlayers
    <3>4. slot'[FindFreeStream] = None
      BY <1>3, <1>8, FreeStream
    <3>. QED
      BY <1>7, <3>1, <3>2, <3>3, <3>4 DEF Calls, FoundPlayerStays, Idle
  <2>2. CASE x = refused
    BY <1>7, <2>2 DEF Calls, FoundPlayerStays, Idle
  <2>. QED
    BY <2>1, <2>2
<1>. QED
  BY <1>2, <1>7, <1>10, <1>11, <1>12 DEF IInv, Taken

LEMMA ConstructStep ==
  ASSUME IInv, NEW c \in Client, Construct(c)
  PROVE  IInv'
<1>1. TypeOK /\ Locked /\ Numbers /\ Calls /\ Streams /\ Counts /\ Loops /\ DoneIsTold
  BY DEF IInv
<1> DEFINE id == call[c].id  s == call[c].stream  r == call[c].request
           new == NewPlayer(r)
           next == [at |-> "attach", stream |-> s, id |-> id, request |-> r]
<1>2. /\ id \in Player /\ s \in Stream /\ r \in RequestType
      /\ call' = [call EXCEPT ![c] = next] /\ call[c] # Idle
  BY <1>1, CallFields DEF Construct, TypeOK
<1>3. /\ player' = [player EXCEPT ![id] = new]
      /\ num' = [k \in Counted |-> IF k = r.kind THEN num[k] + 1 ELSE num[k]]
      /\ UNCHANGED <<audioLock, slot, external, alsa, nextID, policy, silent, renderer, told>>
  BY DEF Construct
<1>4. id < nextID /\ player[id].life = "unborn" /\ slot[s] = None
  BY <1>1 DEF Calls, Construct
<1>5. /\ new \in PlayerType /\ new.life = "alive" /\ new.kind = r.kind /\ ~new.done
      /\ new.loops > 0 => new.looped
  <2>1. /\ r.kind \in Kind /\ r.priority \in Nat /\ r.external \in BOOLEAN
        /\ r.wants \in BOOLEAN /\ r.loops \in Nat /\ r.length \in Nat
    BY <1>2 DEF RequestType
  <2> DEFINE b == r.loops > 0
  <2>2. b \in BOOLEAN
    OBVIOUS
  <2>3. new = [life |-> "alive", kind |-> r.kind, priority |-> r.priority,
               external |-> r.external, wants |-> r.wants, looped |-> b,
               length |-> r.length, left |-> r.length, loops |-> r.loops,
               paused |-> FALSE, done |-> FALSE, seeked |-> FALSE]
    BY DEF NewPlayer
  <2> HIDE DEF b, new
  <2>4. new.loops > 0 => new.looped
    <3>1. new.loops = r.loops /\ new.looped = b
      BY <2>3
    <3>. QED
      BY <3>1, Zenon DEF b
  <2>. QED
    BY <2>1, <2>2, <2>3, <2>4 DEF PlayerType, Life
<1>6. next \in CallType /\ next # Idle
  BY <1>2, CallTypes DEF Idle
<1> HIDE DEF new, id, s, r
<1>7. /\ call' \in [Client -> CallType] /\ audioLock' \in Client \cup {NoClient}
      /\ call'[c] = next
      /\ \A d \in Client \ {c} : call'[d] = Idle /\ call[d] = Idle
      /\ Locked'
  BY <1>1, <1>2, <1>3, <1>6, CallGoesOn
<1>8. /\ player' \in [Player -> PlayerType] /\ player'[id] = new
      /\ \A p \in Player \ {id} : player'[p] = player[p]
  BY <1>1, <1>2, <1>3, <1>5 DEF TypeOK
<1>9. \A t \in Stream : slot[t] # id
  BY <1>1, <1>2, <1>4, Constants DEF Streams
<1>10. TypeOK'
  <2>1. num' \in [Counted -> Nat]
    BY <1>1, <1>3 DEF TypeOK
  <2>. QED
    BY <1>1, <1>3, <1>7, <1>8, <2>1 DEF TypeOK
<1>11. Numbers'
  <2>1. id \in Nat /\ nextID \in Nat
    BY <1>1, <1>2, Constants DEF TypeOK
  <2>2. \A p \in Player : p >= nextID => p # id
    BY <1>4, <2>1
  <2>. QED
    BY <1>1, <1>3, <1>8, <2>2 DEF Numbers
<1>12. Calls'
  BY <1>3, <1>4, <1>5, <1>7, <1>8, <1>9 DEF Calls, FoundPlayerStays, Idle
<1>13. Streams'
  <2>1. \A t \in Stream : slot[t] # None => player'[slot[t]].life = "alive"
    BY <1>1, <1>8, <1>9 DEF Streams, TypeOK
  <2>2. ASSUME NEW p \in Player, player'[p].life = "alive"
        PROVE  (\E t \in Stream : slot[t] = p) \/ p = id
    <3>1. p # id => player[p].life = "alive"
      BY <1>8, <2>2
    <3>2. \A d \in Client : call[d].at # "attach"
      <4>1. call[c].at = "construct"
        BY DEF Construct
      <4>. QED
        BY <1>7, <4>1 DEF Idle
    <3>. QED
      BY <1>1, <3>1, <3>2 DEF Streams
  <2>. QED
    BY <1>1, <1>3, <1>7, <2>1, <2>2 DEF Streams
<1>14. Counts'
  <2> SUFFICES ASSUME NEW k \in Counted PROVE num'[k] = Cardinality(Living(k)')
    BY DEF Counts
  <2>1. num[k] = Cardinality(Living(k)) /\ id \notin Living(k) /\ IsFiniteSet(Living(k))
    BY <1>1, <1>4, Constants, FS_Subset DEF Counts, Living
  <2>2. CASE k = r.kind
    <3>1. Living(k)' = Living(k) \cup {id}
      BY <1>2, <1>5, <1>8, <2>2 DEF Living
    <3>2. Cardinality(Living(k) \cup {id}) = Cardinality(Living(k)) + 1
      BY <2>1, FS_AddElement
    <3>. QED
      BY <1>3, <2>1, <2>2, <3>1, <3>2
  <2>3. CASE k # r.kind
    <3>1. Living(k)' = Living(k)
      BY <1>4, <1>5, <1>8, <2>3 DEF Living
    <3>. QED
      BY <1>3, <2>1, <2>3, <3>1
  <2>. QED
    BY <2>2, <2>3
<1>15. Loops'
  BY <1>1, <1>5, <1>8 DEF Loops
<1>16. DoneIsTold'
  <2>1. Attached' = Attached /\ id \notin Attached /\ Attached \subseteq Player
    BY <1>1, <1>3, <1>9 DEF Attached, TypeOK
  <2>2. \A p \in Attached : player'[p] = player[p] /\ told' = told
    BY <1>3, <1>8, <2>1
  <2>. QED
    BY <1>1, <2>1, <2>2 DEF DoneIsTold, Done
<1>. QED
  BY <1>3, <1>7, <1>10, <1>11, <1>12, <1>13, <1>14, <1>15, <1>16 DEF IInv, Taken

LEMMA ConstructFailsStep ==
  ASSUME IInv, NEW c \in Client, ConstructFails(c)
  PROVE  IInv'
<1>1. TypeOK /\ Locked /\ Numbers /\ Calls /\ Streams /\ Counts /\ Loops /\ DoneIsTold
  BY DEF IInv
<1> DEFINE id == call[c].id  r == call[c].request
           next == [at |-> "refused", request |-> r]
<1>2. /\ id \in Player /\ r \in RequestType /\ call[c] # Idle
      /\ call' = [call EXCEPT ![c] = next]
      /\ player' = [player EXCEPT ![id].life = "deleted"]
      /\ UNCHANGED <<audioLock, slot, external, alsa, num, nextID, policy, silent,
                     renderer, told>>
  BY <1>1, CallFields DEF ConstructFails
<1>3. id < nextID /\ player[id].life = "unborn"
  BY <1>1 DEF Calls, ConstructFails
<1>4. next \in CallType /\ next # Idle
  BY <1>2, CallTypes DEF Idle
<1> HIDE DEF id, r
<1>5. /\ call' \in [Client -> CallType] /\ audioLock' \in Client \cup {NoClient}
      /\ call'[c] = next
      /\ \A d \in Client \ {c} : call'[d] = Idle /\ call[d] = Idle
      /\ Locked'
  BY <1>1, <1>2, <1>4, CallGoesOn
<1>6. /\ player' \in [Player -> PlayerType] /\ player'[id].life = "deleted"
      /\ player'[id].loops = player[id].loops /\ player'[id].looped = player[id].looped
      /\ \A p \in Player \ {id} : player'[p] = player[p]
  BY <1>1, <1>2 DEF TypeOK, PlayerType, Life
<1>7. \A t \in Stream : slot[t] # id
  BY <1>1, <1>2, <1>3, Constants DEF Streams
<1>8. TypeOK'
  BY <1>1, <1>2, <1>5, <1>6 DEF TypeOK
<1>9. Numbers'
  <2>1. id \in Nat /\ nextID \in Nat
    BY <1>1, <1>2, Constants DEF TypeOK
  <2>2. \A p \in Player : p >= nextID => p # id
    BY <1>3, <2>1
  <2>. QED
    BY <1>1, <1>2, <1>6, <2>2 DEF Numbers
<1>10. Calls'
  BY <1>5 DEF Calls, FoundPlayerStays, Idle
<1>11. Streams'
  <2>1. \A t \in Stream : slot[t] # None => player'[slot[t]].life = "alive"
    BY <1>1, <1>6, <1>7 DEF Streams, TypeOK
  <2>2. ASSUME NEW p \in Player, player'[p].life = "alive"
        PROVE  \E t \in Stream : slot[t] = p
    <3>1. player[p].life = "alive"
      BY <1>6, <2>2
    <3>2. \A d \in Client : call[d].at # "attach"
      BY <1>5 DEF Idle, ConstructFails
    <3>. QED
      BY <1>1, <3>1, <3>2 DEF Streams
  <2>. QED
    BY <1>1, <1>2, <2>1, <2>2 DEF Streams
<1>12. Counts'
  <2>1. \A k \in Counted : Living(k)' = Living(k)
    BY <1>3, <1>6 DEF Living
  <2>. QED
    BY <1>1, <1>2, <2>1 DEF Counts
<1>13. Loops'
  BY <1>1, <1>6 DEF Loops
<1>14. DoneIsTold'
  <2>1. Attached' = Attached /\ id \notin Attached /\ Attached \subseteq Player
    BY <1>1, <1>2, <1>7 DEF Attached, TypeOK
  <2>2. \A p \in Attached : player'[p] = player[p] /\ told' = told
    BY <1>2, <1>6, <2>1
  <2>. QED
    BY <1>1, <2>1, <2>2 DEF DoneIsTold, Done
<1>. QED
  BY <1>2, <1>5, <1>8, <1>9, <1>10, <1>11, <1>12, <1>13, <1>14 DEF IInv, Taken

LEMMA AttachStep ==
  ASSUME IInv, NEW c \in Client, Attach(c)
  PROVE  IInv'
<1>1. TypeOK /\ Locked /\ Numbers /\ Calls /\ Streams /\ Counts /\ Loops /\ DoneIsTold
  BY DEF IInv
<1> DEFINE id == call[c].id  s == call[c].stream  r == call[c].request
<1>2. /\ id \in Player /\ s \in Stream /\ r \in RequestType /\ call[c] # Idle
      /\ call' = [call EXCEPT ![c] = Idle] /\ audioLock' = NoClient
      /\ slot' = [slot EXCEPT ![s] = id]
      /\ external' = [external EXCEPT ![s] = @ \/ r.external]
      /\ alsa' \in IF r.external THEN {s, alsa} ELSE {alsa}
      /\ UNCHANGED <<player, num, nextID, policy, silent, renderer, told>>
  BY <1>1, CallFields DEF Attach
<1>3. /\ player[id].life = "alive" /\ ~player[id].done /\ slot[s] = None
      /\ \A t \in Stream : slot[t] # id
  BY <1>1 DEF Calls, Attach
<1>4. call[c].at = "attach"
  BY DEF Attach
<1> HIDE DEF id, s, r
<1>5. /\ call' \in [Client -> CallType] /\ audioLock' \in Client \cup {NoClient}
      /\ \A d \in Client : call'[d] = Idle
      /\ \A d \in Client \ {c} : call[d] = Idle
      /\ Locked'
  BY <1>1, <1>2, CallEnds
<1>6. /\ slot' \in [Stream -> Player \cup {None}] /\ slot'[s] = id
      /\ \A t \in Stream \ {s} : slot'[t] = slot[t]
  BY <1>1, <1>2 DEF TypeOK
<1>7. TypeOK'
  <2>1. (external[s] \/ r.external) \in BOOLEAN /\ r.external \in BOOLEAN
    BY <1>1, <1>2 DEF TypeOK, RequestType
  <2>2. external' \in [Stream -> BOOLEAN]
    BY <1>1, <1>2, <2>1 DEF TypeOK
  <2>3. alsa' \in Stream \cup {None}
    BY <1>1, <1>2 DEF TypeOK
  <2>. QED
    BY <1>1, <1>2, <1>5, <1>6, <2>2, <2>3 DEF TypeOK
<1>8. Calls'
  BY <1>5 DEF Calls, FoundPlayerStays, Idle
<1>9. Streams'
  <2>1. \A t, u \in Stream : slot'[t] = slot'[u] /\ slot'[t] # None => t = u
    BY <1>1, <1>3, <1>6 DEF Streams
  <2>2. \A t \in Stream : slot'[t] # None => player[slot'[t]].life = "alive"
    BY <1>1, <1>3, <1>6 DEF Streams
  <2>3. ASSUME NEW p \in Player, player[p].life = "alive"
        PROVE  \E t \in Stream : slot'[t] = p
    <3>1. CASE p = id
      BY <1>2, <1>6, <3>1
    <3>2. CASE p # id
      <4>1. PICK t \in Stream : slot[t] = p
        BY <1>1, <1>5, <2>3, <3>2 DEF Streams, Idle, id
      <4>2. t # s
        BY <1>3, <4>1, Constants
      <4>. QED
        BY <1>6, <4>1, <4>2
    <3>. QED
      BY <3>1, <3>2
  <2>. QED
    BY <1>2, <2>1, <2>2, <2>3 DEF Streams
<1>10. Numbers' /\ Loops'
  BY <1>1, <1>2 DEF Numbers, Loops
<1>11. Counts'
  <2>1. \A k \in Counted : Living(k)' = Living(k)
    BY <1>2 DEF Living
  <2>. QED
    BY <1>1, <1>2, <2>1 DEF Counts
<1>12. DoneIsTold'
  <2>1. \A p \in Attached' : p = id \/ p \in Attached
    BY <1>6 DEF Attached
  <2>. QED
    BY <1>1, <1>2, <1>3, <2>1 DEF DoneIsTold, Done
<1>. QED
  BY <1>2, <1>5, <1>7, <1>8, <1>9, <1>10, <1>11, <1>12 DEF IInv, Taken

LEMMA StopAudioStep ==
  ASSUME IInv, NEW c \in Client, NEW p \in Player, NEW message \in BOOLEAN,
         StopAudio(c, p, message)
  PROVE  IInv'
<1>1. TypeOK /\ Locked /\ Streams /\ Counts /\ Loops
  BY DEF IInv
<1>2. /\ p \in Attached /\ RemovePlayers({p})
      /\ told' = IF message THEN Tell(p) ELSE told
      /\ UNCHANGED <<audioLock, call, nextID, policy, silent, renderer>>
  BY DEF StopAudio
<1>3. \A d \in Client : call[d] = Idle
  BY <1>1, Constants DEF StopAudio, LockAudio, Locked
<1>4. /\ slot' \in [Stream -> Player \cup {None}]
      /\ external' \in [Stream -> BOOLEAN] /\ alsa' \in Stream \cup {None}
      /\ \A s \in Stream : slot'[s] = IF slot[s] \in {p} THEN None ELSE slot[s]
  BY <1>1, <1>2, Removed
<1>5. told' \in [Player -> 0..MaxTold] /\ \A q \in Player : told'[q] >= told[q]
  <2>1. \A q \in Player : told[q] \in Nat
    BY <1>1, Constants DEF TypeOK
  <2>2. CASE message
    BY <1>1, <1>2, <2>2, Told
  <2>3. CASE ~message
    BY <1>1, <1>2, <2>1, <2>3 DEF TypeOK
  <2>. QED
    BY <2>2, <2>3
<1>6. nextID' \in Nat /\ nextID' >= nextID /\ {p} \subseteq Attached
  BY <1>1, <1>2, Constants DEF TypeOK
<1>7. /\ player' \in [Player -> PlayerType] /\ num' \in [Counted -> Nat]
      /\ Numbers' /\ Streams' /\ Counts' /\ Loops' /\ DoneIsTold'
  <2>1. player' = Bury({p}) /\ num' = Uncount(num, {p})
    BY <1>2 DEF RemovePlayers
  <2>. QED
    BY <1>3, <1>4, <1>5, <1>6, <2>1, RemovalKeeps
<1>8. TypeOK'
  BY <1>1, <1>2, <1>4, <1>5, <1>7 DEF TypeOK
<1>9. Locked' /\ Calls'
  BY <1>1, <1>2, <1>3 DEF Locked, Calls, FoundPlayerStays, Idle
<1>. QED
  BY <1>2, <1>7, <1>8, <1>9 DEF IInv, Taken

LEMMA StopAllAudioStep ==
  ASSUME IInv, NEW c \in Client, StopAllAudio(c)
  PROVE  IInv'
<1>1. TypeOK /\ Locked /\ Streams /\ Counts /\ Loops
  BY DEF IInv
<1>2. /\ slot' = [s \in Stream |-> None] /\ external' = [s \in Stream |-> FALSE]
      /\ player' = Bury(Attached) /\ num' = Uncount(num, Attached)
      /\ UNCHANGED <<audioLock, call, alsa, nextID, policy, silent, renderer, told>>
  BY DEF StopAllAudio
<1>3. \A d \in Client : call[d] = Idle
  BY <1>1, Constants DEF StopAllAudio, LockAudio, Locked
<1>4. /\ slot' \in [Stream -> Player \cup {None}]
      /\ \A s \in Stream : slot'[s] = IF slot[s] \in Attached THEN None ELSE slot[s]
  BY <1>2 DEF Attached
<1>5. told' \in [Player -> 0..MaxTold] /\ \A q \in Player : told'[q] >= told[q]
  <2>1. \A q \in Player : told[q] \in Nat
    BY <1>1, Constants DEF TypeOK
  <2>. QED
    BY <1>1, <1>2, <2>1 DEF TypeOK
<1>6. nextID' \in Nat /\ nextID' >= nextID
  BY <1>1, <1>2, Constants DEF TypeOK
<1>7. /\ player' \in [Player -> PlayerType] /\ num' \in [Counted -> Nat]
      /\ Numbers' /\ Streams' /\ Counts' /\ Loops' /\ DoneIsTold'
  BY <1>2, <1>3, <1>4, <1>5, <1>6, RemovalKeeps
<1>8. TypeOK'
  BY <1>1, <1>2, <1>4, <1>5, <1>7 DEF TypeOK
<1>9. Locked' /\ Calls'
  BY <1>1, <1>2, <1>3 DEF Locked, Calls, FoundPlayerStays, Idle
<1>. QED
  BY <1>2, <1>7, <1>8, <1>9 DEF IInv, Taken

(* The steps after which the calls are what they were.                      *)
LEMMA PauseResumePass ==
  ASSUME TypeOK, NEW c, NEW which, which \subseteq Attached, NEW paused \in BOOLEAN,
         PauseResume(c, which, paused)
  PROVE  Pass
<1>1. player' = [p \in Player |-> IF p \in which /\ ~Done(p)
                                  THEN [player[p] EXCEPT !.paused = paused] ELSE player[p]]
  BY DEF PauseResume, SetPaused
<1>2. ASSUME NEW p \in Player
      PROVE  /\ player'[p] \in PlayerType /\ Same(player'[p], player[p])
             /\ player'[p].loops = player[p].loops /\ player'[p].done = player[p].done
             /\ player'[p] # player[p] => \E s \in Stream : slot[s] = p
  <2>1. player[p] \in PlayerType
    BY DEF TypeOK
  <2>2. CASE p \in which /\ ~Done(p)
    <3>1. player'[p] = [player[p] EXCEPT !.paused = paused]
      BY <1>1, <2>2
    <3>2. \E s \in Stream : slot[s] = p
      BY <2>2 DEF Attached
    <3>. QED
      BY <2>1, <3>1, <3>2 DEF PlayerType, Same
  <2>3. CASE ~(p \in which /\ ~Done(p))
    <3>1. player'[p] = player[p]
      BY <1>1, <2>3
    <3>. QED
      BY <2>1, <3>1 DEF Same
  <2>. QED
    BY <2>2, <2>3
<1>3. player' \in [Player -> PlayerType] /\ UNCHANGED told
  BY <1>1, <1>2 DEF PauseResume
<1>. QED
  BY <1>2, <1>3, Quiet

LEMMA SeekAudioTimePass ==
  ASSUME TypeOK, NEW c, NEW p, NEW frames \in Position, SeekAudioTime(c, p, frames)
  PROVE  Pass
<1>1. /\ p \in Player /\ \E s \in Stream : slot[s] = p
      /\ player[p].left \in Nat /\ frames \in Nat /\ UNCHANGED told
  BY Constants DEF SeekAudioTime, Attached, TypeOK, PlayerType
<1>. PICK left \in {frames, player[p].left} :
        player' = [player EXCEPT ![p].left = left, ![p].seeked = TRUE]
  BY DEF SeekAudioTime
<1> DEFINE new == [[player[p] EXCEPT !.left = left] EXCEPT !.seeked = TRUE]
<1>2. /\ player[p] \in PlayerType
      /\ new \in PlayerType /\ Same(new, player[p])
      /\ new.loops = player[p].loops /\ new.done = player[p].done
  <2>1. player[p] \in PlayerType
    BY <1>1 DEF TypeOK
  <2> DEFINE moved == [player[p] EXCEPT !.left = left]
  <2>2. moved \in PlayerType /\ Same(moved, player[p])
        /\ moved.loops = player[p].loops /\ moved.done = player[p].done
    BY <1>1, <2>1 DEF PlayerType, Same
  <2> HIDE DEF moved
  <2>3. [moved EXCEPT !.seeked = TRUE] \in PlayerType
        /\ Same([moved EXCEPT !.seeked = TRUE], moved)
        /\ [moved EXCEPT !.seeked = TRUE].loops = moved.loops
        /\ [moved EXCEPT !.seeked = TRUE].done = moved.done
    BY <2>2 DEF PlayerType, Same
  <2>. QED
    BY <2>1, <2>2, <2>3 DEF moved, Same
<1>3. /\ player' \in [Player -> PlayerType] /\ player'[p] = new
      /\ \A q \in Player \ {p} : player'[q] = player[q]
  BY <1>1, <1>2 DEF TypeOK
<1> HIDE DEF new
<1>4. \A q \in Player \ {p} : Same(player'[q], player[q])
  BY <1>3 DEF Same
<1>. QED
  BY <1>1, <1>2, <1>3, <1>4, Quiet

LEMMA PriorityPass ==
  ASSUME TypeOK, NEW c \in Client, NEW prio \in Priority, SetAudioPriority(c, prio)
  PROVE  Pass
<1> DEFINE p == slot[call[c].stream]
<1>1. call[c].stream \in Stream /\ prio \in Nat /\ UNCHANGED told
  BY CallFields, Constants DEF SetAudioPriority
<1>2. player' = IF p = None THEN player ELSE [player EXCEPT ![p].priority = prio]
  BY DEF SetAudioPriority
<1>3. p \in Player \cup {None} /\ \E s \in Stream : slot[s] = p
  BY <1>1 DEF TypeOK
<1> HIDE DEF p
<1>4. CASE p = None
  BY <1>1, <1>2, <1>4, Quiet DEF Same, TypeOK
<1>5. CASE p # None
  <2> DEFINE new == [player[p] EXCEPT !.priority = prio]
  <2>1. /\ new \in PlayerType /\ Same(new, player[p])
        /\ new.loops = player[p].loops /\ new.done = player[p].done
    BY <1>1, <1>3, <1>5 DEF TypeOK, PlayerType, Same
  <2>2. /\ player' \in [Player -> PlayerType] /\ player'[p] = new
        /\ \A q \in Player \ {p} : player'[q] = player[q]
    BY <1>2, <1>3, <1>5, <2>1 DEF TypeOK
  <2> HIDE DEF new
  <2>3. \A q \in Player \ {p} : Same(player'[q], player[q])
    BY <2>2 DEF Same
  <2>. QED
    BY <1>1, <1>3, <1>5, <2>1, <2>2, <2>3, Quiet
<1>. QED
  BY <1>4, <1>5

LEMMA StillPass ==
  ASSUME TypeOK, UNCHANGED <<player, told>>
  PROVE  Pass
<1>1. player' = player /\ told' = told /\ player' \in [Player -> PlayerType]
  BY DEF TypeOK
<1>. QED
  BY <1>1, Quiet DEF Same

(* The calls that end, begin or wait.                                       *)
LEMMA RefuseStep ==
  ASSUME IInv, NEW c \in Client, Refuse(c)
  PROVE  IInv'
<1>1. TypeOK /\ Locked /\ Calls
  BY DEF IInv
<1>2. /\ call[c].at = "refused" /\ call' = [call EXCEPT ![c] = Idle] /\ audioLock' = NoClient
      /\ UNCHANGED <<slot, external, alsa, player, num, nextID, policy, silent, renderer, told>>
  BY DEF Refuse
<1>3. call[c] # Idle
  BY <1>2 DEF Idle
<1>4. /\ call' \in [Client -> CallType] /\ audioLock' \in Client \cup {NoClient}
      /\ \A d \in Client : call'[d] = Idle
      /\ \A d \in Client \ {c} : call[d] = Idle
      /\ Locked'
  BY <1>1, <1>2, <1>3, CallEnds
<1>5. TypeOK'
  BY <1>1, <1>2, <1>4 DEF TypeOK
<1>6. FoundPlayerStays'
  BY <1>4 DEF FoundPlayerStays, Idle
<1>7. \A d \in Client : call'[d] # call[d] =>
        {call[d].at, call'[d].at} \cap {"construct", "attach"} = {}
  BY <1>2, <1>4 DEF Idle
<1>8. Pass
  BY <1>1, <1>2, StillPass
<1>9. Taken'
  BY <1>2 DEF IInv, Taken
<1>. QED
  BY <1>2, <1>4, <1>5, <1>6, <1>7, <1>8, <1>9, PassKeeps

LEMMA FindStreamStep ==
  ASSUME IInv, NEW c \in Client, NEW p \in Player, FindStream(c, p)
  PROVE  IInv'
<1>1. TypeOK /\ Locked /\ Calls
  BY DEF IInv
<1> DEFINE s == FindStreamInternal(p)
           found == [at |-> "found", stream |-> s, id |-> p]
<1>2. /\ LockAudio(c) /\ p \in Attached
      /\ call' = [call EXCEPT ![c] = found] /\ audioLock' = c
      /\ UNCHANGED <<slot, external, alsa, player, num, nextID, policy, silent, renderer, told>>
  BY DEF FindStream
<1>3. s \in Stream /\ slot[s] = p
  BY <1>1, <1>2, FoundStream
<1> HIDE DEF s
<1>4. found \in CallType /\ found # Idle
  BY <1>3, CallTypes DEF Idle
<1>5. /\ call' \in [Client -> CallType] /\ audioLock' \in Client \cup {NoClient}
      /\ call'[c] = found /\ \A d \in Client \ {c} : call'[d] = Idle
      /\ \A d \in Client : call[d] = Idle
      /\ Locked'
  BY <1>1, <1>2, <1>4, CallTaken
<1>6. TypeOK'
  BY <1>1, <1>2, <1>5 DEF TypeOK
<1>7. FoundPlayerStays'
  BY <1>2, <1>3, <1>5 DEF FoundPlayerStays, Idle
<1>8. \A d \in Client : call'[d] # call[d] =>
        {call[d].at, call'[d].at} \cap {"construct", "attach"} = {}
  BY <1>5 DEF Idle
<1>9. Pass
  BY <1>1, <1>2, StillPass
<1>10. Taken'
  BY <1>2 DEF IInv, Taken
<1>. QED
  BY <1>2, <1>5, <1>6, <1>7, <1>8, <1>9, <1>10, PassKeeps

LEMMA SetAudioPriorityStep ==
  ASSUME IInv, NEW c \in Client, NEW prio \in Priority, SetAudioPriority(c, prio)
  PROVE  IInv'
<1>1. TypeOK /\ Locked /\ Calls
  BY DEF IInv
<1>2. /\ call[c].at = "found" /\ call' = [call EXCEPT ![c] = Idle] /\ audioLock' = NoClient
      /\ UNCHANGED <<slot, external, alsa, num, nextID, policy, silent, renderer, told>>
  BY DEF SetAudioPriority
<1>3. call[c] # Idle
  BY <1>2 DEF Idle
<1>4. /\ call' \in [Client -> CallType] /\ audioLock' \in Client \cup {NoClient}
      /\ \A d \in Client : call'[d] = Idle
      /\ \A d \in Client \ {c} : call[d] = Idle
      /\ Locked'
  BY <1>1, <1>2, <1>3, CallEnds
<1>5. Pass
  BY <1>1, PriorityPass
<1>6. TypeOK'
  BY <1>1, <1>2, <1>4, <1>5 DEF TypeOK, Pass
<1>7. FoundPlayerStays'
  BY <1>4 DEF FoundPlayerStays, Idle
<1>8. \A d \in Client : call'[d] # call[d] =>
        {call[d].at, call'[d].at} \cap {"construct", "attach"} = {}
  BY <1>2, <1>4 DEF Idle
<1>9. Taken'
  BY <1>2 DEF IInv, Taken
<1>. QED
  BY <1>2, <1>4, <1>5, <1>6, <1>7, <1>8, <1>9, PassKeeps

(* The steps that leave the calls, the streams and the counts alone.        *)
Passes == /\ Pass /\ policy' \in {"none", "simple"} /\ silent' \in BOOLEAN
          /\ renderer' \in RendererType /\ Taken'
          /\ UNCHANGED <<audioLock, call, slot, external, alsa, num, nextID>>

LEMMA PassesStep ==
  ASSUME IInv, Passes
  PROVE  IInv'
<1>1. TypeOK /\ Locked /\ Calls
  BY DEF IInv
<1>2. TypeOK' /\ Locked' /\ Taken' /\ FoundPlayerStays'
  BY <1>1 DEF Passes, Pass, TypeOK, Locked, Calls, FoundPlayerStays
<1>. QED
  BY <1>2, PassKeeps DEF Passes

LEMMA Inductive == IInv /\ [Next]_vars => IInv'
<1> SUFFICES ASSUME IInv, [Next]_vars PROVE IInv'
  OBVIOUS
<1>1. TypeOK /\ Streams /\ Taken
  BY DEF IInv
<1>2. ASSUME NEW c \in Client, ClientNext(c) PROVE IInv'
  <2>1. ASSUME NEW r \in Request, StartAudio(c, r) PROVE IInv'
    BY <2>1, StartAudioStep
  <2>2. CASE Construct(c)
    BY <2>2, ConstructStep
  <2>3. CASE ConstructFails(c)
    BY <2>3, ConstructFailsStep
  <2>4. CASE Attach(c)
    BY <2>4, AttachStep
  <2>5. CASE Refuse(c)
    BY <2>5, RefuseStep
  <2>6. ASSUME NEW p \in Player, NEW message \in BOOLEAN, StopAudio(c, p, message)
        PROVE  IInv'
    BY <2>6, StopAudioStep
  <2>7. CASE StopAllAudio(c)
    BY <2>7, StopAllAudioStep
  <2>8. ASSUME NEW paused \in BOOLEAN, PauseResume(c, Attached, paused) PROVE IInv'
    <3>1. Pass
      BY <1>1, <2>8, PauseResumePass
    <3>. QED
      BY <1>1, <2>8, <3>1, PassesStep DEF PauseResume, Passes, TypeOK, Taken
  <2>9. ASSUME NEW paused \in BOOLEAN, NEW p \in Attached, PauseResume(c, {p}, paused)
        PROVE  IInv'
    <3>1. {p} \subseteq Attached
      OBVIOUS
    <3>2. Pass
      BY <1>1, <2>9, <3>1, PauseResumePass
    <3>. QED
      BY <1>1, <2>9, <3>2, PassesStep DEF PauseResume, Passes, TypeOK, Taken
  <2>10. ASSUME NEW p \in Player, NEW frames \in Position, SeekAudioTime(c, p, frames)
         PROVE  IInv'
    <3>1. Pass
      BY <1>1, <2>10, SeekAudioTimePass
    <3>. QED
      BY <1>1, <2>10, <3>1, PassesStep DEF SeekAudioTime, Passes, TypeOK, Taken
  <2>11. ASSUME NEW pol \in {"none", "simple"}, SetPriorityPolicy(c, pol) PROVE IInv'
    <3>1. Pass
      BY <1>1, <2>11, StillPass DEF SetPriorityPolicy
    <3>. QED
      BY <1>1, <2>11, <3>1, PassesStep DEF SetPriorityPolicy, Passes, TypeOK, Taken
  <2>12. ASSUME NEW off \in BOOLEAN, PauseAudioSystem(c, off) PROVE IInv'
    <3>1. Pass
      BY <1>1, <2>12, StillPass DEF PauseAudioSystem
    <3>. QED
      BY <1>1, <2>12, <3>1, PassesStep DEF PauseAudioSystem, Passes, TypeOK, Taken
  <2>13. ASSUME NEW p \in Player, FindStream(c, p) PROVE IInv'
    BY <2>13, FindStreamStep
  <2>14. ASSUME NEW prio \in Priority, SetAudioPriority(c, prio) PROVE IInv'
    BY <2>14, SetAudioPriorityStep
  <2>. QED
    BY <1>2, <2>1, <2>2, <2>3, <2>4, <2>5, <2>6, <2>7, <2>8, <2>9, <2>10, <2>11, <2>12,
       <2>13, <2>14 DEF ClientNext
<1>3. CASE Render
  <2>1. Pass
    BY <1>1, <1>3, StreamsPass DEF Render
  <2>. QED
    BY <1>1, <1>3, <2>1, PassesStep
       DEF Render, RenderStreams, Passes, TypeOK, RendererType, Taken
<1>4. ASSUME NEW s \in Stream, RenderStalls(s) PROVE IInv'
  <2>1. Pass
    BY <1>1, <1>4, StreamsPass DEF RenderStalls
  <2>. QED
    BY <1>1, <1>4, <2>1, PassesStep DEF RenderStalls, RenderStreams, Passes, TypeOK, Taken
<1>5. CASE RenderExternal
  <2>1. Pass
    BY <1>1, <1>5, ExternalPass
  <2>2. renderer' \in RendererType /\ Taken'
    BY <1>5 DEF RenderExternal, Mixing, RendererType, Taken
  <2>. QED
    BY <1>1, <1>5, <2>1, <2>2, PassesStep DEF RenderExternal, Passes, TypeOK
<1>6. CASE TakeExternal
  <2>1. Pass
    BY <1>1, <1>6, StillPass DEF TakeExternal
  <2>2. renderer' \in RendererType /\ Taken'
    BY <1>1, <1>6 DEF TakeExternal, Mixing, RendererType, Taken, TypeOK
  <2>. QED
    BY <1>1, <1>6, <2>1, <2>2, PassesStep DEF TakeExternal, Passes, TypeOK
<1>7. CASE UNCHANGED vars
  <2>1. Pass
    BY <1>1, <1>7, StillPass DEF vars
  <2>. QED
    BY <1>1, <1>7, <2>1, PassesStep DEF vars, Passes, TypeOK, Taken
<1>. QED
  BY <1>2, <1>3, <1>4, <1>5, <1>6, <1>7 DEF Next

LEMMA Invariant == Spec => []IInv
<1>1. Init => IInv
  BY InitInv
<1>2. IInv /\ [Next]_vars => IInv'
  BY Inductive
<1>. QED
  BY <1>1, <1>2, PTL DEF Spec

-----------------------------------------------------------------------------
(* Steps *)

(* StartAudio removes no players but the one of the stream it takes and the *)
(* one FindKillableStream names, whatever it answers.                       *)
LEMMA StartAudioHalts ==
  ASSUME IInv, NEW c \in Client, NEW r \in Request, StartAudio(c, r),
         ChannelFree, NEW p \in Halted
  PROVE  LET q == call'[c].request
             kq == LimitKind(q.kind)
             firstq == {slot[FindFreeStream]} \ {None}
         IN  /\ policy = "simple"
             /\ Uncount(num, firstq)[kq] >= Limit[kq]
             /\ player[p].kind = kq
             /\ player[p].priority <= q.priority
             /\ \A o \in Attached \ firstq :
                  /\ ~Done(o) \/ player[o].seeked
                  /\ player[o].kind = kq => player[p].priority <= player[o].priority
<1>1. TypeOK /\ Streams
  BY DEF IInv
<1> DEFINE s == FindFreeStream
           first == {slot[s]} \ {None}
           sl == [slot EXCEPT ![s] = None]
           k == LimitKind(r.kind)
           room == Uncount(num, first)[k] < Limit[k]
           victim == IF room \/ k = "mem" THEN None
                     ELSE FindKillableStream(sl, k, r.priority)
           second == IF victim = None THEN {} ELSE {sl[victim]}
           q == call'[c].request
<1>2. /\ RemovePlayers(first \cup second)
      /\ \/ call' = [call EXCEPT ![c] =
                       [at |-> "construct", stream |-> s, id |-> nextID,
                        request |-> [r EXCEPT !.kind = IF room THEN @ ELSE k]]]
         \/ call' = [call EXCEPT ![c] = [at |-> "refused", request |-> r]]
  BY DEF StartAudio
<1>3. q.priority = r.priority /\ LimitKind(q.kind) = k
  <2>1. call \in [Client -> CallType] /\ r \in RequestType
    BY <1>1, Constants DEF TypeOK
  <2>2. LimitKind(k) = k
    BY DEF LimitKind
  <2> DEFINE t == [r EXCEPT !.kind = IF room THEN @ ELSE k]
  <2> HIDE DEF room, k, s
  <2>3. t.priority = r.priority /\ t.kind = IF room THEN r.kind ELSE k
    BY <2>1 DEF RequestType
  <2>4. LimitKind(t.kind) = k
    BY <2>2, <2>3 DEF k
  <2>5. LimitKind(r.kind) = k
    BY DEF k
  <2>6. q = t \/ q = r
    <3> HIDE DEF t
    <3>. QED
      BY <1>2, <2>1 DEF t
  <2>. QED
    BY <2>3, <2>4, <2>5, <2>6
<1>4. s \in Stream /\ (slot[s] = None \/ Done(slot[s]))
  BY FreeStream DEF ChannelFree
<1>5. p \in first \cup second /\ p \in Attached /\ ~Done(p)
  <2>1. p \in Player /\ player[p].life = "alive"
    BY <1>1 DEF Halted, Attached, Streams, TypeOK
  <2>2. player' = Bury(first \cup second)
    BY <1>2 DEF RemovePlayers
  <2>3. p \in Attached /\ ~Done(p) /\ player'[p].life = "deleted"
    BY DEF Halted
  <2> HIDE DEF first, second
  <2>. QED
    BY <2>1, <2>2, <2>3 DEF Bury
<1>6. p \notin first
  BY <1>4, <1>5
<1>7. Uncount(num, first)[k] >= Limit[k]
  <2>1. ~room
    BY <1>5, <1>6
  <2>2. k \in Counted
    BY Constants DEF LimitKind, Counted, Kind, RequestType
  <2>3. Limit[k] \in Nat /\ Uncount(num, first)[k] \in Int
    <3>1. num[k] \in Nat /\ IsFiniteSet(first)
      BY <1>1, <2>2, FS_Singleton, FS_EmptySet, FS_Subset DEF TypeOK
    <3>2. Cardinality({o \in first : player[o].kind = k}) \in Nat
      BY <3>1, FS_Subset, FS_CardinalityType
    <3>3. Uncount(num, first)[k]
            = num[k] - Cardinality({o \in first : player[o].kind = k})
      BY <2>2 DEF Uncount
    <3> HIDE DEF first, k
    <3>. QED
      BY <2>2, <3>1, <3>2, <3>3, Constants
  <2> HIDE DEF first, k
  <2>. QED
    BY <2>1, <2>3
<1>8. p \in second
  BY <1>5, <1>6
<1>. QED
  <2>1. /\ victim # None /\ p = sl[victim]
        /\ victim = FindKillableStream(sl, k, r.priority)
    BY <1>8
  <2>2. /\ policy = "simple"
        /\ player[p].kind = k /\ player[p].priority <= r.priority
        /\ \A t \in {u \in Stream : sl[u] # None} :
             /\ ~Done(sl[t]) \/ player[sl[t]].seeked
             /\ player[sl[t]].kind = k => player[p].priority <= player[sl[t]].priority
    <3> HIDE DEF sl, k, victim
    <3>. QED
      BY <1>5, <2>1, KillableStream
  <2>3. \A o \in Attached \ first :
          \E t \in {u \in Stream : sl[u] # None} : sl[t] = o
    <3> SUFFICES ASSUME NEW o \in Attached \ first
                 PROVE  \E t \in {u \in Stream : sl[u] # None} : sl[t] = o
      OBVIOUS
    <3>1. PICK t \in Stream : slot[t] = o /\ o # None
      BY DEF Attached
    <3>2. t # s
      BY <3>1
    <3>3. sl[t] = o
      BY <1>1, <3>1, <3>2 DEF TypeOK
    <3>. QED
      BY <3>1, <3>3
  <2> HIDE DEF sl, k, victim, s, first, second
  <2>. QED
    BY <1>3, <1>7, <2>2, <2>3 DEF s, first

(* Only StartAudio takes a call from idle to what StartAudio decides.       *)
LEMMA OnlyStartAudio ==
  ASSUME IInv, [Next]_vars, NEW c \in Client,
         call[c] = Idle, call'[c].at \in {"construct", "refused"}
  PROVE  \E r \in Request : StartAudio(c, r)
<1>1. call \in [Client -> CallType] /\ call[c].at = "idle"
  BY DEF IInv, TypeOK, Idle
<1>2. ASSUME NEW d \in Client, ClientNext(d)
      PROVE  \E r \in Request : StartAudio(c, r)
  <2>1. ASSUME NEW r \in Request, StartAudio(d, r), d # c PROVE FALSE
    BY <1>1, <2>1 DEF StartAudio
  <2>2. ~Construct(d)
    BY <1>1 DEF Construct
  <2>3. ~ConstructFails(d)
    BY <1>1 DEF ConstructFails
  <2>4. ~Attach(d)
    BY <1>1 DEF Attach, Idle
  <2>5. ~Refuse(d)
    BY <1>1 DEF Refuse, Idle
  <2>6. ASSUME NEW p \in Player, FindStream(d, p) PROVE FALSE
    BY <1>1, <2>6 DEF FindStream
  <2>7. ASSUME NEW prio \in Priority, SetAudioPriority(d, prio) PROVE FALSE
    BY <1>1, <2>7 DEF SetAudioPriority, Idle
  <2>8. call' # call
    BY <1>1
  <2>. QED
    BY <1>2, <2>1, <2>2, <2>3, <2>4, <2>5, <2>6, <2>7, <2>8
       DEF ClientNext, StopAudio, StopAllAudio, PauseResume, SeekAudioTime,
           SetPriorityPolicy, PauseAudioSystem
<1>3. call' # call
  BY <1>1
<1>. QED
  BY <1>2, <1>3 DEF Next, Render, RenderStalls, RenderStreams, TakeExternal,
                    RenderExternal, vars

(* A message that StopAudio posts.                                          *)
LEMMA StopAudioTells ==
  ASSUME IInv, NEW c, NEW p, NEW message, StopAudio(c, p, message),
         NEW q \in Player, told'[q] # told[q]
  PROVE  player[q].life = "alive" /\ player'[q].life = "deleted"
<1>1. TypeOK /\ Streams /\ Counts /\ Loops
  BY DEF IInv
<1>2. p \in Attached /\ p \in Player /\ RemovePlayers({p}) /\ {p} \subseteq Attached
  BY <1>1 DEF StopAudio, Attached, TypeOK
<1>3. q = p
  BY <1>1, <1>2, Told DEF StopAudio
<1>4. player' = Bury({p}) /\ num' = Uncount(num, {p})
  BY <1>2 DEF RemovePlayers
<1>. QED
  BY <1>1, <1>2, <1>3, <1>4, Buried

-----------------------------------------------------------------------------
(* The theorems *)

(* The variables keep their types.                                          *)
THEOREM MixerTypeCorrect == Spec => []TypeOK
<1>1. IInv => TypeOK
  BY DEF IInv
<1>. QED
  BY <1>1, Invariant, PTL

(* AddPlayer loses no player and counts each, although it constructs the    *)
(* new one with the mixer unlocked and gives up the stream it has chosen.   *)
THEOREM PlayersAreAccounted == Spec => []PlayersAccounted
<1>1. IInv => PlayersAccounted
  <2> SUFFICES ASSUME IInv PROVE PlayersAccounted
    OBVIOUS
  <2>1. TypeOK /\ Calls /\ Streams /\ Counts
    BY DEF IInv
  <2> DEFINE made == {call[c].id : c \in {d \in Client : call[d].at = "attach"}}
  <2>2. ASSUME NEW p, p \in {o \in Player : player[o].life = "alive"}
        PROVE  p \in Attached \cup made
    BY <2>1, <2>2, Constants DEF Streams, Attached
  <2>3. ASSUME NEW p \in Attached
        PROVE  p \in {o \in Player : player[o].life = "alive"}
    BY <2>1 DEF Streams, Attached, TypeOK
  <2>4. ASSUME NEW p \in made
        PROVE  p \in {o \in Player : player[o].life = "alive"}
    <3>1. PICK c \in Client : call[c].at = "attach" /\ p = call[c].id
      BY <2>4
    <3>2. p \in Player
      BY <2>1, <3>1, CallFields
    <3>3. player[p].life = "alive"
      BY <2>1, <3>1 DEF Calls
    <3>. QED
      BY <3>2, <3>3
  <2>5. \A c \in Building : slot[call[c].stream] = None
    BY <2>1 DEF Calls, Building
  <2>. QED
    BY <2>1, <2>2, <2>3, <2>4, <2>5 DEF PlayersAccounted, Streams, Counts, Living
<1>. QED
  BY <1>1, Invariant, PTL

(* What FindStream found under the mixer's mutex is there when the player   *)
(* is read from the stream without it.                                      *)
THEOREM FoundPlayersStay == Spec => []FoundPlayerStays
<1>1. IInv => FoundPlayerStays
  BY DEF IInv, Calls
<1>. QED
  BY <1>1, Invariant, PTL

(* A finished player whose listener wants the done message has had it,      *)
(* unless it loops within one buffer.                                       *)
THEOREM DoneMessagesSent == Spec => []DoneIsTold
<1>1. IInv => DoneIsTold
  BY DEF IInv
<1>. QED
  BY <1>1, Invariant, PTL

(* With a stream free, StartAudio halts a playing player only under the     *)
(* simple policy, at the limit of its class, and the least of that class.   *)
THEOREM PlayersHaltedByRule == Spec => HaltedByRule
<1> DEFINE ByRule(c) ==
      \A p \in Halted :
        LET r == call'[c].request
            k == LimitKind(r.kind)
            first == {slot[FindFreeStream]} \ {None}
        IN  /\ policy = "simple"
            /\ Uncount(num, first)[k] >= Limit[k]
            /\ player[p].kind = k
            /\ player[p].priority <= r.priority
            /\ \A q \in Attached \ first :
                 /\ ~Done(q) \/ player[q].seeked
                 /\ player[q].kind = k => player[p].priority <= player[q].priority
<1>1. IInv /\ [Next]_vars =>
        \A c \in Client : Starts(c) /\ ChannelFree => ByRule(c)
  <2> SUFFICES ASSUME IInv, [Next]_vars, NEW c \in Client, Starts(c), ChannelFree
               PROVE  ByRule(c)
    OBVIOUS
  <2>1. PICK r \in Request : StartAudio(c, r)
    BY OnlyStartAudio DEF Starts
  <2>. QED
    BY <2>1, StartAudioHalts
<1>. QED
  BY <1>1, Invariant, PTL DEF Spec, HaltedByRule

(* A done message comes from a player that finishes with no loop left, from *)
(* a stop that asks for it, or from the callback of the external stream.    *)
THEOREM ToldOnlyOnCompletion == Spec => ToldOnCompletion
<1> DEFINE Told3(p) ==
      \/ ~Done(p) /\ player'[p].done /\ player[p].loops = 0
      \/ player[p].life = "alive" /\ player'[p].life = "deleted"
      \/ renderer.at = "own" /\ slot[renderer.stream] = p
<1>1. IInv /\ [Next]_vars => \A p \in Player : told'[p] # told[p] => Told3(p)
  <2> SUFFICES ASSUME IInv, [Next]_vars, NEW p \in Player, told'[p] # told[p]
               PROVE  Told3(p)
    OBVIOUS
  <2>1. TypeOK /\ Taken /\ Streams
    BY DEF IInv
  <2>2. Pass => Told3(p)
    BY DEF Pass
  <2>3. told' # told
    OBVIOUS
  <2>4. ASSUME NEW c \in Client, ClientNext(c) PROVE Told3(p)
    <3>1. PICK q \in Player, message \in BOOLEAN : StopAudio(c, q, message)
      BY <2>3, <2>4 DEF ClientNext, StartAudio, Construct, ConstructFails, Attach, Refuse,
           StopAllAudio, PauseResume, SeekAudioTime, SetPriorityPolicy, PauseAudioSystem,
           FindStream, SetAudioPriority
    <3>. QED
      BY <3>1, StopAudioTells
  <2>5. CASE Render
    BY <2>1, <2>2, <2>5, StreamsPass DEF Render
  <2>6. ASSUME NEW s \in Stream, RenderStalls(s) PROVE Told3(p)
    BY <2>1, <2>2, <2>6, StreamsPass DEF RenderStalls
  <2>7. CASE RenderExternal
    BY <2>1, <2>2, <2>7, ExternalPass
  <2>. QED
    BY <2>3, <2>4, <2>5, <2>6, <2>7 DEF Next, TakeExternal, vars
<1>. QED
  BY <1>1, Invariant, PTL DEF Spec, ToldOnCompletion
=============================================================================
