----------------------------- MODULE AudioMixer -----------------------------
(***************************************************************************)
(* The audio mixer (System/Audio: Audio.cpp, Mixer.cpp, Stream.cpp and the *)
(* players).  Application threads start, stop, pause and seek players      *)
(* through CAudioModule, which serialises its calls with mpiMutex_ (the    *)
(* variable audioLock); the callback thread of AlsaOutput.cpp renders.     *)
(*                                                                         *)
(* Everything done under mixerMutex_ between one lock and the next unlock  *)
(* is one step, for every other section takes the same mutex.  AddPlayer   *)
(* gives the mutex up around the construction of a player, and the queries *)
(* of Audio.cpp after FindStream: those calls take several steps.          *)
(***************************************************************************)
EXTENDS Naturals, FiniteSets, FiniteSetsExt

CONSTANTS
  Client,      \* application threads
  NoClient,
  NumStreams,  \* kAudioMaxMixerStreams
  Limit,       \* GetMaxPlayers() of each counted kind of player
  Request,     \* what StartAudio may be asked for
  Priority,    \* the priorities SetAudioPriority may set
  Position,    \* where SeekAudioTime may move to: frames to the end of the clip
  Buffer,      \* frames a stream renders in one pass of the mixer
  MaxPlayers,  \* bound: players made in a behaviour
  MaxTold      \* bound: done messages counted for one player

Counted == {"vorbis", "raw", "mem"}
Kind == Counted \cup {"avi"}
Stream == 1..NumStreams
Player == 1..MaxPlayers
None == 0

(* tAudioStartAudioInfo, reduced to what the mixer's control depends on:    *)
(* the class of player its file extension asks for, its priority, whether   *)
(* its sample rate needs an output of its own, whether a listener wants the *)
(* done message, how often the clip is repeated and its length in frames.   *)
RequestType == [kind: Kind, priority: Nat, external: BOOLEAN,
                wants: BOOLEAN, loops: Nat, length: Nat \ {0}]

ASSUME ClientAssumption == NoClient \notin Client
ASSUME SizeAssumption == /\ NumStreams \in Nat \ {0}
                         /\ Buffer \in Nat \ {0}
                         /\ MaxPlayers \in Nat \ {0}
                         /\ MaxTold \in Nat \ {0}
ASSUME LimitAssumption == Limit \in [Counted -> Nat]
ASSUME RequestAssumption == Request \subseteq RequestType
ASSUME PriorityAssumption == Priority \subseteq Nat /\ Position \subseteq Nat

VARIABLES
  audioLock,  \* holder of CAudioModule's mpiMutex_
  call,       \* what each client has under way: see CallType
  slot,       \* pStreams_[i].pPlayer_
  external,   \* pStreams_[i].bExternalStream_
  alsa,       \* the stream AlsaOutput renders to an output of its own (pPlayer)
  player,     \* the players ever made: see PlayerType
  num,        \* num...Players of each counted class
  nextID,     \* nextAudioID
  policy,     \* currentPolicy
  silent,     \* isPaused_ of the mixer
  renderer,   \* CallbackThread: where it is, and the stream it took from AlsaOutput
  told        \* done messages posted for each player

vars == <<audioLock, call, slot, external, alsa, player, num, nextID, policy,
          silent, renderer, told>>

Life == {"unborn", "alive", "deleted"}

(* left: frames to the end of the clip; loops: repeats still to play.       *)
PlayerType == [life: Life, kind: Kind, priority: Nat, external: BOOLEAN,
               wants: BOOLEAN, looped: BOOLEAN, length: Nat, left: Nat, loops: Nat,
               paused: BOOLEAN, done: BOOLEAN, seeked: BOOLEAN]

NoPlayer == [life |-> "unborn", kind |-> "raw", priority |-> 0, external |-> FALSE,
             wants |-> FALSE, looped |-> FALSE, length |-> 0, left |-> 0, loops |-> 0,
             paused |-> FALSE, done |-> FALSE, seeked |-> FALSE]

NewPlayer(r) == [life |-> "alive", kind |-> r.kind, priority |-> r.priority,
                 external |-> r.external, wants |-> r.wants, looped |-> r.loops > 0,
                 length |-> r.length, left |-> r.length, loops |-> r.loops,
                 paused |-> FALSE, done |-> FALSE, seeked |-> FALSE]

(* A deleted player: of what it was only whether it was external is kept.   *)
Gone(p) == [NoPlayer EXCEPT !.life = "deleted", !.external = player[p].external]

CallType ==
  [at: {"idle"}]
  \cup [at: {"construct"}, stream: Stream, id: Player, request: RequestType]
  \cup [at: {"attach"}, stream: Stream, id: Player, request: RequestType]
  \cup [at: {"refused"}, request: RequestType]
  \cup [at: {"found"}, stream: Stream, id: Player]

Idle == [at |-> "idle"]

(* "mix" before the mixer's callback, "out" after it, "own" when a stream   *)
(* of its own is to be rendered.                                            *)
RendererType == [at: {"mix", "out", "own"}, stream: Stream \cup {None}]

Mixing == [at |-> "mix", stream |-> None]

TypeOK ==
  /\ audioLock \in Client \cup {NoClient}
  /\ call \in [Client -> CallType]
  /\ slot \in [Stream -> Player \cup {None}]
  /\ external \in [Stream -> BOOLEAN]
  /\ alsa \in Stream \cup {None}
  /\ player \in [Player -> PlayerType]
  /\ num \in [Counted -> Nat]
  /\ nextID \in 1..(MaxPlayers + 1)
  /\ policy \in {"none", "simple"}
  /\ silent \in BOOLEAN
  /\ renderer \in RendererType
  /\ told \in [Player -> 0..MaxTold]

Init ==
  /\ audioLock = NoClient
  /\ call = [c \in Client |-> Idle]
  /\ slot = [s \in Stream |-> None]
  /\ external = [s \in Stream |-> FALSE]
  /\ alsa = None
  /\ player = [p \in Player |-> NoPlayer]
  /\ num = [k \in Counted |-> 0]
  /\ nextID = 1
  /\ policy = "none"
  /\ silent = FALSE
  /\ renderer = Mixing
  /\ told = [p \in Player |-> 0]

-----------------------------------------------------------------------------
(* Streams and players. *)

Attached == {slot[s] : s \in Stream} \ {None}
Done(p) == player[p].done

(* Faulty: the calls of CAudioModule are not serialised.                    *)
LockNothing(c) == call[c] = Idle

(* AUDIO_LOCK, taken by a client that has no call under way.                *)
LockAudio(c) == /\ call[c] = Idle
                /\ audioLock = NoClient

(* FindFreeStream: the first stream without a player or with a finished     *)
(* one; when there is none the loop leaves its pointer at the last stream.  *)
FindFreeStream ==
  LET free == {s \in Stream : slot[s] = None \/ Done(slot[s])}
  IN  IF free = {} THEN NumStreams ELSE Min(free)

(* Faulty: the lowest priority is halted whatever the new one's is.         *)
FindLowestStream(sl, k, prio) ==
  LET busy == {s \in Stream : sl[s] # None}
      dead == {s \in busy : Done(sl[s]) /\ ~player[sl[s]].seeked}
      same == {s \in busy : player[sl[s]].kind = k}
      lowest == {s \in same : \A t \in same :
                                player[sl[s]].priority <= player[sl[t]].priority}
  IN  IF dead # {} THEN Min(dead)
      ELSE IF policy = "simple" /\ lowest # {} THEN Max(lowest)
      ELSE None

(* FindKillableStream over the streams sl: the first finished player that   *)
(* was never seeked, of any class; else, under the simple policy, the       *)
(* player of class k with the lowest priority, if that is not above prio,   *)
(* the last stream before the others among equals (push_front, then a       *)
(* stable sort).                                                            *)
FindKillableStream(sl, k, prio) ==
  LET busy == {s \in Stream : sl[s] # None}
      dead == {s \in busy : Done(sl[s]) /\ ~player[sl[s]].seeked}
      rank(s) == player[sl[s]].priority
      same == {s \in busy : player[sl[s]].kind = k}
      lowest == {s \in same : /\ rank(s) <= prio
                              /\ \A t \in same : rank(s) <= rank(t)}
  IN  IF dead # {} THEN Min(dead)
      ELSE IF policy = "simple" /\ lowest # {} THEN Max(lowest)
      ELSE None

(* The destructors of the players in gone.                                  *)
Uncount(n, gone) ==
  [k \in Counted |-> n[k] - Cardinality({p \in gone : player[p].kind = k})]

Bury(gone) == [p \in Player |-> IF p \in gone THEN Gone(p) ELSE player[p]]

(* RemovePlayerInternal for the players in gone, but for its message:       *)
(* delete, RemoveAudioOutputAlsa (which ignores all but the stream it       *)
(* renders) and Release.                                                    *)
RemovePlayers(gone) ==
  LET emptied == {s \in Stream : slot[s] \in gone}
  IN  /\ slot' = [s \in Stream |-> IF s \in emptied THEN None ELSE slot[s]]
      /\ external' = [s \in Stream |-> s \notin emptied /\ external[s]]
      /\ alsa' = IF alsa \in emptied /\ external[alsa] THEN None ELSE alsa
      /\ player' = Bury(gone)
      /\ num' = Uncount(num, gone)
-----------------------------------------------------------------------------
(* StartAudio: AddPlayer and CreatePlayer. *)

(* The class whose limit a request is tested against: every extension but   *)
(* the Ogg ones counts as raw.                                              *)
LimitKind(k) == IF k = "avi" THEN "raw" ELSE k

(* Up to the first unlock: the free stream is emptied, the limit of the     *)
(* class is tested, and at the limit a player is halted if one may be (at   *)
(* the limit the new player is a raw one even for an extension of LibAV).   *)
StartAudio(c, r) ==
  LET s == FindFreeStream
      first == {slot[s]} \ {None}
      sl == [slot EXCEPT ![s] = None]
      k == LimitKind(r.kind)
      room == Uncount(num, first)[k] < Limit[k]
      victim == IF room \/ k = "mem" THEN None
                ELSE FindKillableStream(sl, k, r.priority)
      second == IF victim = None THEN {} ELSE {sl[victim]}
  IN  /\ LockAudio(c)
      /\ nextID <= MaxPlayers
      /\ audioLock' = c
      /\ RemovePlayers(first \cup second)
      /\ IF room \/ victim # None
         THEN /\ call' = [call EXCEPT ![c] =
                   [at |-> "construct", stream |-> s, id |-> nextID,
                    request |-> [r EXCEPT !.kind = IF room THEN @ ELSE k]]]
              /\ nextID' = nextID + 1
         ELSE /\ call' = [call EXCEPT ![c] = [at |-> "refused", request |-> r]]
              /\ UNCHANGED nextID
      /\ UNCHANGED <<policy, silent, renderer, told>>

(* Faulty: a constructor that does not count its player.                    *)
ConstructUncounted(c) ==
  /\ call[c].at = "construct"
  /\ player' = [player EXCEPT ![call[c].id] = NewPlayer(call[c].request)]
  /\ call' = [call EXCEPT ![c].at = "attach"]
  /\ UNCHANGED <<audioLock, slot, external, alsa, num, nextID, policy, silent, renderer,
                 told>>

(* The constructor, with the mixer unlocked.                                *)
Construct(c) ==
  /\ call[c].at = "construct"
  /\ player' = [player EXCEPT ![call[c].id] = NewPlayer(call[c].request)]
  /\ num' = [k \in Counted |->
               IF k = call[c].request.kind THEN num[k] + 1 ELSE num[k]]
  /\ call' = [call EXCEPT ![c].at = "attach"]
  /\ UNCHANGED <<audioLock, slot, external, alsa, nextID, policy, silent, renderer, told>>

(* A file the decoder refuses: the constructor returns before it counts the *)
(* player, with the id kNoAudioID, and CreatePlayer deletes it.             *)
ConstructFails(c) ==
  /\ call[c].at = "construct"
  /\ call[c].request.kind \in {"vorbis", "avi"}
  /\ player' = [player EXCEPT ![call[c].id].life = "deleted"]
  /\ call' = [call EXCEPT ![c] = [at |-> "refused", request |-> call[c].request]]
  /\ UNCHANGED <<audioLock, slot, external, alsa, num, nextID, policy, silent,
                 renderer, told>>

(* InitWithPlayer and, for a rate the mixer does not have, an output of its *)
(* own: AlsaOutput keeps one such stream, the last; an output that cannot   *)
(* be opened or started leaves it the one it had, and nobody asks.          *)
Attach(c) ==
  LET s == call[c].stream  r == call[c].request
  IN  /\ call[c].at = "attach"
      /\ slot' = [slot EXCEPT ![s] = call[c].id]
      /\ external' = [external EXCEPT ![s] = @ \/ r.external]
      /\ alsa' \in IF r.external THEN {s, alsa} ELSE {alsa}
      /\ call' = [call EXCEPT ![c] = Idle]
      /\ audioLock' = NoClient
      /\ UNCHANGED <<player, num, nextID, policy, silent, renderer, told>>

(* StartAudio returns kNoAudioID.                                           *)
Refuse(c) ==
  /\ call[c].at = "refused"
  /\ call' = [call EXCEPT ![c] = Idle]
  /\ audioLock' = NoClient
  /\ UNCHANGED <<slot, external, alsa, player, num, nextID, policy, silent, renderer, told>>
-----------------------------------------------------------------------------
(* The other calls. *)

Tell(p) == [told EXCEPT ![p] = IF @ < MaxTold THEN @ + 1 ELSE @]

(* StopAudio(id, option): with kStopAudioOptionsDoneMsg the message is      *)
(* posted whatever the player's own flags say.                              *)
StopAudio(c, p, message) ==
  /\ LockAudio(c)
  /\ p \in Attached
  /\ RemovePlayers({p})
  /\ told' = IF message THEN Tell(p) ELSE told
  /\ UNCHANGED <<audioLock, call, nextID, policy, silent, renderer>>

(* Faulty: all players are deleted outside the audio lock.                  *)
StopAllUnlocked(c) ==
  /\ call[c] = Idle
  /\ Attached # {}
  /\ slot' = [s \in Stream |-> None]
  /\ external' = [s \in Stream |-> FALSE]
  /\ player' = Bury(Attached)
  /\ num' = Uncount(num, Attached)
  /\ UNCHANGED <<audioLock, call, alsa, nextID, policy, silent, renderer, told>>

(* RemoveAllPlayer deletes every player and releases its stream, but leaves *)
(* AlsaOutput with the stream it renders.                                   *)
StopAllAudio(c) ==
  /\ LockAudio(c)
  /\ Attached # {}
  /\ slot' = [s \in Stream |-> None]
  /\ external' = [s \in Stream |-> FALSE]
  /\ player' = Bury(Attached)
  /\ num' = Uncount(num, Attached)
  /\ UNCHANGED <<audioLock, call, alsa, nextID, policy, silent, renderer, told>>

(* PausePlayer and ResumePlayer of the players in which.                    *)
SetPaused(which, paused) ==
  player' = [p \in Player |-> IF p \in which /\ ~Done(p)
                              THEN [player[p] EXCEPT !.paused = paused] ELSE player[p]]

PauseResume(c, which, paused) ==
  /\ LockAudio(c)
  /\ SetPaused(which, paused)
  /\ UNCHANGED <<audioLock, call, slot, external, alsa, num, nextID, policy, silent,
                 renderer, told>>

(* SeekAudioTime: the position moves, if the decoder can, and a memory      *)
(* player's does if it plays from memory; either way the player counts as   *)
(* seeked, and a finished one stays finished.  Bound: one seek of a player. *)
SeekAudioTime(c, p, frames) ==
  /\ LockAudio(c)
  /\ p \in Attached /\ ~player[p].seeked
  /\ frames <= player[p].length
  /\ \E left \in {frames, player[p].left} :
       player' = [player EXCEPT ![p].left = left, ![p].seeked = TRUE]
  /\ UNCHANGED <<audioLock, call, slot, external, alsa, num, nextID, policy, silent,
                 renderer, told>>

SetPriorityPolicy(c, pol) ==
  /\ LockAudio(c)
  /\ policy' = pol
  /\ UNCHANGED <<audioLock, call, slot, external, alsa, player, num, nextID, silent,
                 renderer, told>>

(* PauseAudioSystem and ResumeAudioSystem.                                  *)
PauseAudioSystem(c, off) ==
  /\ LockAudio(c)
  /\ silent' = off
  /\ UNCHANGED <<audioLock, call, slot, external, alsa, player, num, nextID, policy,
                 renderer, told>>

(* FindStreamInternal: the last stream with the player.                     *)
FindStreamInternal(p) == Max({s \in Stream : slot[s] = p})

(* SetAudioPriority and the like: the mixer is unlocked again when          *)
(* FindStream returns, and the player is taken from the stream after that.  *)
FindStream(c, p) ==
  /\ LockAudio(c)
  /\ p \in Attached
  /\ audioLock' = c
  /\ call' = [call EXCEPT ![c] = [at |-> "found", stream |-> FindStreamInternal(p),
                                  id |-> p]]
  /\ UNCHANGED <<slot, external, alsa, player, num, nextID, policy, silent, renderer, told>>

SetAudioPriority(c, prio) ==
  LET p == slot[call[c].stream]
  IN  /\ call[c].at = "found"
      /\ player' = IF p = None THEN player ELSE [player EXCEPT ![p].priority = prio]
      /\ call' = [call EXCEPT ![c] = Idle]
      /\ audioLock' = NoClient
      /\ UNCHANGED <<slot, external, alsa, num, nextID, policy, silent, renderer, told>>
-----------------------------------------------------------------------------
(* The callback thread. *)

(* Render of a player: a clip that ends within the frames asked for is      *)
(* finished, and stays so.                                                  *)
Rendered(pl, frames) ==
  IF pl.done THEN pl
  ELSE [pl EXCEPT !.left = IF pl.left < frames THEN 0 ELSE pl.left - frames,
                  !.done = pl.left < frames]

(* HandlePlayerLooping: one more loop, from the beginning.                  *)
Rewound(pl) == [pl EXCEPT !.loops = @ - 1, !.left = pl.length, !.done = FALSE]

(* One stream in one pass of CAudioMixer::Render: a player that loops fills *)
(* the rest of the buffer from its beginning.                               *)
Mixed(pl) ==
  LET one == Rendered(pl, Buffer)
      rest == Buffer - pl.left
  IN  IF one.done /\ one.loops > 0 THEN Rendered(Rewound(one), rest) ELSE one

(* The same for the callback of the external stream, which does not fill up *)
(* and does not ask whether the player had finished before.                 *)
Played(pl) ==
  LET one == Rendered(pl, Buffer)
  IN  IF one.done /\ one.loops > 0 THEN Rewound(one) ELSE one

(* Faulty: the test of IsSeeked stands before the message is posted.        *)
CompletesUnseeked(pl) == Rendered(pl, Buffer).done /\ pl.loops = 0 /\ ~pl.seeked

(* The player that HandlePlayerEvent reports finished.                      *)
Completes(pl) == Rendered(pl, Buffer).done /\ pl.loops = 0

(* Faulty: finished players are rendered again.                             *)
ToRenderAll == {s \in Stream : slot[s] # None /\ ~player[slot[s]].paused}

(* The streams a pass of the mixer renders itself.                          *)
ToRender == {s \in Stream : /\ slot[s] # None
                            /\ ~player[slot[s]].paused /\ ~Done(slot[s])}

(* Faulty: the pass ends at the first stream without a player.              *)
ToMixUpToGap == {s \in ToRender : ~external[s] /\ \A t \in 1..s : slot[t] # None}

(* An external stream is left to the callback of its own.                   *)
ToMix == {s \in ToRender : ~external[s]}

(* WrapperToCallRender over the streams below upto: a memory player whose   *)
(* own callback has no data yet ends the pass at its stream.                *)
RenderStreams(upto) ==
  LET mixed == IF silent THEN {} ELSE {slot[s] : s \in {t \in ToMix : t < upto}}
  IN  /\ player' = [p \in Player |-> IF p \in mixed THEN Mixed(player[p]) ELSE player[p]]
      /\ told' = [p \in Player |->
                    IF p \in mixed /\ player[p].wants /\ Completes(player[p])
                    THEN Tell(p)[p] ELSE told[p]]
      /\ UNCHANGED <<audioLock, call, slot, external, alsa, num, nextID, policy, silent>>

Render == /\ renderer.at = "mix"
          /\ RenderStreams(NumStreams + 1)
          /\ renderer' = [renderer EXCEPT !.at = "out"]

(* kAudioNoDataAvailErr: the callback thread sleeps and tries again.        *)
RenderStalls(s) == /\ renderer.at = "mix" /\ ~silent
                   /\ s \in ToMix /\ player[slot[s]].kind = "mem"
                   /\ RenderStreams(s)
                   /\ UNCHANGED renderer

(* The callback thread reads AlsaOutput's stream with no lock held.         *)
TakeExternal ==
  /\ renderer.at = "out"
  /\ renderer' = IF alsa = None THEN Mixing ELSE [at |-> "own", stream |-> alsa]
  /\ UNCHANGED <<audioLock, call, slot, external, alsa, player, num, nextID, policy,
                 silent, told>>

(* WrapperToCallPlayer for the stream read before, whatever it holds now.   *)
RenderExternal ==
  LET p == slot[renderer.stream]
  IN  /\ renderer.at = "own"
      /\ renderer' = Mixing
      /\ IF p = None \/ silent THEN UNCHANGED <<player, told>>
         ELSE IF player[p].paused THEN UNCHANGED <<player, told>>
         ELSE /\ player' = [player EXCEPT ![p] = Played(@)]
              /\ told' = IF player[p].wants /\ Completes(player[p]) THEN Tell(p) ELSE told
      /\ UNCHANGED <<audioLock, call, slot, external, alsa, num, nextID, policy, silent>>
-----------------------------------------------------------------------------
ClientNext(c) ==
  \/ \E r \in Request : StartAudio(c, r)
  \/ Construct(c) \/ ConstructFails(c) \/ Attach(c) \/ Refuse(c)
  \/ \E p \in Player, message \in BOOLEAN : StopAudio(c, p, message)
  \/ StopAllAudio(c)
  \/ \E paused \in BOOLEAN :
       \/ PauseResume(c, Attached, paused)
       \/ \E p \in Attached : PauseResume(c, {p}, paused)
  \/ \E p \in Player, frames \in Position : SeekAudioTime(c, p, frames)
  \/ \E pol \in {"none", "simple"} : SetPriorityPolicy(c, pol)
  \/ \E off \in BOOLEAN : PauseAudioSystem(c, off)
  \/ \E p \in Player : FindStream(c, p)
  \/ \E prio \in Priority : SetAudioPriority(c, prio)

Next ==
  \/ \E c \in Client : ClientNext(c)
  \/ Render
  \/ \E s \in Stream : RenderStalls(s)
  \/ TakeExternal
  \/ RenderExternal

(* The callback thread runs in a loop of its own, and the callback of a     *)
(* memory player has data again in the end.                                 *)
Fairness == WF_vars(Render) /\ WF_vars(TakeExternal) /\ WF_vars(RenderExternal)

Spec == Init /\ [][Next]_vars /\ Fairness
-----------------------------------------------------------------------------
(* Properties *)

Building == {c \in Client : call[c].at \in {"construct", "attach"}}

(* No player is lost: a player lives while one stream has it or the call    *)
(* that makes it is about to attach it, the stream chosen for it is still   *)
(* empty then, although the mixer was unlocked in between, and the counts   *)
(* the limits are tested against are those of the living players.           *)
PlayersAccounted ==
  /\ {p \in Player : player[p].life = "alive"}
       = Attached \cup {call[c].id : c \in {d \in Client : call[d].at = "attach"}}
  /\ \A s, t \in Stream : slot[s] = slot[t] /\ slot[s] # None => s = t
  /\ \A c \in Building : slot[call[c].stream] = None
  /\ \A k \in Counted : num[k] =
       Cardinality({p \in Player : player[p].life = "alive" /\ player[p].kind = k})

(* A query that found a stream with the mixer locked still meets the player *)
(* it asked for when it reads the stream unlocked.                          *)
FoundPlayerStays ==
  \A c \in Client : call[c].at = "found" => slot[call[c].stream] = call[c].id

(* A start of c: StartAudio up to its first unlock.                         *)
Starts(c) == call[c] = Idle /\ call'[c].at \in {"construct", "refused"}

(* The players a step stops before their end.                               *)
Halted == {p \in Attached : ~Done(p) /\ player'[p].life = "deleted"}

ChannelFree == \E s \in Stream : slot[s] = None \/ Done(slot[s])

(* With a stream free StartAudio halts a player that is still playing only  *)
(* under the simple policy, when its class is at its limit even without the *)
(* finished player of that stream, and then one of that class that has no   *)
(* higher priority than the new one and the lowest of its class, if there   *)
(* is no finished player to remove instead (AudioTypes.h, Cases 0 and 1).   *)
HaltedByRule ==
  [][\A c \in Client : Starts(c) /\ ChannelFree =>
       \A p \in Halted :
         LET r == call'[c].request
             k == LimitKind(r.kind)
             first == {slot[FindFreeStream]} \ {None}
         IN  /\ policy = "simple"
             /\ Uncount(num, first)[k] >= Limit[k]
             /\ player[p].kind = k
             /\ player[p].priority <= r.priority
             /\ \A q \in Attached \ first :
                  /\ ~Done(q) \/ player[q].seeked
                  /\ player[q].kind = k => player[p].priority <= player[q].priority]_vars

(* A finished player whose listener wants the done message has had it,      *)
(* unless it is a loop shorter than one buffer: filled up from its          *)
(* beginning it ends twice in one pass, and the second end goes unseen.     *)
DoneIsTold ==
  \A p \in Attached : /\ Done(p) /\ player[p].wants
                      /\ ~(player[p].looped /\ player[p].length < Buffer)
                      => told[p] > 0

(* A done message comes from a player that finishes with no loop left, from *)
(* a stop that asks for it, or from the callback of the external stream.    *)
ToldOnCompletion ==
  [][\A p \in Player : told'[p] # told[p] =>
       \/ ~Done(p) /\ player'[p].done /\ player[p].loops = 0
       \/ player[p].life = "alive" /\ player'[p].life = "deleted"
       \/ renderer.at = "own" /\ slot[renderer.stream] = p]_vars

Playing(p) == /\ p \in Attached /\ ~Done(p) /\ ~player[p].paused /\ ~silent
              /\ LET s == FindStreamInternal(p) IN external[s] => alsa = s

(* A player of the mixer, or the external one that AlsaOutput renders,      *)
(* does not play for ever: it ends, or someone pauses or removes it.        *)
PlaysOut == \A p \in Player : []<>~Playing(p)

(* AudioTypes.h:145-148: with no policy a start fails when all channels are *)
(* full or the maximum number of players of its class is in use; and under  *)
(* either policy (145-170) no player is halted for one of lower priority.   *)
StartsByPolicy ==
  [][\A c \in Client : Starts(c) =>
       LET r == call'[c].request
           k == LimitKind(r.kind)
           inUse == {p \in Attached : player[p].kind = k /\ ~Done(p)}
           full == ~ChannelFree \/ Cardinality(inUse) >= Limit[k]
       IN  /\ policy = "none" /\ full => call'[c].at = "refused" /\ Halted = {}
           /\ \A p \in Halted : player[p].priority <= r.priority]_vars

=============================================================================
