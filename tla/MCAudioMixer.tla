---------------------------- MODULE MCAudioMixer ----------------------------
(* A Vorbis player, an external one of LibAV, and a memory player whose clip *)
(* is a loop shorter than one buffer.                                        *)
EXTENDS AudioMixer, TLC

MCLimit == "vorbis" :> 1 @@ "raw" :> 1 @@ "mem" :> 1

R(kind, prio, own, loops, length) ==
  [kind |-> kind, priority |-> prio, external |-> own, wants |-> TRUE,
   loops |-> loops, length |-> length]

MCRequest == { R("vorbis", 0, FALSE, 0, 2),
               R("avi", 1, TRUE, 0, 1),
               R("mem", 1, FALSE, 2, 1) }
=============================================================================
