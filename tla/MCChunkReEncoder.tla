-------------------------- MODULE MCChunkReEncoder --------------------------
(***************************************************************************)
(* Uploads for TLC: up to MaxFrames frames, shorter, equal and longer than *)
(* a chunk, cut in every place, declared truly or not.                     *)
(***************************************************************************)
EXTENDS ChunkReEncoder

CONSTANTS FrameSizes, MaxFrames

FrameLists == UNION {[1..n -> FrameSizes] : n \in 0..MaxFrames}

Body(fs, cut, why, got, decoded) ==
    [frames |-> fs, cut |-> cut, why |-> why, got |-> got, decoded |-> decoded]

\* The bytes that arrive of a body.
Delivered(fs, cut, got) ==
    IF cut = "data" THEN Total(fs) - Last(fs) + got ELSE Total(fs)

\* What a client declares: what it meant to send, what it did send, and less
\* and more by one.
Declared(fs, cut, got) ==
    {n \in {Total(fs), Total(fs) + 1, Delivered(fs, cut, got),
                     Delivered(fs, cut, got) - 1} : n >= 0}

Places(fs) ==
    {<<c, 0>> : c \in Cuts \ {"data", "crlf", "cr"}}
      \cup (IF fs = << >> THEN {}
            ELSE {<<"crlf", 0>>, <<"cr", 0>>}
                   \cup {<<"data", g>> : g \in 0..(Last(fs) - 1)})

Reasons(cut) == IF cut = "none" THEN {"EOF"} ELSE Whys

MCUploads ==
    UNION {UNION {{Body(fs, p[1], w, p[2], d) :
                     w \in Reasons(p[1]), d \in Declared(fs, p[1], p[2])}
                    : p \in Places(fs)}
             : fs \in FrameLists}
=============================================================================
