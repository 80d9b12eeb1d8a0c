----------------------------- MODULE MCChannels -----------------------------
(***************************************************************************)
(* Instance of Channels for TLC: each program uses one channel, with its   *)
(* counters (headless) or its waveform; short lengths and periods.         *)
(***************************************************************************)
EXTENDS Channels

MCLengthTable == <<1, 3>>
MCDuty == [d \in 0..1 |-> IF d = 0 THEN {1} ELSE {0, 3, 4, 5, 6, 7}]

MCPrograms ==
  [headless : {TRUE}, unit : {1}, uses : {"pulse", "noise", "triangle"}]
    \cup [headless : {TRUE}, unit : 0..1, uses : {"sweep"}]
    \cup [headless : {FALSE}, unit : {1}, uses : {"pulse_wave", "noise_wave", "triangle_wave"}]

Envelope(reg, volumes, constant, loops, duties) ==
  {<<reg, [volume |-> v, constant |-> constant, loop |-> l, duty |-> d]>> :
     v \in volumes, l \in loops, d \in duties}

Lengths(reg, highs, lengths) == {<<reg, [high |-> h, length |-> i]>> : h \in highs, i \in lengths}

Enables(name) == {<<"4015", [enabled |-> e]>> : e \in {{}, {name}}}

Sweeps == {<<"4001", [shift |-> s, negate |-> n, divider |-> 1, enable |-> e]>> :
             s \in {0, 1, 2}, n \in 0..1, e \in {1}}

Lows(reg, lows) == {<<reg, [low |-> l]>> : l \in lows}

Linears == {<<"4008", [linear |-> l, control |-> c]>> : l \in {0, 2}, c \in 0..1}

Noises == {<<"400E", [period |-> 1, mode |-> m]>> : m \in 0..1}

MCWrites ==
  [pulse |-> Envelope("4000", 0..1, 0, 0..1, {0}) \cup Lengths("4003", {0}, 1..2) \cup Enables("pulse"),
   noise |-> Envelope("400C", 0..1, 0, 0..1, {0}) \cup Lengths("400F", {0}, 1..2) \cup Enables("noise"),
   triangle |-> Linears \cup Lengths("400B", {0}, 1..2) \cup Enables("triangle"),
   sweep |-> Sweeps \cup Lows("4002", 0..1) \cup Lengths("4003", {0, 2, 7}, {1}),
   pulse_wave |-> Envelope("4000", {0}, 0, {1}, 0..1) \cup Lows("4002", {1})
                    \cup Lengths("4003", {0}, {1}) \cup Enables("pulse"),
   noise_wave |-> Noises \cup Envelope("400C", {0}, 0, {1}, {0}) \cup Lengths("400F", {0}, {1})
                    \cup Enables("noise"),
   triangle_wave |-> Linears \cup Lows("400A", {0}) \cup Lengths("400B", {0}, {1})
                       \cup Enables("triangle")]

=============================================================================
