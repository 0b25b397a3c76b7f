---------------------------- MODULE MCDoubleDfa ----------------------------
(***************************************************************************)
(* DoubleDfa over strings of even and odd lengths, whose middle falls on   *)
(* every byte of a sequence.  With an int of four bits, those of eight     *)
(* bytes and more are too long for it, and those of sixteen for unsigned.  *)
(***************************************************************************)
EXTENDS DoubleDfa

string(bytes) ==
  [len |-> Len(bytes), src |-> [q \in 0 .. Len(bytes) - 1 |-> bytes[q + 1]]]

sequences ==
  {<<32>>, <<194, 128>>, <<194, 129>>, <<225, 129, 128>>, <<225, 129, 129>>,
   <<240, 144, 129, 128>>, <<240, 144, 129, 129>>, <<193, 129>>, <<225>>,
   <<129>>, <<245>>}

spaces == [n \in 1 .. 13 |-> 32]

MCInputs ==
  {string(<<b>>) : b \in {0, 128, 129, 193, 225}}
    \union {string(s \o t \o u \o v) : s \in sequences, t \in sequences,
                                       u \in sequences, v \in {<<>>, <<0>>}}
    \union {string(s \o spaces \o t \o u) : s \in sequences, t \in sequences,
                                            u \in {<<>>, <<129>>, <<225>>}}
=============================================================================
