------------------------------- MODULE MCDfa -------------------------------
(***************************************************************************)
(* Dfa over short strings of edge bytes: whole, cut by the end of the      *)
(* string, and with the terminating NUL.                                   *)
(***************************************************************************)
EXTENDS Dfa

\* Both ends of every run of the table utf8d, its longest runs left out.
edgeBytes == {0, 127, 128, 143, 144, 159, 160, 191, 193, 194, 223, 224,
              225, 236, 237, 239, 240, 241, 243, 244, 245}

string(bytes) ==
  [len |-> Len(bytes), src |-> [q \in 0 .. Len(bytes) - 1 |-> bytes[q + 1]]]

MCInputs ==
  {string(b) : b \in {<< >>} \union (edgeBytes \X edgeBytes)
                       \union (edgeBytes \X edgeBytes \X {0, 128, 191, 194})
                       \union ({194, 224, 237, 240, 243, 244}
                                 \X {128, 143, 144, 160} \X {0, 128, 194}
                                 \X {0, 128, 191, 224} \X {0, 32, 128})}
=============================================================================
