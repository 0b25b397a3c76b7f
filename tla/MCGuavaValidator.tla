------------------------- MODULE MCGuavaValidator -------------------------
(***************************************************************************)
(* GuavaValidator over short strings of edge bytes.                        *)
(***************************************************************************)
EXTENDS GuavaValidator, Sequences

edgeBytes == {32, 127, 128, 143, 144, 159, 160, 191, 192, 193, 194, 223, 224,
              225, 236, 237, 238, 239, 240, 241, 243, 244, 245, 255}

string(bytes) ==
  [len |-> Len(bytes), src |-> [q \in 0 .. Len(bytes) - 1 |-> bytes[q + 1]]]

MCInputs ==
  {string(b) : b \in {<< >>} \union (edgeBytes \X edgeBytes)
                       \union (edgeBytes \X edgeBytes \X {32, 128, 191, 192})
                       \union ({237, 240, 241, 243, 244, 245, 255}
                                 \X {32, 128, 143, 144, 191} \X {32, 128, 194}
                                 \X {32, 191, 240} \X {32, 194})
                       \union ({240, 241, 244} \X {128, 143, 144}
                                 \X {128, 160} \X {128, 191})}
=============================================================================
