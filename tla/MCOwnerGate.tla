---------------------------- MODULE MCOwnerGate -----------------------------
(* OwnerGate with small constants for TLC; the sizes are the real ones. *)
EXTENDS OwnerGate

MiB == 1024 * 1024

(* The topic "o.e", and links for "o", which covers it, and for "p". *)
MCTopic == <<"o", ".", "e">>
MCScopes == {<<"o">>, <<"p">>}

MCMaxPayloadBytes == 10 * MiB
MCMaxIngestHexBytes == 2 * MCMaxPayloadBytes + 64 * 1024

(* Half the limit, and the limit. *)
MCSizes == {5 * MiB, 10 * MiB}
==============================================================================
