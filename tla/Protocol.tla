------------------------------ MODULE Protocol ------------------------------
(***************************************************************************)
(* Envelopes and AES-256-GCM of protocol.py.  The result of encrypt is     *)
(* known by what opens it: the key, the nonce, and bytes nobody altered.   *)
(* No associated data is passed to AES-GCM, so the header's sequence       *)
(* number and nonce are outside the authenticated part.                    *)
(***************************************************************************)
EXTENDS DKEEngine

CONSTANTS
    Plaintext,  \* the message texts
    SeqLimit    \* encode_envelope takes sequence numbers below it (2^64)

ASSUME SeqLimitAssumption == SeqLimit \in Nat \ {0}

Sealed == [key : Key, nonce : Nonce, plaintext : Plaintext, intact : BOOLEAN]
Envelope == [sequence : Nat, nonce : Nonce, sealed : Sealed, wellformed : BOOLEAN]

Encrypt(key, plaintext, nonce) ==
    [key |-> key, nonce |-> nonce, plaintext |-> plaintext, intact |-> TRUE]

\* decrypt raises InvalidTag unless this holds.
Authentic(key, sealed, nonce) ==
    sealed.intact /\ sealed.key = key /\ sealed.nonce = nonce

\* encode_envelope raises ValueError unless this holds.
Encodable(sequence) == sequence < SeqLimit

EncodeEnvelope(sequence, nonce, sealed) ==
    [sequence |-> sequence, nonce |-> nonce, sealed |-> sealed, wellformed |-> TRUE]

\* decode_envelope raises ParseError unless magic, version, flags and length hold.
Decodable(envelope) == envelope.wellformed

\* What damage in transit can make of an envelope: broken framing fields, a
\* changed ciphertext or tag, another sequence number, another nonce.
Damaged(envelope) ==
    {[envelope EXCEPT !.wellformed = FALSE], [envelope EXCEPT !.sealed.intact = FALSE]}
    \cup {[envelope EXCEPT !.sequence = s] : s \in (0 .. SeqLimit - 1) \ {envelope.sequence}}
    \cup {[envelope EXCEPT !.nonce = n] : n \in Nonce \ {envelope.nonce}}
=============================================================================
