----------------------------- MODULE DKEEngine -----------------------------
(***************************************************************************)
(* The ratchet of dke_engine.py as operators on the session state.         *)
(*                                                                         *)
(* A key is known by how it was derived: the steps hashed into K0 so far.  *)
(* SHA-256 is taken to be injective and one-way, so two keys are equal iff *)
(* they were reached by the same steps, and from a key one can compute     *)
(* those that extend it and no others.                                     *)
(***************************************************************************)
EXTENDS Naturals, Sequences

CONSTANTS
    Nonce,      \* the values of the 12-byte AES-GCM nonces
    ZeroNonce   \* twelve zero bytes, the initial last_nonce

ASSUME NonceAssumption == ZeroNonce \in Nonce

\* What one call of advance_key hashes besides the current key.
Step == [nonce : Nonce, sequence : Nat]
Key == Seq(Step)

DirectionState == [current_key : Key, sequence_number : Nat, last_nonce : Nonce]
DKESessionState == [outbound : DirectionState, inbound : DirectionState]

\* Both chains start as copies of the same K0.
FromK0(k0) ==
    LET fresh == [current_key |-> k0, sequence_number |-> 0, last_nonce |-> ZeroNonce]
    IN  [outbound |-> fresh, inbound |-> fresh]

\* Two bugs this model would show: the last two arguments swapped, and the
\* nonce left out of the hash.
AdvanceKeySwapped(key, nonce, sequence) ==
    Append(key, [nonce |-> sequence, sequence |-> nonce])

AdvanceKeyWithoutNonce(key, nonce, sequence) ==
    Append(key, [nonce |-> ZeroNonce, sequence |-> sequence])

AdvanceKey(key, nonce, sequence) ==
    Append(key, [nonce |-> nonce, sequence |-> sequence])

\* Bug: gaps let through.
ValidSequenceWithGaps(expected, received) == received >= expected

\* validate_sequence raises SequenceError unless this holds.
ValidSequence(expected, received) == received = expected

OutboundParams(state) ==
    [key |-> state.outbound.current_key, sequence |-> state.outbound.sequence_number]

\* The key snapshot handed to decrypt, once the sequence number is validated.
InboundKey(state) == state.inbound.current_key

\* The first message may carry the initial last_nonce by chance: no reuse then.
NonceReused(state, nonce) ==
    /\ state.inbound.sequence_number > 0
    /\ nonce = state.inbound.last_nonce

Rotated(direction, nonce, sequence) ==
    [current_key     |-> AdvanceKey(direction.current_key, nonce, sequence),
     sequence_number |-> direction.sequence_number + 1,
     last_nonce      |-> nonce]

\* Bugs: the counter advanced without the key, or before it is hashed.
RotateSendCounterOnly(state, nonce) ==
    [state EXCEPT !.outbound.sequence_number = @ + 1]

RotateSendCounterFirst(state, nonce) ==
    [state EXCEPT !.outbound = Rotated(@, nonce, @.sequence_number + 1)]

RotateSend(state, nonce) ==
    [state EXCEPT !.outbound = Rotated(@, nonce, @.sequence_number)]

\* Bug: as above.
RotateReceiveCounterFirst(state, nonce, sequence) ==
    [state EXCEPT !.inbound = Rotated(@, nonce, sequence + 1)]

\* Called only where rotate_receive raises neither SequenceError nor ValueError.
RotateReceive(state, nonce, sequence) ==
    [state EXCEPT !.inbound = Rotated(@, nonce, sequence)]
=============================================================================
