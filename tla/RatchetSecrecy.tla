--------------------------- MODULE RatchetSecrecy ---------------------------
(***************************************************************************)
(* What the keys a party holds give away.  Nonces and sequence numbers     *)
(* travel in clear, so from a key one can compute every key that           *)
(* advance_key makes of it: those of which it is a prefix.                 *)
(***************************************************************************)
EXTENDS Ratchet

\* Repeated calls of advance_key lead from key k to key m.
LeadsTo(k, m) == Len(k) <= Len(m) /\ k = SubSeq(m, 1, Len(k))

\* Keys that p has used so far, and the key buffers it holds.
UsedKeys(p) ==
    {sent[p][i].sealed.key : i \in DOMAIN sent[p]}
    \cup {ChainKey(Peer(p), i) : i \in 0 .. state[p].inbound.sequence_number - 1}

HeldKeys(p) == {state[p].outbound.current_key, state[p].inbound.current_key}

NoUsedKeyWithinReach(p) == \A k \in HeldKeys(p), m \in UsedKeys(p) : ~LeadsTo(k, m)

\* Forward secrecy of the two chains taken together: once both have left K0, no
\* key that p holds is, or leads by advance_key to, a key p has already used.
ForwardSecrecy ==
    FreshNonces => \A p \in Party :
        state[p].outbound.sequence_number > 0 /\ state[p].inbound.sequence_number > 0
            => NoUsedKeyWithinReach(p)

\* Forward secrecy as the documents state it, from the first message on.
ForwardSecrecyFromTheStart == \A p \in Party : NoUsedKeyWithinReach(p)

\* os.urandom never repeated a value among the messages of the session.
NoncesApart ==
    FreshNonces =>
        \A p, q \in Party : \A i \in DOMAIN sent[p], j \in DOMAIN sent[q] :
            sent[p][i].nonce = sent[q][j].nonce => p = q /\ i = j

\* Every key of a chain but K0 carries the chain's first step.
FirstStepKept ==
    \A p \in Party : \A i \in 1 .. Len(sent[p]) :
        ChainKey(p, i)[Len(K0) + 1] = [nonce |-> sent[p][1].nonce, sequence |-> 0]

\* The inductive invariant behind the properties of this module.
SecrecyInv == IndInv /\ NoncesApart /\ FirstStepKept
=============================================================================
