------------------------------ MODULE MCWebAuth ------------------------------
(* WebAuth for TLC: one client account, whose signers are its master key and *)
(* a cosigner, and up to three signatures in a transaction. A hint may be    *)
(* that of another key: as two keys may share one, and as nothing checks it. *)
EXTENDS WebAuth, TLC

CONSTANTS c1, c2, c3, n1, n2, Cosigner, Stranger, ServerHint, h1, h2

Interchangeable == Permutations(Caller) \cup Permutations(Nonce)

\* The server's signature, as the server adds it.
ServerSigned == [hint |-> ServerHint, key |-> Server]

\* Those of the client: h1 is whatever hint its first one has.
ClientSigned(hints) == [hint: hints, key: {Master, Cosigner, Stranger}]

ClientSignatures ==
    {<<>>, <<[hint |-> ServerHint, key |-> Master]>>}
    \cup {<<s>> : s \in ClientSigned({h1})}
    \cup {<<s, t>> : s \in ClientSigned({h1}), t \in ClientSigned({h1, h2})}

Signatures ==
    {<<>>, <<[hint |-> h1, key |-> Master]>>} \cup {<<ServerSigned>> \o s : s \in ClientSignatures}

\* The account as Horizon may describe it: two equal signers of whom one or
\* both are needed, or the cosigner alone.
SignerSets ==
    {[weight |-> [k \in {Master, Cosigner} |-> 1], medium |-> m] : m \in {0, 2}}
    \cup {[weight |-> [k \in {Master, Cosigner} |-> IF k = Master THEN 0 ELSE 2],
           medium |-> 2]}
=============================================================================
