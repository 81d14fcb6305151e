-------------------------- MODULE MCAgentBootstrap --------------------------
(* Two attempts of one agent with one token and one capability, and the   *)
(* facts about credentials that hold for all inputs of a small universe.  *)
EXTENDS AgentBootstrap

LOCAL INSTANCE Sequences
LOCAL INSTANCE SequencesExt

CONSTANTS r1, r2, t1, metrics

MCTokenOf == [r \in Requests |-> t1]
MCCapOf == [r \in Requests |-> metrics]

-----------------------------------------------------------------------------
(* Texts of up to three parts, of right and wrong alphabets and lengths.   *)
Texts(parts) == UNION {[1 .. n -> parts] : n \in 1 .. 3}

\* ParseHex inverts EncodeHex, and accepts nothing that EncodeHex does not make.
ASSUME TokenRoundTrip ==
    /\ \A n \in {"x", "y"} :
          Cred!ParseHex(Cred!EncodeHex(Cred!NewToken(n))) = Cred!Ok(Cred!NewToken(n))
    /\ \A text \in Texts([ok : BOOLEAN, len : {0, 6, 26}, val : {<<"id", "x">>}]) :
          Cred!IsOk(Cred!ParseHex(text))
              <=> \E id, secret \in {<<"id", "x">>} :
                      text = Cred!EncodeHex([ID |-> id, Secret |-> secret])

\* A detached signature is valid for the token it was made for and the key it
\* was made with, and for nothing else, with whatever stands in the place of
\* the payload; re-attached, it gives the gateway the token back.
ASSUME DetachedSignature ==
    \A n, m \in {"x", "y"}, k, l \in {"k", "l"}, type \in {"ed25519", "rsa"}, mid \in {"", "z"} :
        LET sig == Cred!SignDetached(Cred!NewToken(n), [type |-> type, pub |-> k])
            cut == <<sig.val[1], mid, sig.val[3]>>
            full == Cred!VerifyDetached(Cred!NewToken(m), cut, l)
        IN  /\ Cred!IsOk(sig) <=> type = "ed25519"
            /\ Cred!IsOk(sig) => /\ Cred!IsOk(full) <=> n = m /\ k = l
                                 /\ Cred!IsOk(full) =>
                                       Cred!VerifyBearer(full.val, k) = Cred!Ok(Cred!NewToken(n))

Fingerprints == [ok : BOOLEAN, len : {31, 32}, val : {"f", "g"}]
Heads == [ok : BOOLEAN, len : {0}, val : {"sha256", "b2b256", "md5"}]

\* A decoded pin encodes to a text that decodes to it again; a pin whose
\* fingerprint is too short decodes, and is refused by TLSConfig.
ASSUME PinRoundTrip ==
    \A h \in Heads, f \in Fingerprints :
        LET p == Cred!DecodePin(<<h, f>>)
        IN  /\ Cred!IsOk(p) => Cred!DecodePin(Cred!Encode(p.val)) = p
            /\ Cred!IsOk(p) => (Cred!IsOk(Cred!TLSConfig(<<p.val>>)) <=> f.len = 32)
            /\ ~Cred!IsOk(Cred!DecodePin(<<h>>))
            /\ ~Cred!IsOk(Cred!DecodePin(<<h, f, f>>))

Certs == [key : {"leaf", "ca", "other"}, issuer : {"ca", "other"}]
Chains == UNION {[1 .. n -> Certs] : n \in 0 .. 3}

\* A pin of any certificate of an unbroken chain accepts the chain; no chain is
\* accepted without one, and none that is broken anywhere.
ASSUME PinnedChain ==
    \A chain \in Chains, alg \in {"sha256", "b2b256"}, key \in {"ca", "leaf"} :
        LET pin == Cred!NewPin([key |-> key, issuer |-> "ca"], alg).val
            unbroken == \A i, j \in DOMAIN chain : j = i + 1 => chain[i].issuer = chain[j].key
        IN  Cred!VerifyConnection(<<pin>>, chain)
                <=> unbroken /\ \E i \in DOMAIN chain : chain[i].key = key

\* The two sides derive the same keys exactly if they take different roles,
\* and an eavesdropper with a key pair of its own derives others.
ASSUME SidesAgree ==
    \A roles \in {"client", "server", "third"} \X {"client", "server"}, c \in {"b", "c"} :
        LET a == Cred!NewEphemeralKeyPair("a")
            b == Cred!NewEphemeralKeyPair("b")
            other == Cred!NewEphemeralKeyPair(c)
            x == Cred!DeriveSharedSecret(a, [PublicKey |-> b.PublicKey, PeerType |-> roles[1]])
            y == Cred!DeriveSharedSecret(other, [PublicKey |-> a.PublicKey, PeerType |-> roles[2]])
        IN  IF roles[1] = "third" THEN ~Cred!IsOk(x)
            ELSE x = y <=> c = "b" /\ roles[1] # roles[2]

Secret(n) ==
    Cred!DeriveSharedSecret(Cred!NewEphemeralKeyPair("gw"),
                            [PublicKey |-> Cred!NewEphemeralKeyPair(n).PublicKey, PeerType |-> "client"]).val
Keys == {Cred!NewSharedKeys(Secret("s1")), Cred!NewSharedKeys(Secret("s2")), Cred!NewPKPKey(Pins)}
KeySeqs == UNION {[1 .. n -> Keys] : n \in 0 .. 3}
Rings == {Cred!NewKeyring(ks).val : ks \in KeySeqs}

\* A keyring survives being stored, being copied and being merged: no key is
\* lost, and the order within a type is kept in spite of the order of the map.
ASSUME KeyringKept ==
    /\ \A kr \in Rings : /\ Cred!Unmarshal(Cred!Marshal(kr)) = Cred!Ok(kr)
                         /\ Cred!DeepCopies(kr) = {kr}
    /\ \A k1, k2 \in Rings : \A kr \in Cred!Merges(k1, k2), t \in {"SharedKeys", "PKPKey"} :
          Cred!Try(kr, t) = Cred!Try(k1, t) \o Cred!Try(k2, t)
    /\ ~Cred!IsOk(Cred!NewKeyring(<<[type |-> "Other"]>>))

\* The gateway's keyring may hold several sets of shared keys (handleEdit
\* merges them) and accepts the client of each; the client itself needs
\* exactly one, so an agent could not use a merged keyring.
ASSUME OneSetPerClient ==
    \A kr \in Rings :
        LET c == Cred!NewGatewayHTTPClient(<<"gw", "/">>, "uid", kr)
        IN  Cred!IsOk(c) <=> Len(Cred!Try(kr, "SharedKeys")) = 1 /\ Len(Cred!Try(kr, "PKPKey")) = 1

\* The middleware calls the next handler exactly for requests of a stored cluster
\* whose MAC one of its shared keys makes. The keyring for unknown clusters, which
\* on custom resources is stored among the others, lets nobody in.
ASSUME MiddlewareExact ==
    \A ks \in KeySeqs, k \in {Cred!NewSharedKeys(Secret("s1"))}, id \in {"uid", "none", "fake"}, body \in {"b", "c"} :
        LET c == Cred!NewGatewayHTTPClient(<<"gw">>, id, Cred!NewKeyring(<<k, Cred!NewPKPKey(Pins)>>).val)
            sent == Cred!Do(c.val, <<"p">>, "b", [version |-> 4])
            saved == [i \in {"uid", "fake"} |->
                         IF i = "uid" THEN Cred!NewKeyring(ks).val ELSE Cred!FakeKeyring("n1", "n2")]
            answer == Cred!Handle([sent EXCEPT !.Body = body], saved)
            shared == Cred!Try(saved["uid"], "SharedKeys")
        IN  /\ answer.status = "next" <=> id = "uid" /\ body = "b" /\ k \in ToSet(shared)
            /\ answer.status = "500" <=> id = "uid" /\ shared = <<>>
            /\ answer.status = "next" => answer.ClusterID = "uid" /\ answer.SharedKeys = k
            /\ sent.url = <<"gw", "/", "p">>

\* DecodeAuthHeader inverts EncodeAuthHeader, does not mind the order of the
\* pairs, and refuses a header in which one is missing or there twice.
ASSUME HeaderRoundTrip ==
    LET nonce == [version |-> 4]
        h == Cred!EncodeAuthHeader("uid", nonce, "m").val
        Pairs == ToSet(h.pairs)
        all == {[h EXCEPT !.pairs = ps] : ps \in UNION {[1 .. n -> Pairs] : n \in 0 .. 4}}
    IN  /\ ~Cred!IsOk(Cred!EncodeAuthHeader("uid", [version |-> 1], "m"))
        /\ \A g \in all :
              LET d == Cred!DecodeAuthHeader(g)
              IN  /\ Cred!IsOk(d) <=> Len(g.pairs) = 3 /\ ToSet(g.pairs) = Pairs
                  /\ Cred!IsOk(d) => d.val = [id |-> "uid", nonce |-> nonce, mac |-> "m"]

\* A registered name is found with what it was first registered for.
ASSUME FirstRegistrationStays ==
    \A p, q \in {"p", "q", "nil"}, blank \in BOOLEAN :
        LET empty == [n \in {} |-> "nil"]
            once == Cred!Register(empty, "name", blank, p, "nil")
        IN  /\ Cred!IsOk(once) <=> ~blank /\ p # "nil"
            /\ Cred!IsOk(once) => /\ Cred!Lookup(once.val, "name") = Cred!Ok(p)
                                  /\ ~Cred!IsOk(Cred!Register(once.val, "name", FALSE, q, "nil"))
                                  /\ ~Cred!IsOk(Cred!Lookup(once.val, "other"))

\* An agent keeps its ID for as long as the kube-system namespace is there.
ASSUME IdentityKept ==
    \A ns \in SUBSET {"kube-system", "default"} :
        LET id == Cred!UniqueIdentifier([n \in ns |-> n])
        IN  Cred!IsOk(id) <=> id = Cred!UniqueIdentifier([n \in ns \cup {"kube-system"} |-> n])
=============================================================================
