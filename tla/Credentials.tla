---------------------------- MODULE Credentials ----------------------------
(***************************************************************************)
(* How an agent and the gateway recognise each other: bootstrap tokens and *)
(* their detached signatures (pkg/tokens), pinned public keys (pkg/pkp),   *)
(* the Diffie-Hellman secret (pkg/ecdh), keyrings (pkg/keyring), the MAC   *)
(* of a request (pkg/b2mac), the middleware that checks it                 *)
(* (pkg/auth/cluster) and the HTTP client that makes it (pkg/clients).     *)
(*                                                                         *)
(* Cryptography is symbolic: a digest, a signature or a secret is the term *)
(* of what it is computed from, and different terms are different values.  *)
(* A text is the sequence of the parts its parser splits it into; a part   *)
(* is [ok, len, val]: whether its alphabet is the right one, how long it   *)
(* decodes to, and what to.                                                *)
(***************************************************************************)
EXTENDS Naturals, Sequences, FiniteSets, SequencesExt

\* Go's (value, error).
Ok(v) == [err |-> "", val |-> v]
Err(e) == [err |-> e]
IsOk(x) == x.err = ""

Part(val, len) == [ok |-> TRUE, len |-> len, val |-> val]

-----------------------------------------------------------------------------
(* Tokens. Six bytes of identity, twenty-six of secret.                    *)

IDLen == 6
SecretLen == 26
NewToken(seed) == [ID |-> <<"id", seed>>, Secret |-> <<"secret", seed>>]
HexID(t) == t.ID

\* Two hexadecimal parts with a dot between them.
EncodeHex(t) == <<Part(t.ID, IDLen), Part(t.Secret, SecretLen)>>

ParseHex(parts) ==
    IF Len(parts) = 2 /\ parts[1].len = IDLen /\ parts[2].len = SecretLen
          /\ parts[1].ok /\ parts[2].ok
    THEN Ok([ID |-> parts[1].val, Secret |-> parts[2].val])
    ELSE Err("ErrMalformedToken")

\* A JWS is a header, a payload and a signature with dots between them. The
\* payload, which holds the secret, is cut out of what is sent.
EncodeJSON(t) == <<"json", t.ID, t.Secret>>
Signature(key, payload) == <<"EdDSA", key, payload>>

SignDetached(t, key) ==
    IF key.type # "ed25519" THEN Err("invalid key type")
    ELSE Ok(<<"header", "", Signature(key.pub, EncodeJSON(t))>>)

\* Whatever stands between the first and the last dot is replaced by the
\* payload of the verifier's own token.
VerifyDetached(t, sig, pub) ==
    LET full == <<Head(sig), EncodeJSON(t), Last(sig)>>
    IN  IF Len(sig) < 2 THEN Err("ErrMalformedToken")
        ELSE IF full[3] # Signature(pub, full[2]) THEN Err("could not verify")
        ELSE Ok(full)

\* The join response maps the IDs of tokens to signatures.
FindValidSignature(t, signatures, pub) ==
    IF HexID(t) \in DOMAIN signatures
    THEN VerifyDetached(t, signatures[HexID(t)], pub)
    ELSE Err("ErrNoValidSignature")

\* The gateway: a complete JWS that its own key verifies holds a token.
VerifyBearer(full, pub) ==
    IF full[3] = Signature(pub, full[2])
    THEN Ok([ID |-> full[2][2], Secret |-> full[2][3]])
    ELSE Err("unauthorized")

-----------------------------------------------------------------------------
(* Pinned public keys.                                                     *)

Algs == {"sha256", "b2b256"}
FingerprintLen == 32
Pin(alg, fp) == [Algorithm |-> alg, Fingerprint |-> fp]

Validate(p) ==
    CASE p.Algorithm \notin Algs -> "ErrUnsupportedAlgorithm"
      [] p.Fingerprint.len # FingerprintLen -> "ErrMalformedPin"
      [] OTHER -> ""

Encode(p) == <<Part(p.Algorithm, 0), p.Fingerprint>>

\* The length of the fingerprint is not looked at.
DecodePin(parts) ==
    CASE Len(parts) = 1 -> Err("ErrMissingAlgorithm")
      [] Len(parts) > 2 -> Err("ErrMalformedPin")
      [] Len(parts) = 2 /\ ~parts[2].ok -> Err("ErrMalformedPin")
      [] Len(parts) = 2 /\ parts[2].ok /\ parts[1].val \notin Algs ->
            Err("ErrUnsupportedAlgorithm")
      [] OTHER -> Ok(Pin(parts[1].val, parts[2]))

Equal(p, q) == p = q

\* The digest of the certificate's public key; a certificate is
\* [key, issuer], the key it certifies and the key it is signed with.
NewPin(cert, alg) ==
    IF alg \notin Algs THEN Err("ErrUnsupportedAlgorithm")
    ELSE Ok(Pin(alg, Part(<<alg, cert.key>>, FingerprintLen)))

TLSConfig(pins) ==
    LET bad == SelectSeq(pins, LAMBDA p : Validate(p) # "")
    IN  CASE pins = <<>> -> Err("ErrNoPins")
          [] bad # <<>> -> Err(Validate(Head(bad)))
          [] OTHER -> Ok(pins)

\* Every certificate is signed by the next, and one of them is pinned.
VerifyConnection(pins, chain) ==
    /\ \A i \in 1 .. Len(chain) - 1 : chain[i].issuer = chain[i + 1].key
    /\ \E i \in 1 .. Len(chain), j \in 1 .. Len(pins) :
          Equal(pins[j], NewPin(chain[i], pins[j].Algorithm).val)

-----------------------------------------------------------------------------
(* The shared secret.                                                      *)

NewEphemeralKeyPair(n) == [PrivateKey |-> n, PublicKey |-> <<"pub", n>>]
X25519(priv, pub) == {priv, pub[2]}

\* theirs is [PublicKey, PeerType]; the client's public key is hashed first.
DeriveSharedSecret(ours, theirs) ==
    LET q == X25519(ours.PrivateKey, theirs.PublicKey)
    IN  CASE theirs.PeerType = "client" -> Ok(<<q, theirs.PublicKey, ours.PublicKey>>)
          [] theirs.PeerType = "server" -> Ok(<<q, ours.PublicKey, theirs.PublicKey>>)
          [] OTHER -> Err("ErrInvalidPeerType")

-----------------------------------------------------------------------------
(* Keyrings: a sequence of keys for each type of key.                      *)

NewSharedKeys(secret) ==
    [type |-> "SharedKeys", ClientKey |-> <<"first half", secret>>,
     ServerKey |-> <<"second half", secret>>]
NewPKPKey(pins) == [type |-> "PKPKey", PinnedKeys |-> pins]

allowedKeyTypes == {"SharedKeys", "PKPKey"}

\* Panics on a key of another type.
NewKeyring(keys) ==
    IF \E k \in ToSet(keys) : k.type \notin allowedKeyTypes
    THEN Err("ErrInvalidKeyType")
    ELSE Ok([t \in {k.type : k \in ToSet(keys)} |->
                SelectSeq(keys, LAMBDA k : k.type = t)])

\* The map of the keys is ranged over in no particular order of the types.
ForEachOrders(kr) ==
    {FlattenSeq([i \in DOMAIN o |-> kr[o[i]]]) : o \in SetToSeqs(DOMAIN kr)}

Merges(kr, other) ==
    {NewKeyring(a \o b).val : a \in ForEachOrders(kr), b \in ForEachOrders(other)}

DeepCopies(kr) == {NewKeyring(a).val : a \in ForEachOrders(kr)}

\* The keys of a type a function is called with, in order; none: not found.
Try(kr, type) == IF type \in DOMAIN kr THEN kr[type] ELSE <<>>

\* JSON with one list for each type; an absent list and an empty one are
\* written alike.
Marshal(kr) == [SharedKeys |-> Try(kr, "SharedKeys"), PKPKey |-> Try(kr, "PKPKey")]

Unmarshal(complete) == NewKeyring(complete.SharedKeys \o complete.PKPKey)

-----------------------------------------------------------------------------
(* The Authorization header of a request: a scheme and key="value" pairs.  *)

Mac(id, nonce, payload, key) == <<"blake2b-512", key, id, nonce, payload>>
VerifyMac(mac, id, nonce, payload, key) == mac = Mac(id, nonce, payload, key)

IsV4(nonce) == nonce.version = 4

Pair(key, part) == [fields |-> 2, quoted |-> TRUE, key |-> key, part |-> part]

EncodeAuthHeader(id, nonce, mac) ==
    IF ~IsV4(nonce) THEN Err("nonce is not a v4 UUID")
    ELSE Ok([scheme |-> "MAC",
             pairs |-> <<Pair("id", Part(id, 1)), Pair("nonce", Part(nonce, 16)),
                         Pair("mac", Part(mac, 64))>>])

\* A pair is split at "=", its value is quoted, its key known and not seen
\* before, and its value in the alphabet of the key.
PairOk(p) ==
    /\ p.fields = 2 /\ p.quoted
    /\ p.key \in {"id", "nonce", "mac"}
    /\ p.part.ok
    /\ p.key = "nonce" => IsV4(p.part.val)

DecodeAuthHeader(h) ==
    LET found == {h.pairs[i].key : i \in DOMAIN h.pairs}
        Value(k) == (CHOOSE p \in ToSet(h.pairs) : p.key = k).part
    IN  IF /\ h.scheme = "MAC"
           /\ \A i \in DOMAIN h.pairs : PairOk(h.pairs[i])
           /\ Cardinality(found) = Len(h.pairs)
           /\ found = {"id", "nonce", "mac"}
           /\ Value("id").len > 0 /\ Value("mac").len > 0
        THEN Ok([id |-> Value("id").val, nonce |-> Value("nonce").val,
                 mac |-> Value("mac").val])
        ELSE Err("malformed")

-----------------------------------------------------------------------------
(* The gateway's middleware and the agent's client.                        *)

\* A keyring of two key pairs nobody holds, so that a request for an unknown
\* cluster is verified too, for nothing.
FakeKeyring(n1, n2) ==
    NewKeyring(<<NewSharedKeys(DeriveSharedSecret(NewEphemeralKeyPair(n1),
        [PublicKey |-> NewEphemeralKeyPair(n2).PublicKey, PeerType |-> "client"]).val)>>).val

\* request is [Authorization, Body], the header absent or decodable; keyrings
\* maps the IDs the store has a keyring for to their keyrings. The answer
\* names the status or the handler that is called next, with the ID it is
\* told, and the last of the keys that verify.
Handle(request, keyrings) ==
    LET d == DecodeAuthHeader(request.Authorization)
        kr == keyrings[d.val.id]
        shared == Try(kr, "SharedKeys")
        Verifies(k) == VerifyMac(d.val.mac, d.val.id, d.val.nonce, request.Body, k.ClientKey)
    IN  CASE ~request.hasHeader -> [status |-> "400"]
          [] request.hasHeader /\ ~IsOk(d) -> [status |-> "400"]
          [] request.hasHeader /\ IsOk(d) ->
                IF d.val.id \notin DOMAIN keyrings THEN [status |-> "401"]
                ELSE IF shared = <<>> THEN [status |-> "500"]
                ELSE IF ~\E k \in ToSet(shared) : Verifies(k) THEN [status |-> "401"]
                ELSE [status |-> "next", ClusterID |-> d.val.id,
                      SharedKeys |-> Last(SelectSeq(shared, Verifies))]

\* One set of shared keys and one of pins; an address loses its last slash.
NewGatewayHTTPClient(address, id, kr) ==
    LET shared == Try(kr, "SharedKeys")
        pkp == Try(kr, "PKPKey")
        trimmed == IF Last(address) = "/" THEN Front(address) ELSE address
    IN  CASE Len(pkp) > 1 -> Err("multiple PKP key sets")
          [] Len(pkp) <= 1 /\ Len(shared) > 1 -> Err("multiple shared key sets")
          [] shared = <<>> /\ Len(pkp) <= 1 -> Err("missing shared keys")
          [] Len(shared) = 1 /\ pkp = <<>> -> Err("missing PKP key")
          [] Len(shared) = 1 /\ Len(pkp) = 1 ->
                LET tls == TLSConfig(pkp[1].PinnedKeys)
                IN  IF ~IsOk(tls) THEN tls
                    ELSE Ok([address |-> trimmed, id |-> id,
                             sharedKeys |-> shared[1], tlsConfig |-> tls.val])

requestPath(client, path) ==
    client.address \o (IF Head(path) = "/" THEN path ELSE <<"/">> \o path)

\* A request of the client, before it is sent: nonce is drawn at random.
Do(client, path, body, nonce) ==
    LET mac == Mac(client.id, nonce, body, client.sharedKeys.ClientKey)
    IN  [url |-> requestPath(client, path), hasHeader |-> TRUE, Body |-> body,
         Authorization |-> EncodeAuthHeader(client.id, nonce, mac).val]

-----------------------------------------------------------------------------
(* The registries of middlewares and of identity providers: maps by name,  *)
(* filled once by the init functions of their packages.                    *)

\* TrimSpace: the name without the blanks around it.
Register(registry, name, blank, provider, nil) ==
    CASE blank -> Err("invalid or empty name")
      [] ~blank /\ name \in DOMAIN registry -> Err("already exists")
      [] ~blank /\ name \notin DOMAIN registry /\ provider = nil -> Err("nil")
      [] OTHER -> Ok([n \in DOMAIN registry \cup {name} |->
                         IF n = name THEN provider ELSE registry[n]])

Lookup(registry, name) ==
    IF name \in DOMAIN registry THEN Ok(registry[name]) ELSE Err("not found")

\* The identity of a cluster: the UID of its kube-system namespace.
UniqueIdentifier(uids) ==
    IF "kube-system" \in DOMAIN uids THEN Ok(uids["kube-system"]) ELSE Err("not found")
=============================================================================
