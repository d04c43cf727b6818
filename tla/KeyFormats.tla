----------------------------- MODULE KeyFormats -----------------------------
(***************************************************************************)
(* Keys, key files and encrypted containers as crypto_core.py and          *)
(* crypto_stream.py write and read them.  The cryptography is symbolic: a  *)
(* derived key is the tuple of everything it is derived from, a sealed     *)
(* value is a record that names the key, the nonce and the associated data *)
(* it was sealed with and opens under exactly those.                       *)
(*                                                                         *)
(* A key pair is [x, id]: whether it has an X25519 half, and which one it  *)
(* is.  Key bytes are [pair, type, sound]; ML-KEM-768 and Kyber768 keys    *)
(* have the same lengths and layout, so the bytes do not say which.        *)
(*                                                                         *)
(* A PEM file has one sequence of lines per kind of line: a missing line   *)
(* is <<>>, a line given twice has two entries.  Definitions that no other *)
(* one uses are faulty forms of the one after them.                        *)
(***************************************************************************)
EXTENDS Naturals, Sequences, SequencesExt

CONSTANTS
    Weak,               \* passwords that the creation policy refuses
    TooLong             \* passwords of more than 4096 UTF-8 bytes

NoPassword == ""
Malformed == 0          \* a salt and nonce that do not decode; the fresh ones are above 0

-----------------------------------------------------------------------------
\* crypto_config.py
KEM_ALG == "ML-KEM-768"
LEGACY_KEM_ALGS == <<"Kyber768">>
ALLOWED_KEM_ALGS == {KEM_ALG} \union Range(LEGACY_KEM_ALGS)
HYBRID_KEM_ALG == "ML-KEM-768+X25519-v2"
LEGACY_HYBRID_KEM_ALG == "ML-KEM-768+X25519"
ALLOWED_HYBRID_KEM_ALGS == {HYBRID_KEM_ALG, LEGACY_HYBRID_KEM_ALG}
ALLOWED_KEY_ALGS == ALLOWED_HYBRID_KEM_ALGS \union ALLOWED_KEM_ALGS
FORMAT_VERSION == 4
LEGACY_FORMAT_VERSION == 3
PEM_PRIVATE_KEY_FORMAT_VERSION == 3
SUPPORTED_PRIVATE_KEY_FORMAT_VERSIONS == {2, PEM_PRIVATE_KEY_FORMAT_VERSION}
SCRYPT == "scrypt"      \* with the one accepted n, r and p

\* The error of the first check that fails, "none" when all of them hold.
Check(holds, error) == IF holds THEN "none" ELSE error
FirstRefusal(checks) ==
    LET failed == {i \in DOMAIN checks : checks[i] # "none"}
    IN IF failed = {} THEN "none" ELSE checks[CHOOSE i \in failed : \A j \in failed : i <= j]

-----------------------------------------------------------------------------
\* Key material: _expected_key_bytes as the two things a length tells apart.
ExpectedShape(alg, type) == <<alg \in ALLOWED_HYBRID_KEM_ALGS, type>>
Shape(key) == <<key.pair.x, key.type>>

ValidKeyMaterial(key, alg, type) == Shape(key) = ExpectedShape(alg, type) /\ key.sound

\* get_public_key_fingerprint
FingerprintOfBytes(key, alg) == key.pair
Fingerprint(key, alg) == <<alg, key.pair>>

PublicFromPrivate(key) == [key EXCEPT !.type = "public"]

\* pack_hybrid_key and generate_hybrid_keys, once ML-KEM-768 is enabled.
GeneratedKey(id, type) == [pair |-> [x |-> TRUE, id |-> id], type |-> type, sound |-> TRUE]

-----------------------------------------------------------------------------
\* validate_private_key_password
PasswordRefusal(w) ==
    FirstRefusal(<<Check(w # NoPassword, "PasswordRequiredError"),
                   Check(w \notin Weak, "WeakPasswordError")>>)

\* _private_key_metadata_aad: the salt and the nonce are one value, dek.
MetadataAADWithoutAlgorithm(format, alg, kdf, dek) == <<format, kdf, dek>>
MetadataAAD(format, alg, kdf, dek) == <<format, alg, kdf, dek>>

\* What AES-GCM makes of a key, under a key derived from the password and the salt.
Locked(key, w, format, alg, dek) ==
    [key |-> key, lock |-> <<w, dek, MetadataAAD(format, alg, SCRYPT, dek)>>, sound |-> TRUE]
Bare(key) == [key |-> key, lock |-> <<>>, sound |-> key.sound]

PrivatePem(key, alg, w, format, dek) ==
    [boundary |-> <<"private">>, alg |-> <<alg>>, format |-> <<format>>, proc |-> <<"ENCRYPTED">>,
     dek |-> <<dek>>, kdf |-> <<SCRYPT>>, data |-> <<Locked(key, w, format, alg, dek)>>]
PlainPem(key, alg) ==
    [boundary |-> <<key.type>>, alg |-> <<alg>>, format |-> <<>>, proc |-> <<>>,
     dek |-> <<>>, kdf |-> <<>>, data |-> <<Bare(key)>>]

\* save_key_pem, a set: the file, or nothing.
SavedPublic(key, alg) ==
    {PlainPem(key, alg) : a \in {alg} \intersect ALLOWED_KEY_ALGS,
                          k \in {k \in {key} : ValidKeyMaterial(k, alg, "public")}}
SavedPrivate(key, alg, w, dek) ==
    {PrivatePem(key, alg, w, PEM_PRIVATE_KEY_FORMAT_VERSION, dek) :
        a \in {alg} \intersect ALLOWED_KEY_ALGS,
        k \in {k \in {key} : ValidKeyMaterial(k, alg, "private") /\ PasswordRefusal(w) = "none"}}

-----------------------------------------------------------------------------
\* _parse_key_pem_strict
IsPrivate(pem) == pem.boundary = <<"private">>
IsEncrypted(pem) == IsPrivate(pem) /\ pem.proc # <<>>
Metadata(pem) == <<pem.format, pem.proc, pem.dek, pem.kdf>>
HasMetadata(pem) == \E i \in 1..4 : Metadata(pem)[i] # <<>>

PayloadAccepted(pem, type) ==
    /\ Len(pem.data) = 1
    /\ \A d \in Range(pem.data), a \in Range(pem.alg) :
         IF IsEncrypted(pem) THEN d.lock # <<>> /\ Shape(d.key) = ExpectedShape(a, type)
                             ELSE d.lock = <<>> /\ ValidKeyMaterial(d.key, a, type)

KnownAlgorithm(pem) == Len(pem.alg) = 1 /\ Range(pem.alg) \subseteq ALLOWED_KEY_ALGS
AlgorithmReported(pem) == Check(KnownAlgorithm(pem), "UnsupportedAlgorithmError")
AlgorithmCheck(pem) == Check(KnownAlgorithm(pem), "InvalidKeyFormatError")

ParseRefusal(pem) ==
    FirstRefusal(<<
        Check(/\ pem.boundary \in {<<"public">>, <<"private">>}
              /\ \A i \in 1..4 : Len(Metadata(pem)[i]) <= 1
              /\ pem.data # <<>>
              /\ HasMetadata(pem) => IsPrivate(pem) /\ pem.proc # <<>> /\ pem.format # <<>> /\ pem.dek # <<>>
              /\ Range(pem.format) \subseteq SUPPORTED_PRIVATE_KEY_FORMAT_VERSIONS,
              "InvalidKeyFormatError"),
        AlgorithmCheck(pem),
        Check(IsEncrypted(pem) => pem.kdf # <<>>, "UnsupportedKDFError"),
        Check(Malformed \notin Range(pem.dek), "InvalidKeyFormatError"),
        Check(Range(pem.kdf) \subseteq {SCRYPT}, "UnsupportedKDFError"),
        Check(PayloadAccepted(pem, IF IsPrivate(pem) THEN "private" ELSE "public"),
              "InvalidKeyFormatError")>>)

\* inspect_key_pem_strict
InspectRefusal(pem) ==
    FirstRefusal(<<ParseRefusal(pem),
                   Check(IsPrivate(pem) => IsEncrypted(pem), "UnencryptedPrivateKeyError")>>)

\* decrypt_private_key of a parsed private PEM: the creation policy has no say in it.
Unlocks(pem, w) ==
    LET d == pem.data[1]
        aad == MetadataAAD(pem.format[1], pem.alg[1], pem.kdf[1], pem.dek[1])
    IN w # NoPassword /\ d.sound /\ d.lock = <<w, pem.dek[1], aad>>

\* load_key_pem, a set: the key and its algorithm, or nothing.
Loaded(pem, w) ==
    {[key |-> p.data[1].key, alg |-> p.alg[1]] :
        p \in {p \in {pem} :
                 /\ ParseRefusal(p) = "none"
                 /\ IsPrivate(p) =>
                      /\ IsEncrypted(p) /\ Unlocks(p, w)
                      /\ ValidKeyMaterial(p.data[1].key, p.alg[1], "private")}}
LoadedOf(type, pem, w) == {l \in Loaded(pem, w) : l.key.type = type}

-----------------------------------------------------------------------------
\* recover_public_key_pem and rewrap_private_key_pem: what refuses them.
MaintenanceRefusal(pem) ==
    FirstRefusal(<<InspectRefusal(pem),
                   Check(IsPrivate(pem), "InvalidKeyFormatError")>>)

RecoverRefusal(pem, w) ==
    FirstRefusal(<<MaintenanceRefusal(pem),
                   Check(w # NoPassword, "PasswordRequiredError"),
                   Check(LoadedOf("private", pem, w) # {}, "AuthenticationFailedError")>>)

RewrapRefusal(pem, current, new) ==
    FirstRefusal(<<MaintenanceRefusal(pem),
                   Check(current # NoPassword, "PasswordRequiredError"),
                   PasswordRefusal(new),
                   Check(new # current, "WeakPasswordError"),
                   Check(LoadedOf("private", pem, current) # {}, "AuthenticationFailedError")>>)

\* The files they make, once nothing refuses them.
Recovered(pem, w) ==
    UNION {SavedPublic(PublicFromPrivate(l.key), l.alg) : l \in LoadedOf("private", pem, w)}
Rewrapped(pem, current, new, dek) ==
    UNION {SavedPrivate(l.key, l.alg, new, dek) : l \in LoadedOf("private", pem, current)}

-----------------------------------------------------------------------------
\* Key encapsulation: enabled is what the installed liboqs offers.
\* resolve_decryption_kem_algorithms, {} for a CryptoDependencyError; the first that opens
\* a container is taken, so their order shows nowhere.
ExactCandidates(suite, enabled) ==
    {IF suite \in ALLOWED_HYBRID_KEM_ALGS THEN KEM_ALG ELSE suite} \intersect enabled
Candidates(suite, enabled) ==
    enabled \intersect (IF suite = HYBRID_KEM_ALG THEN {KEM_ALG}
                        ELSE IF suite \in ALLOWED_KEM_ALGS THEN {suite}
                        ELSE ALLOWED_KEM_ALGS)

\* An encapsulation for a pair with one implementation; n makes it fresh.
Encapsulated(pair, kem, n) == [to |-> pair, kem |-> kem, n |-> n]

\* decap_secret: another implementation or another key yields an unrelated secret.
SharedSecret(ct) == <<"secret", ct>>
Decapsulated(candidate, pair, ct) ==
    IF ct.to = pair /\ ct.kem = candidate THEN SharedSecret(ct)
    ELSE <<"rejection", candidate, pair, ct>>

\* derive_hybrid_symmetric_key, derive_symmetric_key_hkdf
HybridKey(secret, eph, pair, suite) == <<secret, <<pair, eph>>, eph, pair, suite>>
LegacyKey(secret) == <<secret>>

ContentKey(box, pair, secret) ==
    IF box.version = FORMAT_VERSION THEN HybridKey(secret, box.eph, pair, box.suite)
    ELSE LegacyKey(secret)

\* The header, as it is written and as it is authenticated.
HeaderAAD(box) == <<box.version, box.suite, box.ct, box.eph, box.nonce>>

\* A container: what encrypt_file_pro and encrypt_stream write with FORMAT_VERSION
\* and the current suite, and what earlier releases wrote.
Container(version, suite, pair, kem, n, text) ==
    LET box(payload) ==
            [version |-> version, suite |-> suite, ct |-> Encapsulated(pair, kem, n),
             eph |-> IF version = FORMAT_VERSION THEN n ELSE 0, nonce |-> n, whole |-> TRUE,
             payload |-> payload]
        head == box(<<>>)
        sealedWith == <<ContentKey(head, pair, SharedSecret(head.ct)), n, HeaderAAD(head)>>
    IN box([sealed |-> sealedWith, text |-> text, sound |-> TRUE])

\* encrypt_file_pro and encrypt_stream, a set: the container, or nothing.
Encrypted(key, alg, enabled, n, text) ==
    {Container(FORMAT_VERSION, HYBRID_KEM_ALG, key.pair, KEM_ALG, n, text) :
        k \in {k \in {key} : /\ alg = HYBRID_KEM_ALG
                             /\ ValidKeyMaterial(k, alg, "public")
                             /\ KEM_ALG \in enabled}}

\* _parse_encrypted_file_parts, inspect_stream
ContainerRefusal(box) ==
    LET algs == IF box.version = FORMAT_VERSION THEN ALLOWED_HYBRID_KEM_ALGS ELSE ALLOWED_KEM_ALGS
    IN FirstRefusal(<<Check(box.version \in {LEGACY_FORMAT_VERSION, FORMAT_VERSION}, "FileFormatError"),
                      Check(box.suite \in algs, "UnsupportedAlgorithmError"),
                      Check(box.whole, "FileFormatError")>>)

\* The payload under one candidate's key.
OpensWith(box, pair, candidate) ==
    box.payload.sound /\ box.payload.sealed =
        <<ContentKey(box, pair, Decapsulated(candidate, pair, box.ct)), box.nonce, HeaderAAD(box)>>

\* decrypt_file_pro, verify_stream and decrypt_stream: what refuses the container.
OpenRefusal(box, key, alg, enabled) ==
    LET candidates == Candidates(box.suite, enabled)
    IN FirstRefusal(<<
        ContainerRefusal(box),
        Check(alg = box.suite, "AuthenticationFailedError"),
        Check(ValidKeyMaterial(key, box.suite, "private"), "InvalidKeyFormatError"),
        Check(candidates # {}, "CryptoDependencyError"),
        Check(\E c \in candidates : OpensWith(box, key.pair, c), "AuthenticationFailedError")>>)
=============================================================================
