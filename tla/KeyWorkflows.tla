---------------------------- MODULE KeyWorkflows ----------------------------
(***************************************************************************)
(* A user's key files and containers over time: made by this release       *)
(* through the HTTP service (api_app.py), its jobs (api_jobs.py) and the   *)
(* command line (pqc_agent_tools.py), left over from earlier releases, and *)
(* edited, spliced or damaged by somebody.                                 *)
(*                                                                         *)
(* A handler that only answers is an operator, which says what it answers  *)
(* for given inputs; a handler that makes a file is that operator and an   *)
(* action that adds the file.  An answer is a code: "ok" or the code of    *)
(* the error.  Definitions that no other one uses are faulty forms of the  *)
(* one after them.                                                         *)
(***************************************************************************)
EXTENDS KeyFormats

CONSTANTS
    Password,           \* what a user types or sets; NoPassword is one
    OldKeys,            \* what earlier releases left: suite, kem, format, password
    Text,               \* contents of files
    MaxEdits,           \* bound: files edited
    MaxChanges          \* bound: files made by the program or edited

ASSUME WorkflowAssumption ==
    /\ NoPassword \in Password \ (Weak \cup TooLong)
    /\ Weak \cup TooLong \subseteq Password
    /\ \A k \in OldKeys :
          /\ k.suite \in ALLOWED_KEY_ALGS /\ k.kem \in ALLOWED_KEM_ALGS
          /\ k.suite \in ALLOWED_KEM_ALGS => k.kem = k.suite
          /\ k.suite = HYBRID_KEM_ALG => k.kem = KEM_ALG
          /\ k.format \in SUPPORTED_PRIVATE_KEY_FORMAT_VERSIONS
          /\ k.password \in Password \ {NoPassword}
    /\ MaxEdits \in Nat /\ MaxChanges \in Nat

VARIABLES
    enabled,    \* the KEM implementations the installed liboqs offers
    written,    \* private PEM files as written: pem, pair, suite, password
    sealed,     \* containers as written: box, pair, suite, kem, text, confirmed
    pems,       \* every PEM file there is
    boxes,      \* every container there is
    made,       \* what made the newest file fresh
    edits       \* files edited so far

keyVars == <<enabled, written, sealed, pems, boxes, made, edits>>

-----------------------------------------------------------------------------
\* The code a handler answers an error of the core with; its own codes stand.
CoreErrors == {"InvalidKeyFormatError", "UnsupportedKDFError", "UnencryptedPrivateKeyError",
               "PasswordRequiredError", "WeakPasswordError", "AuthenticationFailedError",
               "UnsupportedAlgorithmError", "FileFormatError", "CryptoDependencyError",
               "RecipientFingerprintMismatchError"}

Answer(checks, handled) ==
    LET error == FirstRefusal(checks)
    IN IF error = "none" THEN "ok"
       ELSE IF error \notin CoreErrors THEN error
       ELSE IF error \in DOMAIN handled THEN handled[error]
       ELSE "unexpected_error"

OneOf(loaded) == loaded # {}

-----------------------------------------------------------------------------
\* The HTTP service.
\* What refuses a key file has one code; others has the codes of other errors.
KeyErrors(code, others) ==
    [e \in {"InvalidKeyFormatError", "UnencryptedPrivateKeyError", "UnsupportedKDFError"}
           \union DOMAIN others |-> IF e \in DOMAIN others THEN others[e] ELSE code]
NoBackend == [CryptoDependencyError |-> "backend_unavailable"]

inspect_key(pem) == Answer(<<InspectRefusal(pem)>>, KeyErrors("unsupported_key", <<>>))

generate_keys(w) ==
    Answer(<<Check(PasswordRefusal(w) = "none", "weak_password"),
             Check(KEM_ALG \in enabled, "CryptoDependencyError")>>, NoBackend)

change_key_password(pem, current, new) ==
    Answer(<<Check(NoPassword \notin {current, new}, "password_required"),
             Check({current, new} \intersect TooLong = {}, "field_too_large"),
             RewrapRefusal(pem, current, new)>>,
           KeyErrors("invalid_private_key",
               [UnsupportedAlgorithmError |-> "invalid_private_key",
                PasswordRequiredError |-> "password_required", WeakPasswordError |-> "weak_password",
                AuthenticationFailedError |-> "private_key_failed"]))

_workflow_password(w) ==
    <<Check(w # NoPassword, "password_required"), Check(w \notin TooLong, "field_too_large")>>
_crypto_workflow_error ==
    KeyErrors("invalid_private_key",
        [CryptoDependencyError |-> "backend_unavailable",
         UnsupportedAlgorithmError |-> "invalid_private_key",
         AuthenticationFailedError |-> "private_key_failed", PasswordRequiredError |-> "password_required"])

\* supplied: the public key to compare with, a set of at most one file.
recover_public_key(pem, w, supplied) ==
    Answer(_workflow_password(w) \o
           <<Check(\A s \in supplied : OneOf(LoadedOf("public", s, NoPassword)), "invalid_public_key"),
             RecoverRefusal(pem, w)>>, _crypto_workflow_error)

\* matchesSuppliedPublicKey
matches_supplied(pem, w, supplied) ==
    \E p \in LoadedOf("private", pem, w), s \in LoadedOf("public", supplied, NoPassword) :
        Fingerprint(PublicFromPrivate(p.key), p.alg) = Fingerprint(s.key, s.alg)

_inspect_encrypted_file(box) == Check(ContainerRefusal(box) = "none", "invalid_encrypted_file")

inspect_file(box) == Answer(<<_inspect_encrypted_file(box)>>, _crypto_workflow_error)

\* The loaded private key opens the container, after the backend for its suite was found.
Opening(box, loaded, failed) ==
    <<Check(\A l \in loaded : Candidates(l.alg, enabled) # {}, "CryptoDependencyError"),
      Check(\A l \in loaded : OpenRefusal(box, l.key, l.alg, enabled) = "none", failed)>>

verify_file(box, pem, w) ==
    LET loaded == LoadedOf("private", pem, w)
    IN Answer(_workflow_password(w) \o
              <<_inspect_encrypted_file(box),
                MaintenanceRefusal(pem),
                Check(OneOf(loaded), "AuthenticationFailedError"),
                Check(\A l \in loaded : l.alg = box.suite, "verification_failed")>>
              \o Opening(box, loaded, "verification_failed"), _crypto_workflow_error)

decrypt_file(box, pem, w) ==
    LET loaded == LoadedOf("private", pem, w)
    IN Answer(<<InspectRefusal(pem),
                Check(IsPrivate(pem), "invalid_private_key"),
                Check(OneOf(loaded), "private_key_failed")>>
              \o Opening(box, loaded, "decryption_failed"),
              KeyErrors("invalid_private_key", NoBackend))

\* verify_recipient_fingerprint; expected is a set of at most one fingerprint.
Confirmed(pem, expected) ==
    \A l \in LoadedOf("public", pem, NoPassword), f \in expected : Fingerprint(l.key, l.alg) = f

encrypt_file(pem, expected) ==
    LET loaded == LoadedOf("public", pem, NoPassword)
    IN Answer(<<Check(OneOf(loaded), "invalid_public_key"),
                Check(\A l \in loaded : l.alg = HYBRID_KEM_ALG, "legacy_public_key"),
                Check(Confirmed(pem, expected), "recipient_fingerprint_mismatch"),
                Check(\A l \in loaded : Encrypted(l.key, l.alg, enabled, 0, "") # {},
                      "encryption_failed")>>, NoBackend)

-----------------------------------------------------------------------------
\* JobStore._process, for a large file: every error has a code, most of them one.
job_error(error) ==
    IF error \in {"none", "invalid_key", "private_key_failed"} THEN error
    ELSE IF error = "CryptoDependencyError" THEN "backend_unavailable"
    ELSE IF error = "RecipientFingerprintMismatchError" THEN "recipient_fingerprint_mismatch"
    ELSE "operation_failed"

job_process(type, pem, w, work) ==
    LET error == FirstRefusal(<<InspectRefusal(pem),
                                Check(IsPrivate(pem) <=> type = "private", "invalid_key"),
                                Check(OneOf(LoadedOf(type, pem, w)), "private_key_failed")>> \o work)
    IN IF error = "none" THEN "ok" ELSE job_error(error)

job_open(box, pem, w) ==
    LET form == Answer(_workflow_password(w), NoBackend)
        unlocked == job_process("private", pem, w, <<>>)
        opened(l) == job_process("private", pem, w, <<OpenRefusal(box, l.key, l.alg, enabled)>>)
    IN IF form # "ok" THEN form
       ELSE IF unlocked # "ok" THEN unlocked
       ELSE opened(CHOOSE l \in LoadedOf("private", pem, w) : TRUE)

job_encrypt(pem, expected) ==
    job_process("public", pem, NoPassword,
        <<Check(Confirmed(pem, expected), "RecipientFingerprintMismatchError"),
          Check(pem.alg = <<HYBRID_KEM_ALG>>, "UnsupportedAlgorithmError"),
          Check(KEM_ALG \in enabled, "CryptoDependencyError")>>)
-----------------------------------------------------------------------------
\* The command line.
_agent_error_from_core(authentication) ==
    [InvalidKeyFormatError |-> "invalid_key", UnsupportedKDFError |-> "unsupported_kdf",
     UnencryptedPrivateKeyError |-> "unencrypted_private_key",
     PasswordRequiredError |-> "password_required", WeakPasswordError |-> "weak_password",
     UnsupportedAlgorithmError |-> "unsupported_algorithm",
     FileFormatError |-> "invalid_file_format", CryptoDependencyError |-> "backend_unavailable",
     RecipientFingerprintMismatchError |-> "recipient_fingerprint_mismatch",
     AuthenticationFailedError |-> authentication]
AgentErrors == _agent_error_from_core("private_key_load_failed")

\* Commands that open a container hold the password to the policy for new ones.
_password_from_env(w) ==
    <<Check(w # NoPassword, "password_required"), Check(PasswordRefusal(w) = "none", "weak_password")>>
_key_password_from_env(w) ==
    <<Check(w # NoPassword, "password_required"), Check(w \notin TooLong, "password_too_long")>>

handle_generate_keys(w) ==
    Answer(<<Check(KEM_ALG \in enabled, "CryptoDependencyError")>> \o _password_from_env(w), AgentErrors)

handle_change_key_password(pem, current, new) ==
    Answer(_key_password_from_env(current) \o _key_password_from_env(new)
           \o <<RewrapRefusal(pem, current, new)>>, AgentErrors)

handle_recover_public_key(pem, w, supplied) ==
    Answer(_key_password_from_env(w) \o
           <<Check(\A s \in supplied : OneOf(LoadedOf("public", s, NoPassword)), "invalid_key"),
             RecoverRefusal(pem, w)>>, AgentErrors)

_load_required_private_key(pem, w) ==
    <<InspectRefusal(pem), Check(IsPrivate(pem), "invalid_key")>> \o _password_from_env(w)
    \o <<Check(OneOf(LoadedOf("private", pem, w)), "private_key_load_failed")>>

\* With --password-env the key is unlocked as well.
handle_inspect_key(pem, unlock, w) ==
    Answer(IF unlock /\ IsPrivate(pem) THEN _load_required_private_key(pem, w)
           ELSE <<InspectRefusal(pem)>>, AgentErrors)

handle_encrypt(pem, expected, otherKey) ==
    LET loaded == LoadedOf("public", pem, NoPassword)
    IN Answer(<<Check(OneOf(loaded), "invalid_key"),
                Check(\A l \in loaded : l.alg = HYBRID_KEM_ALG, otherKey),
                Check(Confirmed(pem, expected), "RecipientFingerprintMismatchError"),
                Check(KEM_ALG \in enabled, "CryptoDependencyError")>>, AgentErrors)
handle_backup_directory(pem, expected) == handle_encrypt(pem, expected, "invalid_key")

handle_inspect_file(box) == Answer(<<ContainerRefusal(box)>>, AgentErrors)

\* decrypt_stream and verify_stream, after first and with the key that loads.
StreamOpened(first, box, pem, w, failed) ==
    LET loaded == LoadedOf("private", pem, w)
        prepared == first \o _load_required_private_key(pem, w) \o
                    <<Check(\A l \in loaded : Candidates(l.alg, enabled) # {}, "CryptoDependencyError")>>
        opened(l) == <<OpenRefusal(box, l.key, l.alg, enabled)>>
        errors == _agent_error_from_core(failed)
    IN IF Answer(prepared, errors) # "ok" THEN Answer(prepared, errors)
       ELSE Answer(opened(CHOOSE l \in loaded : TRUE), errors)

handle_decrypt(box, pem, w) == StreamOpened(<<>>, box, pem, w, "decryption_failed")
handle_restore_directory(box, pem, w) == handle_decrypt(box, pem, w)
handle_verify_file(box, pem, w) ==
    StreamOpened(<<ContainerRefusal(box)>>, box, pem, w, "verification_failed")

-----------------------------------------------------------------------------
OldPair(k) == [x |-> k.suite \in ALLOWED_HYBRID_KEM_ALGS, id |-> 0]
OldBytes(k, type) == [pair |-> OldPair(k), type |-> type, sound |-> TRUE]
OldPem(k) == PrivatePem(OldBytes(k, "private"), k.suite, k.password, k.format, 1)
OldBox(k, text) ==
    Container(IF OldPair(k).x THEN FORMAT_VERSION ELSE LEGACY_FORMAT_VERSION, k.suite, OldPair(k), k.kem, 1, text)

WrittenAs(pem, pair, suite, w) == [pem |-> pem, pair |-> pair, suite |-> suite, password |-> w]
SealedAs(box, pair, suite, kem, text, confirmed) ==
    [box |-> box, pair |-> pair, suite |-> suite, kem |-> kem, text |-> text, confirmed |-> confirmed]

\* One old key pair, a container for it, and a private key that was never encrypted.
KeyInit ==
    /\ enabled \in SUBSET ALLOWED_KEM_ALGS
    /\ \E k \in OldKeys, t \in Text :
          /\ written = {WrittenAs(OldPem(k), OldPair(k), k.suite, k.password)}
          /\ pems = {OldPem(k), PlainPem(OldBytes(k, "public"), k.suite),
                     PlainPem(OldBytes(k, "private"), k.suite)}
          /\ sealed = {SealedAs(OldBox(k, t), OldPair(k), k.suite, k.kem, t, {})}
          /\ boxes = {OldBox(k, t)}
    /\ made = 1 /\ edits = 0

Fresh == made + 1
Changes == made + edits <= MaxChanges
Makes == Changes /\ made' = Fresh /\ UNCHANGED <<enabled, edits>>

\* Key files the program writes: private ones with the pair and password they are for.
Writes(public, private, pair, suite, w) ==
    /\ pems' = pems \union public \union private
    /\ written' = written \union {WrittenAs(p, pair, suite, w) : p \in private}
    /\ UNCHANGED <<sealed, boxes>>

Generate(w) ==
    /\ "ok" \in {generate_keys(w), handle_generate_keys(w)}
    /\ Makes
    /\ LET key(type) == GeneratedKey(Fresh, type)
       IN Writes(SavedPublic(key("public"), HYBRID_KEM_ALG),
                 SavedPrivate(key("private"), HYBRID_KEM_ALG, w, Fresh),
                 key("public").pair, HYBRID_KEM_ALG, w)

ChangePassword(pem, current, new) ==
    \E l \in LoadedOf("private", pem, current) :
        /\ "ok" \in {change_key_password(pem, current, new), handle_change_key_password(pem, current, new)}
        /\ Makes
        /\ Writes({}, Rewrapped(pem, current, new, Fresh), l.key.pair, l.alg, new)

RecoverPublic(pem, w) ==
    \E l \in LoadedOf("private", pem, w) :
        /\ "ok" \in {recover_public_key(pem, w, {}), handle_recover_public_key(pem, w, {})}
        /\ Makes
        /\ Writes(Recovered(pem, w), {}, l.key.pair, l.alg, w)

Encrypt(pem, expected, text) ==
    /\ "ok" \in {encrypt_file(pem, expected), job_encrypt(pem, expected),
                 handle_encrypt(pem, expected, "legacy_public_key"), handle_backup_directory(pem, expected)}
    /\ Makes
    /\ \E l \in LoadedOf("public", pem, NoPassword) :
         \E box \in Encrypted(l.key, l.alg, enabled, Fresh, text) :
          /\ boxes' = boxes \union {box}
          /\ sealed' = sealed \union {SealedAs(box, l.key.pair, l.alg, KEM_ALG, text, expected)}
    /\ UNCHANGED <<written, pems>>

-----------------------------------------------------------------------------
\* Somebody drops, repeats or replaces a line of a key file, damages it, or puts
\* together two files; the same with the parts of a container.
Damaged(d) == [d EXCEPT !.sound = FALSE, !.key.sound = d.lock # <<>>]

Edited(pem) ==
    (UNION {{[pem EXCEPT ![f] = lines] :
               lines \in {<<>>, pem[f] \o pem[f]} \union {q[f] : q \in pems}} : f \in DOMAIN pem})
    \union {[pem EXCEPT !.alg = <<a>>] : a \in ALLOWED_KEY_ALGS \union {"another"}}
    \union {[pem EXCEPT !.format = <<9>>], [pem EXCEPT !.format = <<2>>],
            [pem EXCEPT !.dek = <<Malformed>>], [pem EXCEPT !.kdf = <<"another">>]}
    \union {[pem EXCEPT !.data[i] = Damaged(@)] : i \in DOMAIN pem.data}

EditedBoxes(box) ==
    (UNION {{[box EXCEPT ![f] = b[f]] : b \in boxes} : f \in DOMAIN box})
    \union {[box EXCEPT !.suite = a] : a \in ALLOWED_KEY_ALGS \union {"another"}}
    \union {[box EXCEPT !.version = v] : v \in {LEGACY_FORMAT_VERSION, FORMAT_VERSION, 9}}
    \union {[box EXCEPT !.payload.sound = FALSE], [box EXCEPT !.whole = FALSE]}

Edit ==
    /\ edits < MaxEdits /\ Changes /\ edits' = edits + 1
    /\ \/ \E pem \in pems : \E e \in Edited(pem) \ pems : pems' = pems \union {e} /\ UNCHANGED boxes
       \/ \E box \in boxes : \E e \in EditedBoxes(box) \ boxes : boxes' = boxes \union {e} /\ UNCHANGED pems
    /\ UNCHANGED <<enabled, written, sealed, made>>

\* A fingerprint the user was given: of one of the key pairs there are.
Fingerprints == {Fingerprint([pair |-> w.pair], w.suite) : w \in written}

KeyNext ==
    \/ \E w \in Password : Generate(w)
    \/ \E pem \in pems, w, new \in Password : ChangePassword(pem, w, new)
    \/ \E pem \in pems, w \in Password : RecoverPublic(pem, w)
    \/ \E pem \in pems, text \in Text : Encrypt(pem, {}, text)
    \/ \E pem \in pems, f \in Fingerprints, text \in Text : Encrypt(pem, {f}, text)
    \/ Edit

KeySpec == KeyInit /\ [][KeyNext]_keyVars

-----------------------------------------------------------------------------
\* A key file opens with a password exactly if the program wrote this file, line for
\* line, for that password, and then it yields the pair and the suite it was written
\* for: no dropped, doubled, relabelled, damaged or spliced line goes unnoticed, a
\* changed password retires the old one in the new file, and no file the program or an
\* earlier release wrote, however weak or long its password, is locked out (save_key_pem,
\* _parse_key_pem_strict, decrypt_private_key, rewrap_private_key_pem).
UnlocksExactly ==
    \A pem \in pems, w \in Password :
        {<<l.key.pair, l.alg>> : l \in LoadedOf("private", pem, w)} =
        {<<r.pair, r.suite>> : r \in {r \in written : r.pem = pem /\ r.password = w}}

\* The container was sealed, as it is, for the key this file and password yield, by an
\* implementation that is still enabled.
Openable(box, pem, w) ==
    /\ w # NoPassword
    /\ \E s \in sealed, r \in written :
        /\ s.box = box /\ s.kem \in enabled
        /\ r.pem = pem /\ r.password = w /\ r.pair = s.pair /\ r.suite = s.suite

\* A container opens exactly with a key file and password of the pair and the suite it
\* was sealed for, if the implementation that sealed it is enabled, and not if any part
\* of it was replaced; decryption, verification, a large-file job and the command line
\* agree on it, up to the limits each puts on the password (decrypt_file_pro,
\* verify_stream, decrypt_stream and their handlers).
OpensExactly ==
    \A box \in boxes, pem \in pems, w \in Password :
        LET opens == Openable(box, pem, w)
        IN /\ (decrypt_file(box, pem, w) = "ok") <=> opens
           /\ (verify_file(box, pem, w) = "ok") <=> (opens /\ w \notin TooLong)
           /\ (job_open(box, pem, w) = "ok") <=> (opens /\ w \notin TooLong)
           /\ (handle_decrypt(box, pem, w) = "ok") <=> (opens /\ w \notin Weak)
           /\ (handle_verify_file(box, pem, w) = "ok") <=> (opens /\ w \notin Weak)

\* Data encrypted after its sender confirmed a recipient's fingerprint opens with every
\* private key file that has this fingerprint, and data encrypted with a public key file
\* that was compared with a private one, and matched, opens with that: a public key file
\* whose algorithm was relabelled, with every byte of its key as it was, never gets data
\* that nobody can open (get_public_key_fingerprint, verify_recipient_fingerprint).
ConfirmedRecipientOpens ==
    /\ \A s \in sealed, r \in written :
         s.confirmed = {Fingerprint([pair |-> r.pair], r.suite)} =>
            decrypt_file(s.box, r.pem, r.password) = "ok"
    /\ \A r \in written, pem \in pems :
         matches_supplied(r.pem, r.password, pem) =>
            \A l \in LoadedOf("public", pem, NoPassword) :
                \A box \in Encrypted(l.key, l.alg, enabled, 0, "") :
                    decrypt_file(box, r.pem, r.password) = "ok"

\* Whatever was done to a file, a handler answers it by a code of its own: nothing ends
\* as an unexpected error of the server or the command, and a backend is reported
\* missing only if an implementation is (the handlers' except clauses).
RefusedByName ==
    LET answers ==
            (UNION {{inspect_key(pem), encrypt_file(pem, {}), handle_backup_directory(pem, {}),
                     handle_encrypt(pem, {}, "legacy_public_key")} : pem \in pems})
            \union (UNION {{change_key_password(pem, w, w), recover_public_key(pem, w, {pem}),
                     handle_inspect_key(pem, TRUE, w), handle_change_key_password(pem, w, w),
                     handle_recover_public_key(pem, w, {pem})} : pem \in pems, w \in Password})
            \union (UNION {{inspect_file(box), handle_inspect_file(box)} : box \in boxes})
            \union (UNION {{verify_file(box, pem, w), decrypt_file(box, pem, w),
                            handle_verify_file(box, pem, w), handle_restore_directory(box, pem, w)}
                            : box \in boxes, pem \in pems, w \in Password})
    IN /\ "unexpected_error" \notin answers
       /\ enabled = ALLOWED_KEM_ALGS => answers \intersect {"backend_unavailable", "encryption_failed"} = {}
=============================================================================
