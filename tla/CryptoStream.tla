---------------------------- MODULE CryptoStream ----------------------------
(***************************************************************************)
(* Encryption, inspection, verification and decryption of one container in *)
(* bounded memory (crypto_stream.py), from a source that another process   *)
(* may change between two reads and whose reads may be short.              *)
(*                                                                         *)
(* A byte is a tuple: <<n>> in a plaintext or a header, <<k, i, b>> the    *)
(* plaintext byte b encrypted under the key k as the ith of its payload,   *)
(* <<k, h, c, i>> the ith byte of the tag of the ciphertext c with the     *)
(* header h.  A header is the length of the suite's name and the name; the *)
(* rest of it (magic, lengths, KEM ciphertext, nonce) adds nothing to what *)
(* the reading has to get right.  A suite is the length of its name.       *)
(*                                                                         *)
(* Definitions that no action uses are faulty forms of the one after them. *)
(***************************************************************************)
EXTENDS Integers, Sequences, SequencesExt, FiniteSetsExt

CONSTANTS
    MaxFileBytes,       \* max_file_bytes of the call
    ChunkBytes,         \* STREAM_CHUNK_BYTES
    TagBytes,           \* AES_TAG_BYTES
    MaxName,            \* MAX_KEM_ALG_NAME_BYTES
    Suite, NewSuite,    \* the supported suites, the one of new containers
    Keys,               \* Keys[s]: what the user's private key of suite s may yield
    NewKey,             \* what an encryption for the user yields
    Plaintexts,         \* sources of an encryption
    Containers,         \* sources of the other operations
    MaxChanges          \* how often the source is changed (a bound)

ASSUME StreamAssumption ==
    /\ MaxFileBytes \in Nat /\ MaxChanges \in Nat
    /\ ChunkBytes \in Nat \ {0} /\ TagBytes \in Nat \ {0} /\ MaxName \in Nat
    /\ Suite \subseteq 1..MaxName /\ NewSuite \in Suite
    /\ \A s \in Suite : Keys[s] \in Seq(Range(Keys[s]))
    /\ \E i \in 1..Len(Keys[NewSuite]) : Keys[NewSuite][i] = NewKey
    /\ \A t \in Plaintexts \cup Containers : t \in Seq(Range(t))

VARIABLES
    op,         \* the operation: its kind, if its source can seek, the private key's suite
    source,     \* what the source holds now
    changes,    \* how often it was changed
    pc,         \* where the operation stands
    reader,     \* its _Reader
    header,     \* as much of the header as was read
    snapshot,   \* the ciphertext snapshot of a decryption
    fed,        \* what the AEAD context was updated with
    tail,       \* what _process_payload withholds
    key,        \* the key of the last context, 0 while none is chosen
    sink,       \* what was written to the caller's sink
    result

given == <<op, source, changes>>
streamVars == <<op, source, changes, pc, reader, header, snapshot, fed, tail, key, sink, result>>

Unknown == -1

\* encrypted_size_limit
ContainerLimit == MaxFileBytes + 1 + MaxName + TagBytes

-----------------------------------------------------------------------------
\* The container format.
HeaderOf(s) == [i \in 1..s + 1 |-> <<s>>]
Encrypted(k, p) == [i \in 1..Len(p) |-> <<k, i, p[i]>>]
Tag(k, h, c) == [i \in 1..TagBytes |-> <<k, h, c, i>>]
Sealed(k, s, p) == HeaderOf(s) \o Encrypted(k, p) \o Tag(k, HeaderOf(s), Encrypted(k, p))

\* What AES-GCM promises: whoever makes the containers, a tag of the user's keys is that of
\* the ciphertext of a plaintext.
ASSUME TagsUnforged ==
    \A c \in Containers : \A n \in 1..Len(c) : \A s \in Suite : \A i \in 1..Len(Keys[s]) :
        Len(c[n]) = 4 /\ c[n][1] = Keys[s][i] => \E p \in Plaintexts : c[n][3] = Encrypted(Keys[s][i], p)

\* The bytes of c decrypted under k as those from position i on.
Garbage == <<-1>>
Decrypted(k, i, c) ==
    [n \in 1..Len(c) |->
        IF Len(c[n]) = 3 /\ c[n][1] = k /\ c[n][2] = i + n - 1 THEN c[n][3] ELSE Garbage]

StreamTypeOK ==
    /\ op \in [kind : {"encrypt", "inspect", "verify", "decrypt"}, seekable : BOOLEAN, suite : Suite]
    /\ changes \in 0..MaxChanges
    /\ pc \in {"begin", "head", "copy", "count", "verify", "release", "end"}
    /\ reader.of \in {"source", "snapshot"}
    /\ reader.count \in 0..reader.limit /\ reader.pos \in Nat /\ reader.total >= Unknown
    /\ Len(tail) <= TagBytes
    /\ Len(fed) <= MaxFileBytes
    /\ result \in {"none", "ok", "refused", "failed"}

-----------------------------------------------------------------------------
\* _Reader.
Bytes(of) == IF of = "source" THEN source ELSE snapshot

NewReader(of, pos, limit) ==
    [of |-> of, pos |-> pos, count |-> 0, limit |-> limit,
     total |-> IF of = "snapshot" \/ op.seekable THEN Max({0, Len(Bytes(of)) - pos}) ELSE Unknown]

AtEnd == reader.pos >= Len(Bytes(reader.of))

\* What read returns before the end, given that it asks for at most size bytes.
Chunks(size) ==
    LET most == Min({ChunkBytes, reader.limit - reader.count + 1, size,
                     Len(Bytes(reader.of)) - reader.pos})
    IN {SubSeq(Bytes(reader.of), reader.pos + 1, reader.pos + n) : n \in 1..most}

After(data) == [reader EXCEPT !.pos = @ + Len(data), !.count = @ + Len(data)]
Within(data) == reader.count + Len(data) <= reader.limit

Ends(how) ==
    /\ pc' = "end" /\ result' = how
    /\ UNCHANGED <<given, reader, header, snapshot, fed, tail, key>>
Refused == Ends("refused") /\ UNCHANGED sink

-----------------------------------------------------------------------------
StreamInit ==
    /\ op \in [kind : {"encrypt", "inspect", "verify", "decrypt"}, seekable : BOOLEAN, suite : Suite]
    /\ source \in IF op.kind = "encrypt" THEN Plaintexts ELSE Containers
    /\ changes = 0
    /\ pc = "begin"
    /\ reader = [of |-> "source", pos |-> 0, count |-> 0, limit |-> 0, total |-> Unknown]
    /\ header = <<>> /\ snapshot = <<>> /\ fed = <<>> /\ tail = <<>>
    /\ key = 0
    /\ sink = <<>>
    /\ result = "none"

\* The start of each operation; an encryption writes its header before it reads.
Begin ==
    /\ pc = "begin"
    /\ LET encrypts == op.kind = "encrypt"
           r == NewReader("source", 0, IF encrypts THEN MaxFileBytes ELSE ContainerLimit)
       IN IF r.total > r.limit
            THEN Refused
            ELSE /\ reader' = r
                 /\ pc' = IF encrypts THEN "copy" ELSE "head"
                 /\ header' = IF encrypts THEN HeaderOf(NewSuite) ELSE header
                 /\ sink' = header'
                 /\ key' = IF encrypts THEN NewKey ELSE key
                 /\ UNCHANGED <<given, snapshot, fed, tail, result>>

\* The loop of encrypt_stream.
Copy ==
    /\ pc = "copy" /\ ~AtEnd
    /\ \E data \in Chunks(ChunkBytes) :
          IF ~Within(data)
            THEN Refused
            ELSE LET c == [i \in 1..Len(data) |-> <<key, Len(fed) + i, data[i]>>] IN
                 /\ reader' = After(data)
                 /\ fed' = fed \o c
                 /\ sink' = sink \o c
                 /\ UNCHANGED <<given, pc, header, snapshot, tail, key, result>>

Copied ==
    /\ pc = "copy" /\ AtEnd
    /\ Ends("ok")
    /\ sink' = sink \o Tag(key, header, fed)

-----------------------------------------------------------------------------
\* _check_payload_size, of a payload that begins after the header h.
SizeFits(h) ==
    reader.total = Unknown \/
    reader.total - Len(h) \in TagBytes..MaxFileBytes + TagBytes

\* _candidate_keys refuses a container of another suite than the private key's.
HeaderRead(h) ==
    IF ~SizeFits(h) THEN Refused
    ELSE IF op.kind = "inspect" \/ (op.kind = "decrypt" /\ reader.of = "source")
      THEN /\ pc' = "count"
           /\ header' = h
           /\ reader' = After(<<h[1]>>)
           /\ snapshot' = IF op.kind = "decrypt" THEN h ELSE snapshot
           /\ UNCHANGED <<given, fed, tail, key, sink, result>>
    ELSE IF h # HeaderOf(op.suite) THEN Refused
    ELSE /\ pc' = "verify"
         /\ header' = h
         /\ reader' = After(<<h[1]>>)
         /\ UNCHANGED <<given, snapshot, fed, tail, key, sink, result>>

\* _read_encrypted_file_header, byte by byte.
ReadHeader ==
    /\ pc = "head"
    /\ IF AtEnd THEN Refused
       ELSE LET h == Append(header, Bytes(reader.of)[reader.pos + 1])
                length == h[1][1]
            IN IF length \notin 1..MaxName THEN Refused
               ELSE IF Len(h) <= length
                 THEN /\ header' = h
                      /\ reader' = After(<<h[1]>>)
                      /\ UNCHANGED <<given, pc, snapshot, fed, tail, key, sink, result>>
               ELSE IF \A s \in Suite : h # HeaderOf(s) THEN Refused
               ELSE HeaderRead(h)

\* _payload_count, which also fills the snapshot of a decryption.
CountFitsAny(n) == TRUE
CountFits(n) == n <= MaxFileBytes + TagBytes

Counted == reader.count - Len(header)

Count ==
    /\ pc = "count" /\ ~AtEnd
    /\ \E data \in Chunks(ChunkBytes) :
          IF ~Within(data) \/ ~CountFits(Counted + Len(data))
            THEN Refused
            ELSE /\ reader' = After(data)
                 /\ snapshot' = IF op.kind = "decrypt" THEN snapshot \o data ELSE snapshot
                 /\ UNCHANGED <<given, pc, header, fed, tail, key, sink, result>>

CountEnds ==
    /\ pc = "count" /\ AtEnd
    /\ IF Counted < TagBytes THEN Refused
       ELSE IF op.kind = "inspect" THEN Ends("ok") /\ UNCHANGED sink
       ELSE /\ reader' = NewReader("snapshot", 0, ContainerLimit)
            /\ pc' = "head"
            /\ header' = <<>>
            /\ UNCHANGED <<given, snapshot, fed, tail, key, sink, result>>

-----------------------------------------------------------------------------
\* _process_payload: how many of the bytes at hand go to the context, and whether they may.
PassesOne(bytes) == Max({0, Len(bytes) - TagBytes + 1})
Passes(bytes) == Max({0, Len(bytes) - TagBytes})

ProcessFits(n) == n <= MaxFileBytes

Process ==
    /\ pc \in {"verify", "release"} /\ ~AtEnd
    /\ \E data \in Chunks(ChunkBytes) :
          LET bytes == tail \o data
              n == Passes(bytes)
              payload == SubSeq(bytes, 1, n)
          IN IF ~Within(data) \/ ~ProcessFits(Len(fed) + n)
               THEN Refused
               ELSE /\ reader' = After(data)
                    /\ tail' = SubSeq(bytes, n + 1, Len(bytes))
                    /\ fed' = fed \o payload
                    /\ sink' = IF pc = "release"
                                 THEN sink \o Decrypted(key, Len(fed) + 1, payload) ELSE sink
                    /\ UNCHANGED <<given, pc, header, snapshot, key, result>>

\* The keys under which the tag that was withheld is that of what was processed.
Authentic == {i \in 1..Len(Keys[op.suite]) : tail = Tag(Keys[op.suite][i], header, fed)}

\* What decrypt_stream decrypts once it is verified.
DecryptsSource == "source"
Decrypts == "snapshot"

\* The end of _verify: the first key that authenticates is the one a decryption goes on with.
Verified ==
    /\ pc = "verify" /\ AtEnd
    /\ IF Authentic = {} THEN Refused
       ELSE IF op.kind = "verify" THEN Ends("ok") /\ UNCHANGED sink
       ELSE /\ key' = Keys[op.suite][Min(Authentic)]
            /\ reader' = NewReader(Decrypts, Len(header), Len(fed) + TagBytes)
            /\ pc' = "release"
            /\ fed' = <<>> /\ tail' = <<>>
            /\ UNCHANGED <<given, header, snapshot, sink, result>>

Released ==
    /\ pc = "release" /\ AtEnd
    /\ IF tail = Tag(key, header, fed) THEN Ends("ok") /\ UNCHANGED sink ELSE Refused

-----------------------------------------------------------------------------
\* A cancellation, or a read or write that fails.
Interrupted ==
    /\ pc # "end"
    /\ Ends("failed") /\ UNCHANGED sink

\* Another process changes the source.
Changed ==
    /\ pc \notin {"begin", "end"}
    /\ changes < MaxChanges /\ changes' = changes + 1
    /\ source' \in IF op.kind = "encrypt" THEN Plaintexts ELSE Containers
    /\ UNCHANGED <<op, pc, reader, header, snapshot, fed, tail, key, sink, result>>

StreamNext ==
    \/ Begin \/ Copy \/ Copied \/ ReadHeader \/ Count \/ CountEnds
    \/ Process \/ Verified \/ Released \/ Interrupted \/ Changed

StreamSpec == StreamInit /\ [][StreamNext]_streamVars

-----------------------------------------------------------------------------
\* What container is what plaintext for the user.
Opens(container, p) ==
    \E i \in 1..Len(Keys[op.suite]) : container = Sealed(Keys[op.suite][i], op.suite, p)

\* A decryption writes nothing to the sink before the whole ciphertext is known to be
\* authentic, and nothing but its plaintext, in order, whatever becomes of the source
\* meanwhile (README.md:311, docs/THREAT_MODEL.md:62, crypto_stream.py:336-352).
ReleasedIsAuthentic ==
    op.kind = "decrypt" /\ (sink # <<>> \/ result = "ok") =>
        \E p \in Plaintexts :
            /\ Opens(snapshot, p)
            /\ IsPrefix(sink, p)
            /\ result = "ok" => sink = p

\* A source that is left alone is accepted exactly if it is a container, or a plaintext,
\* of a length the limit allows; the checks on its size, on the header, on the count and on
\* what is processed agree at every boundary, however the reads divide it, and an accepted
\* encryption is what decrypts to it (crypto_stream.py:86-97, 166, 178-194, 264-278).
AcceptsExactly ==
    result \in {"ok", "refused"} /\ changes = 0 =>
        result = "ok" <=>
            CASE op.kind = "encrypt" ->
                   /\ Len(source) <= MaxFileBytes
                   /\ result = "ok" => sink = Sealed(NewKey, NewSuite, source)
              [] op.kind = "inspect" ->
                   \E s \in Suite :
                       /\ IsPrefix(HeaderOf(s), source)
                       /\ Len(source) - Len(HeaderOf(s)) \in TagBytes..MaxFileBytes + TagBytes
              [] op.kind \in {"verify", "decrypt"} ->
                   \E p \in Plaintexts : Len(p) <= MaxFileBytes /\ Opens(source, p)

\* The snapshot and the sink take no more room than the limit on the plaintext and the
\* container's own header and tag, also if the source grows while it is read
\* (docs/API.md:43, crypto_stream.py:179-182).
RoomIsBounded ==
    /\ Len(sink) <= ContainerLimit
    /\ snapshot # <<>> => Len(snapshot) <= 1 + snapshot[1][1] + MaxFileBytes + TagBytes
=============================================================================
