------------------------ MODULE KeyWorkflows_proofs ------------------------
(***************************************************************************)
(* Every key file and container of KeyWorkflows, whatever was done to it,  *)
(* opens exactly as it was made to: the four invariants of the module, for *)
(* every set of passwords, old keys and texts and any number of edits.     *)
(*                                                                         *)
(* The inductive invariant, KeyInv, says of the files only this: a lock    *)
(* that is sound is that of a recorded file, a payload that is sound is    *)
(* that of a recorded container, and the records are right.  That a file   *)
(* which unlocks is the recorded one, line for line, is what its lock      *)
(* authenticates; that a handler answers "ok" for exactly the files that   *)
(* unlock and open, and no other refusal than one with a code, is read off *)
(* its sequence of checks.                                                 *)
(*                                                                         *)
(* First the lemmas about sequences and checks, then one section for each  *)
(* level of the code: key files, containers, the handlers of the service,  *)
(* the jobs and the command line, the four invariants, the steps.          *)
(***************************************************************************)
EXTENDS KeyWorkflows, SequenceTheorems, WellFoundedInduction, TLAPS

\* The lines of a key file, a piece of key data, a key; the parts of a container.
PemFields == {"boundary", "alg", "format", "proc", "dek", "kdf", "data"}
DataFields == {"key", "lock", "sound"}
KeyFields == {"pair", "type", "sound"}
BoxFields == {"version", "suite", "ct", "eph", "nonce", "whole", "payload"}
PayloadFields == {"sealed", "text", "sound"}

\* x is a function on the set F.
On(F, x) == x = [f \in F |-> x[f]]

\* s is a sequence, over whatever its elements are.
IsSeq(s) == s \in Seq(Range(s))

\* A key file, whatever was done to it: its lines are sequences, and the only line of
\* its kind that says a key is encrypted says nothing else.
PemShape(pem) ==
    /\ On(PemFields, pem)
    /\ \A f \in PemFields : IsSeq(pem[f])
    /\ Range(pem.proc) \subseteq {"ENCRYPTED"}
    /\ \A i \in 1..Len(pem.data) : On(DataFields, pem.data[i])

\* Locked data that is sound is the data of a file that was written, as it was written.
LocksAreWritten(pem) ==
    \A i \in 1..Len(pem.data) :
        pem.data[i].lock # <<>> /\ pem.data[i].sound = TRUE =>
            \E r \in written : r.pem.data = <<pem.data[i]>>

\* What is recorded of a private key file is what it was written for.
WrittenRight(r) ==
    /\ r.pem = PrivatePem(r.pem.data[1].key, r.suite, r.password, r.pem.format[1], r.pem.dek[1])
    /\ r.suite \in ALLOWED_KEY_ALGS
    /\ r.password \in Password \ {NoPassword}
    /\ r.pem.format[1] \in SUPPORTED_PRIVATE_KEY_FORMAT_VERSIONS
    /\ r.pem.dek[1] \in Nat \ {Malformed}
    /\ ValidKeyMaterial(r.pem.data[1].key, r.suite, "private")
    /\ On(KeyFields, r.pem.data[1].key)
    /\ r.pair = r.pem.data[1].key.pair

\* A container, whatever was done to it: a payload that is sound is that of a container
\* that was sealed.
BoxShape(box) ==
    /\ On(BoxFields, box) /\ On(PayloadFields, box.payload)
    /\ box.whole \in BOOLEAN
PayloadSealed(box) ==
    box.payload.sound = TRUE => \E s \in sealed : s.box.payload = box.payload

\* What is recorded of a container is what it was sealed for.
VersionOf(suite) == IF suite \in ALLOWED_HYBRID_KEM_ALGS THEN FORMAT_VERSION ELSE LEGACY_FORMAT_VERSION
SealedRight(s) ==
    /\ s.box = Container(VersionOf(s.suite), s.suite, s.pair, s.kem, s.box.nonce, s.box.payload.text)
    /\ s.suite \in ALLOWED_KEY_ALGS
    /\ s.kem \in Candidates(s.suite, ALLOWED_KEM_ALGS)
    /\ s.confirmed # {} => s.confirmed = {<<s.suite, s.pair>>} /\ s.kem \in enabled

\* The inductive invariant.
KeyFiles == \A pem \in pems : PemShape(pem) /\ LocksAreWritten(pem)
KeyRecords == \A r \in written : WrittenRight(r)
Boxes == \A box \in boxes : BoxShape(box) /\ PayloadSealed(box)
BoxRecords == \A s \in sealed : SealedRight(s)

KeyInv == KeyFiles /\ KeyRecords /\ Boxes /\ BoxRecords /\ made \in Nat /\ enabled \subseteq ALLOWED_KEM_ALGS

-----------------------------------------------------------------------------
\* A sequence is the function of its elements.
LEMMA SeqFacts ==
    ASSUME NEW s, IsSeq(s)
    PROVE  /\ Len(s) \in Nat /\ DOMAIN s = 1..Len(s)
           /\ s = [i \in 1..Len(s) |-> s[i]]
           /\ \A i \in 1..Len(s) : s[i] \in Range(s)
<1>1. /\ Len(s) \in Nat
      /\ s \in [1..Len(s) -> Range(s)]
      /\ DOMAIN s = 1..Len(s)
  BY LenProperties DEF IsSeq
<1> QED
  BY <1>1 DEF Range

\* A function on 1..n is a sequence of length n.
LEMMA SeqMade ==
    ASSUME NEW n \in Nat, NEW s, s = [i \in 1..n |-> s[i]]
    PROVE  IsSeq(s) /\ Len(s) = n
<1>1. s \in [1..n -> Range(s)]
  BY DEF Range
<1>2. s \in Seq(Range(s))
  BY <1>1
<1>3. Len(s) = n
  BY <1>1, <1>2
<1> QED
  BY <1>2, <1>3 DEF IsSeq

\* A sequence over any set is a sequence.
LEMMA SeqOver ==
    ASSUME NEW S, NEW s \in Seq(S)
    PROVE  IsSeq(s)
<1>1. /\ Len(s) \in Nat
      /\ s \in [1..Len(s) -> S]
      /\ DOMAIN s = 1..Len(s)
  BY LenProperties
<1>2. s \in [1..Len(s) -> Range(s)]
  BY <1>1 DEF Range
<1> QED
  BY <1>1, <1>2 DEF IsSeq

\* The elements of s \o t.
LEMMA SeqJoined ==
    ASSUME NEW s, NEW t, IsSeq(s), IsSeq(t)
    PROVE  /\ IsSeq(s \o t)
           /\ Len(s \o t) = Len(s) + Len(t)
           /\ \A i \in 1..Len(s) : (s \o t)[i] = s[i]
           /\ \A i \in 1..Len(t) : (s \o t)[Len(s) + i] = t[i]
<1> DEFINE S == Range(s) \cup Range(t)
<1>1. Len(s) \in Nat /\ Len(t) \in Nat
  BY SeqFacts
<1>2. s \in Seq(S)
  <2>1. s \in [1..Len(s) -> S]
    BY SeqFacts
  <2> QED
    BY <1>1, <2>1
<1>3. t \in Seq(S)
  <2>1. t \in [1..Len(t) -> S]
    BY SeqFacts
  <2> QED
    BY <1>1, <2>1
<1>4. /\ s \o t \in Seq(S)
      /\ Len(s \o t) = Len(s) + Len(t)
      /\ \A i \in 1 .. Len(s) + Len(t) : (s \o t)[i] =
                     IF i <= Len(s) THEN s[i] ELSE t[i - Len(s)]
  <2> HIDE DEF S
  <2> QED
    BY <1>2, <1>3, ConcatProperties
<1>5. IsSeq(s \o t)
  BY <1>4, SeqOver
<1> HIDE DEF S
<1> QED
  BY <1>1, <1>4, <1>5

\* The empty sequence, and sequences of one element.
LEMMA SeqEmpty == IsSeq(<<>>) /\ Len(<<>>) = 0
  BY EmptySeq DEF IsSeq

\* A sequence of one element.
LEMMA SeqSingle ==
    ASSUME NEW a
    PROVE  IsSeq(<<a>>) /\ Len(<<a>>) = 1 /\ <<a>>[1] = a /\ Range(<<a>>) = {a}
<1>1. <<a>> = [i \in 1..1 |-> <<a>>[i]]
  OBVIOUS
<1>2. IsSeq(<<a>>) /\ Len(<<a>>) = 1
  BY <1>1, SeqMade
<1>3. Range(<<a>>) = {a}
  BY DEF Range
<1> QED
  BY <1>2, <1>3

\* A sequence of length 1 is the sequence of its element.
LEMMA SeqOfOne ==
    ASSUME NEW s, IsSeq(s), Len(s) = 1
    PROVE  s = <<s[1]>> /\ Range(s) = {s[1]}
<1>1. s = [i \in 1..1 |-> s[i]]
  BY SeqFacts
<1>2. s = <<s[1]>>
  BY <1>1
<1> QED
  BY <1>1 DEF Range

-----------------------------------------------------------------------------
\* Checks: sequences of refusals, "none" for a check that holds.
Passes(checks) == \A i \in 1..Len(checks) : checks[i] = "none"

\* A set of positions has a least one.
LEMMA LeastPosition ==
    ASSUME NEW S, S \subseteq Nat, S # {}
    PROVE  \E i \in S : \A j \in S : i <= j
<1> DEFINE R == OpToRel(<, Nat)
<1>1. IsWellFoundedOn(R, Nat)
  BY NatLessThanWellFounded
<1>2. \A i \in Nat, j \in Nat : j < i => <<j, i>> \in R
  BY DEF OpToRel
<1> HIDE DEF R
<1>3. PICK i \in S : \A j \in S : ~(<<j, i>> \in R)
  BY <1>1, WFMin
<1>4. ASSUME NEW j \in S PROVE i <= j
  <2>1. i \in Nat /\ j \in Nat
    OBVIOUS
  <2>2. ~(j < i)
    BY <1>2, <1>3, <2>1
  <2> QED
    BY <2>1, <2>2
<1> QED
  BY <1>4

\* The first check that fails.
LEMMA FirstFails ==
    ASSUME NEW checks, IsSeq(checks), ~Passes(checks)
    PROVE  \E i \in 1..Len(checks) :
              /\ checks[i] # "none" /\ FirstRefusal(checks) = checks[i]
              /\ \A j \in 1..Len(checks) : j < i => checks[j] = "none"
<1> DEFINE failed == {i \in DOMAIN checks : checks[i] # "none"}
<1>1. DOMAIN checks = 1..Len(checks) /\ Len(checks) \in Nat
  BY SeqFacts
<1>2. failed \subseteq Nat /\ failed # {}
  BY <1>1 DEF Passes
<1>3. PICK least : least = CHOOSE i \in failed : \A j \in failed : i <= j
  OBVIOUS
<1>4. least \in failed /\ \A j \in failed : least <= j
  <2> HIDE DEF failed
  <2>1. \E i \in failed : \A j \in failed : i <= j
    BY <1>2, LeastPosition
  <2> QED
    BY <1>3, <2>1
<1>5. FirstRefusal(checks) = checks[least]
  BY <1>2, <1>3 DEF FirstRefusal
<1> QED
  BY <1>1, <1>4, <1>5

\* The checks refuse nothing exactly if all of them hold.
LEMMA FirstNone ==
    ASSUME NEW checks, IsSeq(checks)
    PROVE  FirstRefusal(checks) = "none" <=> Passes(checks)
<1>1. ASSUME Passes(checks) PROVE FirstRefusal(checks) = "none"
  <2>1. {i \in DOMAIN checks : checks[i] # "none"} = {}
    BY <1>1, SeqFacts DEF Passes
  <2> QED
    BY <2>1 DEF FirstRefusal
<1> QED
  BY <1>1, FirstFails

\* Its error is that of one of the checks.
LEMMA FirstIn ==
    ASSUME NEW checks, IsSeq(checks)
    PROVE  FirstRefusal(checks) \in {"none"} \cup Range(checks)
  BY FirstNone, FirstFails, SeqFacts

\* Checks that are joined.
LEMMA JoinedPass ==
    ASSUME NEW s, NEW t, IsSeq(s), IsSeq(t)
    PROVE  /\ IsSeq(s \o t)
           /\ Passes(s \o t) <=> Passes(s) /\ Passes(t)
           /\ Range(s \o t) \subseteq Range(s) \cup Range(t)
<1> DEFINE u == s \o t
<1>1. /\ IsSeq(u) /\ Len(u) = Len(s) + Len(t)
      /\ \A i \in 1..Len(s) : u[i] = s[i]
      /\ \A i \in 1..Len(t) : u[Len(s) + i] = t[i]
      /\ Len(s) \in Nat /\ Len(t) \in Nat
  BY SeqJoined, SeqFacts
<1> HIDE DEF u
<1>2. ASSUME NEW i \in 1..Len(u), i > Len(s)
      PROVE  \E j \in 1..Len(t) : i = Len(s) + j /\ u[i] = t[j]
  <2>1. i - Len(s) \in 1..Len(t) /\ i = Len(s) + (i - Len(s))
    BY <1>1, <1>2
  <2> QED
    BY <1>1, <2>1
<1>3. ASSUME NEW i \in 1..Len(u), ~(i > Len(s)) PROVE i \in 1..Len(s) /\ u[i] = s[i]
  BY <1>1, <1>3
<1>4. ASSUME Passes(u) PROVE Passes(s) /\ Passes(t)
  <2>1. \A i \in 1..Len(s) : i \in 1..Len(u)
    BY <1>1
  <2>2. \A i \in 1..Len(t) : Len(s) + i \in 1..Len(u)
    BY <1>1
  <2> QED
    BY <1>1, <1>4, <2>1, <2>2 DEF Passes
<1>5. ASSUME Passes(s), Passes(t) PROVE Passes(u)
  BY <1>2, <1>3, <1>5 DEF Passes
<1>6. Range(u) \subseteq Range(s) \cup Range(t)
  <2>1. SUFFICES ASSUME NEW i \in 1..Len(u) PROVE u[i] \in Range(s) \cup Range(t)
    BY <1>1, SeqFacts DEF Range
  <2> QED
    BY <1>2, <1>3, SeqFacts
<1> QED
  BY <1>1, <1>4, <1>5, <1>6 DEF u

\* A few checks.
LEMMA Checks1 ==
    ASSUME NEW a
    PROVE  /\ IsSeq(<<a>>) /\ Range(<<a>>) = {a}
           /\ Passes(<<a>>) <=> a = "none"
<1>1. <<a>> = [i \in 1..1 |-> <<a>>[i]]
  OBVIOUS
<1>2. IsSeq(<<a>>) /\ Len(<<a>>) = 1
  BY <1>1, SeqMade
<1>3. Range(<<a>>) = {a}
  BY DEF Range
<1> QED
  BY <1>2, <1>3 DEF Passes

\* Two checks.
LEMMA Checks2 ==
    ASSUME NEW a, NEW b
    PROVE  /\ IsSeq(<<a, b>>) /\ Range(<<a, b>>) = {a, b}
           /\ Passes(<<a, b>>) <=> a = "none" /\ b = "none"
<1>1. <<a, b>> = [i \in 1..2 |-> <<a, b>>[i]]
  OBVIOUS
<1>2. IsSeq(<<a, b>>) /\ Len(<<a, b>>) = 2
  BY <1>1, SeqMade
<1>3. Range(<<a, b>>) = {a, b}
  BY DEF Range
<1> QED
  BY <1>2, <1>3 DEF Passes

\* Three checks.
LEMMA Checks3 ==
    ASSUME NEW a, NEW b, NEW c
    PROVE  /\ IsSeq(<<a, b, c>>) /\ Range(<<a, b, c>>) = {a, b, c}
           /\ Passes(<<a, b, c>>) <=> a = "none" /\ b = "none" /\ c = "none"
<1>1. <<a, b, c>> = [i \in 1..3 |-> <<a, b, c>>[i]]
  OBVIOUS
<1>2. IsSeq(<<a, b, c>>) /\ Len(<<a, b, c>>) = 3
  BY <1>1, SeqMade
<1>3. Range(<<a, b, c>>) = {a, b, c}
  BY DEF Range
<1> QED
  BY <1>2, <1>3 DEF Passes

\* Four checks.
LEMMA Checks4 ==
    ASSUME NEW a, NEW b, NEW c, NEW d
    PROVE  /\ IsSeq(<<a, b, c, d>>) /\ Range(<<a, b, c, d>>) = {a, b, c, d}
           /\ Passes(<<a, b, c, d>>) <=> a = "none" /\ b = "none" /\ c = "none" /\ d = "none"
<1>1. <<a, b, c, d>> = [i \in 1..4 |-> <<a, b, c, d>>[i]]
  OBVIOUS
<1>2. IsSeq(<<a, b, c, d>>) /\ Len(<<a, b, c, d>>) = 4
  BY <1>1, SeqMade
<1>3. Range(<<a, b, c, d>>) = {a, b, c, d}
  BY DEF Range
<1> QED
  BY <1>2, <1>3 DEF Passes

\* Five checks.
LEMMA Checks5 ==
    ASSUME NEW a, NEW b, NEW c, NEW d, NEW e
    PROVE  /\ IsSeq(<<a, b, c, d, e>>) /\ Range(<<a, b, c, d, e>>) = {a, b, c, d, e}
           /\ Passes(<<a, b, c, d, e>>) <=> a = "none" /\ b = "none" /\ c = "none" /\ d = "none" /\ e = "none"
<1>1. <<a, b, c, d, e>> = [i \in 1..5 |-> <<a, b, c, d, e>>[i]]
  OBVIOUS
<1>2. IsSeq(<<a, b, c, d, e>>) /\ Len(<<a, b, c, d, e>>) = 5
  BY <1>1, SeqMade
<1>3. Range(<<a, b, c, d, e>>) = {a, b, c, d, e}
  BY DEF Range
<1> QED
  BY <1>2, <1>3 DEF Passes

\* Six checks.
LEMMA Checks6 ==
    ASSUME NEW a, NEW b, NEW c, NEW d, NEW e, NEW f
    PROVE  /\ IsSeq(<<a, b, c, d, e, f>>) /\ Range(<<a, b, c, d, e, f>>) = {a, b, c, d, e, f}
           /\ Passes(<<a, b, c, d, e, f>>) <=> a = "none" /\ b = "none" /\ c = "none" /\ d = "none" /\ e = "none" /\ f = "none"
<1>1. <<a, b, c, d, e, f>> = [i \in 1..6 |-> <<a, b, c, d, e, f>>[i]]
  OBVIOUS
<1>2. IsSeq(<<a, b, c, d, e, f>>) /\ Len(<<a, b, c, d, e, f>>) = 6
  BY <1>1, SeqMade
<1>3. Range(<<a, b, c, d, e, f>>) = {a, b, c, d, e, f}
  BY DEF Range
<1> QED
  BY <1>2, <1>3 DEF Passes

-----------------------------------------------------------------------------
\* crypto_config.py
LEMMA Config ==
    /\ ALLOWED_KEM_ALGS = {"ML-KEM-768", "Kyber768"} /\ KEM_ALG = "ML-KEM-768"
    /\ HYBRID_KEM_ALG = "ML-KEM-768+X25519-v2"
    /\ ALLOWED_HYBRID_KEM_ALGS = {"ML-KEM-768+X25519-v2", "ML-KEM-768+X25519"}
    /\ ALLOWED_KEY_ALGS = {"ML-KEM-768+X25519-v2", "ML-KEM-768+X25519", "ML-KEM-768", "Kyber768"}
    /\ FORMAT_VERSION = 4 /\ LEGACY_FORMAT_VERSION = 3
    /\ SUPPORTED_PRIVATE_KEY_FORMAT_VERSIONS = {2, 3}
<1>1. Range(LEGACY_KEM_ALGS) = {"Kyber768"}
  BY DEF Range, LEGACY_KEM_ALGS
<1> QED
  BY <1>1 DEF ALLOWED_KEM_ALGS, KEM_ALG, HYBRID_KEM_ALG, ALLOWED_HYBRID_KEM_ALGS,
     LEGACY_HYBRID_KEM_ALG, ALLOWED_KEY_ALGS, FORMAT_VERSION, LEGACY_FORMAT_VERSION,
     SUPPORTED_PRIVATE_KEY_FORMAT_VERSIONS, PEM_PRIVATE_KEY_FORMAT_VERSION

\* What _parse_key_pem_strict wants of a file, and what it refuses it with.
Lines(pem) ==
    /\ pem.boundary \in {<<"public">>, <<"private">>}
    /\ \A i \in 1..4 : Len(Metadata(pem)[i]) <= 1
    /\ pem.data # <<>>
    /\ HasMetadata(pem) => IsPrivate(pem) /\ pem.proc # <<>> /\ pem.format # <<>> /\ pem.dek # <<>>
    /\ Range(pem.format) \subseteq SUPPORTED_PRIVATE_KEY_FORMAT_VERSIONS
Parsed(pem) ==
    /\ Lines(pem) /\ KnownAlgorithm(pem)
    /\ IsEncrypted(pem) => pem.kdf # <<>>
    /\ Malformed \notin Range(pem.dek)
    /\ Range(pem.kdf) \subseteq {SCRYPT}
    /\ PayloadAccepted(pem, IF IsPrivate(pem) THEN "private" ELSE "public")

\* _parse_key_pem_strict refuses a file exactly if it lacks one of these, by two errors.
LEMMA ParseFacts ==
    ASSUME NEW pem
    PROVE  /\ ParseRefusal(pem) = "none" <=> Parsed(pem)
           /\ ParseRefusal(pem) \in {"none", "InvalidKeyFormatError", "UnsupportedKDFError"}
<1> DEFINE a == Check(Lines(pem), "InvalidKeyFormatError")
           b == AlgorithmCheck(pem)
           c == Check(IsEncrypted(pem) => pem.kdf # <<>>, "UnsupportedKDFError")
           d == Check(Malformed \notin Range(pem.dek), "InvalidKeyFormatError")
           e == Check(Range(pem.kdf) \subseteq {SCRYPT}, "UnsupportedKDFError")
           f == Check(PayloadAccepted(pem, IF IsPrivate(pem) THEN "private" ELSE "public"),
                      "InvalidKeyFormatError")
<1>1. ParseRefusal(pem) = FirstRefusal(<<a, b, c, d, e, f>>)
  BY DEF ParseRefusal, Lines
<1>2. /\ a = "none" <=> Lines(pem)
      /\ b = "none" <=> KnownAlgorithm(pem)
      /\ c = "none" <=> (IsEncrypted(pem) => pem.kdf # <<>>)
      /\ d = "none" <=> Malformed \notin Range(pem.dek)
      /\ e = "none" <=> Range(pem.kdf) \subseteq {SCRYPT}
      /\ f = "none" <=> PayloadAccepted(pem, IF IsPrivate(pem) THEN "private" ELSE "public")
  BY DEF Check, AlgorithmCheck
<1>3. {a, b, c, d, e, f} \subseteq {"none", "InvalidKeyFormatError", "UnsupportedKDFError"}
  BY DEF Check, AlgorithmCheck
<1> HIDE DEF a, b, c, d, e, f
<1>4. /\ FirstRefusal(<<a, b, c, d, e, f>>) \in {"none", a, b, c, d, e, f}
      /\ FirstRefusal(<<a, b, c, d, e, f>>) = "none" <=>
             a = "none" /\ b = "none" /\ c = "none" /\ d = "none" /\ e = "none" /\ f = "none"
  BY Checks6, FirstNone, FirstIn
<1> QED
  BY <1>1, <1>2, <1>3, <1>4 DEF Parsed

\* What refuses a key file before a password is asked for.
KeyRefusals == {"InvalidKeyFormatError", "UnsupportedKDFError", "UnencryptedPrivateKeyError"}

\* inspect_key_pem_strict and the maintenance commands: what they refuse, and by which errors.
LEMMA InspectFacts ==
    ASSUME NEW pem
    PROVE  /\ InspectRefusal(pem) = "none" <=>
                  ParseRefusal(pem) = "none" /\ (IsPrivate(pem) => IsEncrypted(pem))
           /\ InspectRefusal(pem) \in {"none"} \cup KeyRefusals
           /\ MaintenanceRefusal(pem) = "none" <=> InspectRefusal(pem) = "none" /\ IsPrivate(pem)
           /\ MaintenanceRefusal(pem) \in {"none"} \cup KeyRefusals
<1> DEFINE a == ParseRefusal(pem)
           b == Check(IsPrivate(pem) => IsEncrypted(pem), "UnencryptedPrivateKeyError")
           c == InspectRefusal(pem)
           d == Check(IsPrivate(pem), "InvalidKeyFormatError")
<1>1. c = FirstRefusal(<<a, b>>) /\ MaintenanceRefusal(pem) = FirstRefusal(<<c, d>>)
  BY DEF InspectRefusal, MaintenanceRefusal
<1>2. /\ b = "none" <=> (IsPrivate(pem) => IsEncrypted(pem))
      /\ d = "none" <=> IsPrivate(pem)
      /\ b \in {"none", "UnencryptedPrivateKeyError"} /\ d \in {"none", "InvalidKeyFormatError"}
  BY DEF Check
<1>3. a \in {"none", "InvalidKeyFormatError", "UnsupportedKDFError"}
  BY ParseFacts
<1> HIDE DEF a, b, c, d
<1>4. /\ FirstRefusal(<<a, b>>) \in {"none", a, b}
      /\ FirstRefusal(<<a, b>>) = "none" <=> a = "none" /\ b = "none"
      /\ FirstRefusal(<<c, d>>) \in {"none", c, d}
      /\ FirstRefusal(<<c, d>>) = "none" <=> c = "none" /\ d = "none"
  BY Checks2, FirstNone, FirstIn
<1>5. c \in {"none"} \cup KeyRefusals
  BY <1>1, <1>2, <1>3, <1>4 DEF KeyRefusals
<1>6. a = ParseRefusal(pem) /\ c = InspectRefusal(pem)
  BY DEF a, c
<1> QED
  BY <1>1, <1>2, <1>4, <1>5, <1>6 DEF KeyRefusals

\* A private key that loads.
Opened(pem) == [key |-> pem.data[1].key, alg |-> pem.alg[1]]
Unlocked(pem, w) ==
    /\ ParseRefusal(pem) = "none" /\ IsPrivate(pem) /\ IsEncrypted(pem) /\ Unlocks(pem, w)
    /\ ValidKeyMaterial(pem.data[1].key, pem.alg[1], "private")

\* A file that parses has one piece of data and one algorithm.
LEMMA ParsedParts ==
    ASSUME NEW pem, PemShape(pem), Parsed(pem)
    PROVE  /\ Len(pem.data) = 1 /\ pem.data = <<pem.data[1]>>
           /\ pem.alg = <<pem.alg[1]>> /\ pem.alg[1] \in ALLOWED_KEY_ALGS
<1>1. IsSeq(pem.data) /\ IsSeq(pem.alg)
  BY DEF PemShape, PemFields
<1>2. Len(pem.data) = 1 /\ Len(pem.alg) = 1 /\ Range(pem.alg) \subseteq ALLOWED_KEY_ALGS
  BY DEF Parsed, PayloadAccepted, KnownAlgorithm
<1> QED
  BY <1>1, <1>2, SeqOfOne

\* load_key_pem of a private key file: its key, or nothing.
LEMMA LoadedPrivate ==
    ASSUME NEW pem, PemShape(pem), NEW w
    PROVE  /\ Unlocked(pem, w) => LoadedOf("private", pem, w) = {Opened(pem)}
           /\ ~Unlocked(pem, w) => LoadedOf("private", pem, w) = {}
<1>1. \A k, a : ValidKeyMaterial(k, a, "private") => k.type = "private"
  BY DEF ValidKeyMaterial, Shape, ExpectedShape
<1>2. \A k, a : ValidKeyMaterial(k, a, "public") => k.type = "public"
  BY DEF ValidKeyMaterial, Shape, ExpectedShape
<1>3. ASSUME NEW l \in LoadedOf("private", pem, w) PROVE l = Opened(pem) /\ Unlocked(pem, w)
  <2>1. /\ l = Opened(pem) /\ l.key.type = "private" /\ ParseRefusal(pem) = "none"
        /\ IsPrivate(pem) => /\ IsEncrypted(pem) /\ Unlocks(pem, w)
                             /\ ValidKeyMaterial(pem.data[1].key, pem.alg[1], "private")
    BY <1>3 DEF LoadedOf, Loaded, Opened
  <2>2. IsPrivate(pem)
    <3>1. SUFFICES ASSUME ~IsPrivate(pem) PROVE FALSE
      OBVIOUS
    <3>2. Parsed(pem)
      BY <2>1, ParseFacts
    <3>3. PayloadAccepted(pem, "public") /\ ~IsEncrypted(pem)
      BY <3>1, <3>2 DEF Parsed, IsEncrypted
    <3>4. pem.data[1] \in Range(pem.data) /\ pem.alg[1] \in Range(pem.alg)
      BY <3>2, ParsedParts, SeqSingle
    <3>5. ValidKeyMaterial(pem.data[1].key, pem.alg[1], "public")
      BY <3>3, <3>4 DEF PayloadAccepted
    <3> QED
      BY <1>2, <2>1, <3>5 DEF Opened
  <2> QED
    BY <2>1, <2>2 DEF Unlocked
<1>4. ASSUME Unlocked(pem, w) PROVE Opened(pem) \in LoadedOf("private", pem, w)
  <2>1. Opened(pem) \in Loaded(pem, w)
    BY <1>4 DEF Loaded, Opened, Unlocked
  <2>2. Opened(pem).key.type = "private"
    BY <1>1, <1>4 DEF Opened, Unlocked
  <2> QED
    BY <2>1, <2>2 DEF LoadedOf
<1> QED
  BY <1>3, <1>4

\* A key file that was written, and its password.
LEMMA WrittenUnlocks ==
    ASSUME NEW r, WrittenRight(r)
    PROVE  /\ PemShape(r.pem) /\ Unlocked(r.pem, r.password)
           /\ Opened(r.pem) = [key |-> r.pem.data[1].key, alg |-> r.suite]
           /\ Opened(r.pem).key.pair = r.pair /\ Opened(r.pem).alg = r.suite
<1> DEFINE key == r.pem.data[1].key
           fmt == r.pem.format[1]
           dek == r.pem.dek[1]
           d == Locked(key, r.password, fmt, r.suite, dek)
<1>1. /\ r.pem = PrivatePem(key, r.suite, r.password, fmt, dek)
      /\ r.suite \in ALLOWED_KEY_ALGS /\ r.password # NoPassword
      /\ fmt \in SUPPORTED_PRIVATE_KEY_FORMAT_VERSIONS /\ dek # Malformed
      /\ ValidKeyMaterial(key, r.suite, "private") /\ r.pair = key.pair
  BY DEF WrittenRight
<1> HIDE DEF key, fmt, dek
<1>2. /\ r.pem.boundary = <<"private">> /\ r.pem.alg = <<r.suite>> /\ r.pem.format = <<fmt>>
      /\ r.pem.proc = <<"ENCRYPTED">> /\ r.pem.dek = <<dek>> /\ r.pem.kdf = <<SCRYPT>>
      /\ r.pem.data = <<d>>
      /\ On(PemFields, r.pem)
  BY <1>1 DEF PrivatePem, On, PemFields
<1>3. /\ d.key = key /\ d.sound = TRUE /\ d.lock # <<>> /\ On(DataFields, d)
      /\ d.lock = <<r.password, dek, MetadataAAD(fmt, r.suite, SCRYPT, dek)>>
  BY DEF Locked, On, DataFields
<1> HIDE DEF d
<1>4. PemShape(r.pem)
  <2>1. \A f \in PemFields : IsSeq(r.pem[f])
    BY <1>2, SeqSingle DEF PemFields
  <2>2. Range(r.pem.proc) \subseteq {"ENCRYPTED"} /\ Len(r.pem.data) = 1 /\ r.pem.data[1] = d
    BY <1>2, SeqSingle
  <2> QED
    BY <1>2, <1>3, <2>1, <2>2 DEF PemShape
<1>5. IsPrivate(r.pem) /\ IsEncrypted(r.pem)
  <2>1. <<"ENCRYPTED">> # <<>>
    OBVIOUS
  <2> QED
    BY <1>2, <2>1 DEF IsPrivate, IsEncrypted
<1>6. Parsed(r.pem)
  <2>1. Lines(r.pem)
    <3>1. \A i \in 1..4 : Len(Metadata(r.pem)[i]) <= 1
      <4>1. Metadata(r.pem) = <<<<fmt>>, <<"ENCRYPTED">>, <<dek>>, <<SCRYPT>>>>
        BY <1>2 DEF Metadata
      <4>2. Len(<<fmt>>) = 1 /\ Len(<<"ENCRYPTED">>) = 1 /\ Len(<<dek>>) = 1 /\ Len(<<SCRYPT>>) = 1
        BY SeqSingle
      <4> QED
        BY <4>1, <4>2
    <3>2. /\ r.pem.data # <<>> /\ r.pem.format # <<>> /\ r.pem.dek # <<>>
          /\ Range(r.pem.format) = {fmt}
      BY <1>2, SeqSingle
    <3> QED
      BY <1>1, <1>2, <1>5, <3>1, <3>2 DEF Lines, IsEncrypted
  <2>2. KnownAlgorithm(r.pem) /\ Range(r.pem.kdf) = {SCRYPT} /\ Range(r.pem.dek) = {dek} /\ r.pem.kdf # <<>>
    BY <1>1, <1>2, SeqSingle DEF KnownAlgorithm
  <2>3. PayloadAccepted(r.pem, "private")
    <3>1. Len(r.pem.data) = 1 /\ Range(r.pem.data) = {d} /\ Range(r.pem.alg) = {r.suite}
      BY <1>2, SeqSingle
    <3>2. Shape(d.key) = ExpectedShape(r.suite, "private")
      BY <1>1, <1>3 DEF ValidKeyMaterial
    <3> QED
      BY <1>3, <1>5, <3>1, <3>2 DEF PayloadAccepted
  <2> QED
    BY <1>1, <1>5, <2>1, <2>2, <2>3 DEF Parsed
<1>7. r.pem.data[1] = d /\ r.pem.alg[1] = r.suite /\ r.pem.format[1] = fmt /\ r.pem.kdf[1] = SCRYPT /\ r.pem.dek[1] = dek
  BY <1>2, SeqSingle
<1>8. Unlocks(r.pem, r.password)
  BY <1>1, <1>3, <1>7 DEF Unlocks
<1>9. ParseRefusal(r.pem) = "none"
  BY <1>6, ParseFacts
<1>10. Unlocked(r.pem, r.password)
  BY <1>1, <1>3, <1>5, <1>7, <1>8, <1>9 DEF Unlocked
<1>11. Opened(r.pem) = [key |-> key, alg |-> r.suite]
  BY <1>3, <1>7 DEF Opened
<1> QED
  BY <1>1, <1>4, <1>10, <1>11 DEF key

\* What a file that unlocks was written as: the data names the record, and what the data
\* authenticates are the other lines.
LEMMA UnlockedIsWritten ==
    ASSUME KeyFiles, KeyRecords, NEW pem \in pems, NEW w, Unlocked(pem, w)
    PROVE  \E r \in written : /\ r.pem = pem /\ r.password = w
                              /\ r.pair = Opened(pem).key.pair /\ r.suite = Opened(pem).alg
<1>1. /\ PemShape(pem) /\ LocksAreWritten(pem) /\ Parsed(pem)
      /\ IsPrivate(pem) /\ IsEncrypted(pem) /\ Unlocks(pem, w)
  BY ParseFacts DEF KeyFiles, Unlocked
<1>2. /\ Len(pem.data) = 1 /\ pem.data = <<pem.data[1]>> /\ pem.alg = <<pem.alg[1]>>
  BY <1>1, ParsedParts
<1> DEFINE d == pem.data[1]
<1>3. d.sound = TRUE /\ d.lock # <<>>
  <2>1. On(DataFields, d)
    BY <1>1, <1>2 DEF PemShape
  <2>2. d.lock # <<>>
    <3>1. \A x, y, z : <<x, y, z>> # <<>>
      OBVIOUS
    <3> QED
      BY <1>1, <3>1 DEF Unlocks
  <2> QED
    BY <1>1, <2>2 DEF Unlocks
<1>4. PICK r \in written : r.pem.data = <<d>>
  BY <1>1, <1>2, <1>3 DEF LocksAreWritten
<1> DEFINE key == r.pem.data[1].key
           fmt == r.pem.format[1]
           dek == r.pem.dek[1]
<1>5. /\ r.pem = PrivatePem(key, r.suite, r.password, fmt, dek)
      /\ r.pair = key.pair
  BY DEF KeyRecords, WrittenRight
<1>6. r.pem.data[1] = d
  BY <1>4
<1>7. key = d.key /\ d = Locked(key, r.password, fmt, r.suite, dek)
  <2>1. r.pem.data = <<Locked(key, r.password, fmt, r.suite, dek)>>
    <3> HIDE DEF key, fmt, dek
    <3> QED
      BY <1>5 DEF PrivatePem
  <2>2. r.pem.data[1] = Locked(key, r.password, fmt, r.suite, dek)
    <3> HIDE DEF key, fmt, dek
    <3> QED
      BY <2>1
  <2> QED
    BY <1>6, <2>2
<1> HIDE DEF key, fmt, dek, d
<1>8. d.lock = <<r.password, dek, <<fmt, r.suite, SCRYPT, dek>>>>
  BY <1>7 DEF Locked, MetadataAAD
<1>9. d.lock = <<w, pem.dek[1], <<pem.format[1], pem.alg[1], pem.kdf[1], pem.dek[1]>>>>
  BY <1>1 DEF Unlocks, MetadataAAD, d
<1>10. /\ w = r.password /\ pem.dek[1] = dek /\ pem.format[1] = fmt
       /\ pem.alg[1] = r.suite /\ pem.kdf[1] = SCRYPT
  BY <1>8, <1>9
<1>11. /\ pem.boundary = <<"private">> /\ pem.alg = <<r.suite>> /\ pem.format = <<fmt>>
       /\ pem.proc = <<"ENCRYPTED">> /\ pem.dek = <<dek>> /\ pem.kdf = <<SCRYPT>> /\ pem.data = <<d>>
  <2>1. /\ IsSeq(pem.format) /\ IsSeq(pem.proc) /\ IsSeq(pem.dek) /\ IsSeq(pem.kdf)
        /\ Range(pem.proc) \subseteq {"ENCRYPTED"}
    BY <1>1 DEF PemShape, PemFields
  <2>2. /\ Len(pem.format) <= 1 /\ Len(pem.proc) <= 1 /\ Len(pem.dek) <= 1 /\ Len(pem.kdf) <= 1
    <3>1. /\ Metadata(pem)[1] = pem.format /\ Metadata(pem)[2] = pem.proc
          /\ Metadata(pem)[3] = pem.dek /\ Metadata(pem)[4] = pem.kdf
      BY DEF Metadata
    <3>2. \A i \in 1..4 : Len(Metadata(pem)[i]) <= 1
      BY <1>1 DEF Parsed, Lines
    <3> QED
      BY <3>1, <3>2
  <2>3. /\ pem.format # <<>> /\ pem.proc # <<>> /\ pem.dek # <<>> /\ pem.kdf # <<>>
    <3>1. pem.proc # <<>>
      BY <1>1 DEF IsEncrypted
    <3>2. HasMetadata(pem)
      <4>1. Metadata(pem)[2] = pem.proc
        BY DEF Metadata
      <4> QED
        BY <3>1, <4>1 DEF HasMetadata
    <3> QED
      BY <1>1, <3>1, <3>2 DEF Parsed, Lines
  <2>4. \A s : IsSeq(s) /\ Len(s) <= 1 /\ s # <<>> => s = <<s[1]>> /\ Range(s) = {s[1]}
    <3> TAKE s
    <3> HAVE IsSeq(s) /\ Len(s) <= 1 /\ s # <<>>
    <3>1. Len(s) # 0
      BY EmptySeq DEF IsSeq
    <3>2. Len(s) \in Nat
      BY SeqFacts
    <3>3. Len(s) = 1
      BY <3>1, <3>2
    <3> QED
      BY <3>3, SeqOfOne
  <2>5. /\ pem.format = <<pem.format[1]>> /\ pem.proc = <<pem.proc[1]>> /\ Range(pem.proc) = {pem.proc[1]}
        /\ pem.dek = <<pem.dek[1]>> /\ pem.kdf = <<pem.kdf[1]>>
    BY <2>1, <2>2, <2>3, <2>4
  <2>6. pem.proc[1] = "ENCRYPTED"
    BY <2>1, <2>5
  <2>7. pem.boundary = <<"private">> /\ pem.data = <<d>>
    BY <1>1, <1>2 DEF IsPrivate, d
  <2> QED
    BY <1>2, <1>10, <2>5, <2>6, <2>7
<1>12. r.pem = pem
  <2>1. /\ r.pem.boundary = <<"private">> /\ r.pem.alg = <<r.suite>> /\ r.pem.format = <<fmt>>
        /\ r.pem.proc = <<"ENCRYPTED">> /\ r.pem.dek = <<dek>> /\ r.pem.kdf = <<SCRYPT>>
        /\ r.pem.data = <<d>>
        /\ On(PemFields, r.pem)
    BY <1>4, <1>5 DEF PrivatePem, On, PemFields
  <2>2. On(PemFields, pem)
    BY <1>1 DEF PemShape
  <2>3. \A f \in PemFields : r.pem[f] = pem[f]
    BY <1>11, <2>1 DEF PemFields
  <2> QED
    BY <2>1, <2>2, <2>3 DEF On
<1>13. r.pair = Opened(pem).key.pair /\ r.suite = Opened(pem).alg
  BY <1>5, <1>7, <1>10 DEF Opened, d
<1> QED
  BY <1>10, <1>12, <1>13

\* UnlocksExactly follows from the invariant: one direction is UnlockedIsWritten, the
\* other WrittenUnlocks.
LEMMA UnlocksExactlyHolds ==
    ASSUME KeyFiles, KeyRecords
    PROVE  UnlocksExactly
<1>1. SUFFICES ASSUME NEW pem \in pems, NEW w \in Password
               PROVE  {<<l.key.pair, l.alg>> : l \in LoadedOf("private", pem, w)} =
                      {<<r.pair, r.suite>> : r \in {r \in written : r.pem = pem /\ r.password = w}}
  BY DEF UnlocksExactly
<1>2. PemShape(pem)
  BY DEF KeyFiles
<1>3. CASE Unlocked(pem, w)
  <2>1. LoadedOf("private", pem, w) = {Opened(pem)}
    BY <1>2, <1>3, LoadedPrivate
  <2>2. \E r \in written : /\ r.pem = pem /\ r.password = w
                           /\ r.pair = Opened(pem).key.pair /\ r.suite = Opened(pem).alg
    BY <1>3, UnlockedIsWritten
  <2>3. \A r \in written : r.pem = pem => r.pair = Opened(pem).key.pair /\ r.suite = Opened(pem).alg
    BY WrittenUnlocks DEF KeyRecords
  <2> QED
    BY <2>1, <2>2, <2>3
<1>4. CASE ~Unlocked(pem, w)
  <2>1. LoadedOf("private", pem, w) = {}
    BY <1>2, <1>4, LoadedPrivate
  <2>2. ~ \E r \in written : r.pem = pem /\ r.password = w
    BY <1>4, WrittenUnlocks DEF KeyRecords
  <2> QED
    BY <2>1, <2>2
<1> QED
  BY <1>3, <1>4

-----------------------------------------------------------------------------
\* Which implementations are tried: those an earlier release may have used, as far as
\* they are enabled; there is always one of them if all are.
LEMMA CandidateFacts ==
    ASSUME NEW suite, NEW able, able \subseteq ALLOWED_KEM_ALGS
    PROVE  /\ Candidates(suite, able) = Candidates(suite, ALLOWED_KEM_ALGS) \cap able
           /\ Candidates(suite, ALLOWED_KEM_ALGS) # {}
  BY Config DEF Candidates

\* inspect_stream: what it refuses, and by which errors.
LEMMA ContainerFacts ==
    ASSUME NEW box
    PROVE  /\ ContainerRefusal(box) = "none" <=>
                 /\ box.version \in {LEGACY_FORMAT_VERSION, FORMAT_VERSION}
                 /\ box.suite \in (IF box.version = FORMAT_VERSION THEN ALLOWED_HYBRID_KEM_ALGS
                                  ELSE ALLOWED_KEM_ALGS)
                 /\ box.whole
           /\ ContainerRefusal(box) \in {"none", "FileFormatError", "UnsupportedAlgorithmError"}
<1> DEFINE algs == IF box.version = FORMAT_VERSION THEN ALLOWED_HYBRID_KEM_ALGS ELSE ALLOWED_KEM_ALGS
           a == Check(box.version \in {LEGACY_FORMAT_VERSION, FORMAT_VERSION}, "FileFormatError")
           b == Check(box.suite \in algs, "UnsupportedAlgorithmError")
           c == Check(box.whole, "FileFormatError")
<1>1. ContainerRefusal(box) = FirstRefusal(<<a, b, c>>)
  BY DEF ContainerRefusal
<1>2. /\ a = "none" <=> box.version \in {LEGACY_FORMAT_VERSION, FORMAT_VERSION}
      /\ b = "none" <=> box.suite \in algs
      /\ c = "none" <=> box.whole
      /\ {a, b, c} \subseteq {"none", "FileFormatError", "UnsupportedAlgorithmError"}
  BY DEF Check
<1> HIDE DEF a, b, c
<1>3. /\ FirstRefusal(<<a, b, c>>) \in {"none", a, b, c}
      /\ FirstRefusal(<<a, b, c>>) = "none" <=> a = "none" /\ b = "none" /\ c = "none"
  BY Checks3, FirstNone, FirstIn
<1> QED
  BY <1>1, <1>2, <1>3

\* What refuses to open a container.
OpenRefusals == {"FileFormatError", "UnsupportedAlgorithmError", "AuthenticationFailedError",
                 "InvalidKeyFormatError", "CryptoDependencyError"}

\* decrypt_file_pro and the stream: what they refuse, and by which errors.
LEMMA OpenFacts ==
    ASSUME NEW box, NEW key, NEW alg, NEW able
    PROVE  /\ OpenRefusal(box, key, alg, able) = "none" <=>
                 /\ ContainerRefusal(box) = "none" /\ alg = box.suite
                 /\ ValidKeyMaterial(key, box.suite, "private")
                 /\ Candidates(box.suite, able) # {}
                 /\ \E c \in Candidates(box.suite, able) : OpensWith(box, key.pair, c)
           /\ OpenRefusal(box, key, alg, able) \in {"none"} \cup OpenRefusals
           /\ Candidates(box.suite, able) # {} =>
                 OpenRefusal(box, key, alg, able) # "CryptoDependencyError"
<1> DEFINE candidates == Candidates(box.suite, able)
           a == ContainerRefusal(box)
           b == Check(alg = box.suite, "AuthenticationFailedError")
           c == Check(ValidKeyMaterial(key, box.suite, "private"), "InvalidKeyFormatError")
           d == Check(candidates # {}, "CryptoDependencyError")
           e == Check(\E x \in candidates : OpensWith(box, key.pair, x), "AuthenticationFailedError")
<1>1. OpenRefusal(box, key, alg, able) = FirstRefusal(<<a, b, c, d, e>>)
  BY DEF OpenRefusal
<1>2. /\ b = "none" <=> alg = box.suite
      /\ c = "none" <=> ValidKeyMaterial(key, box.suite, "private")
      /\ d = "none" <=> candidates # {}
      /\ e = "none" <=> \E x \in candidates : OpensWith(box, key.pair, x)
  BY DEF Check
<1>3. /\ a \in {"none", "FileFormatError", "UnsupportedAlgorithmError"}
      /\ b \in {"none", "AuthenticationFailedError"} /\ c \in {"none", "InvalidKeyFormatError"}
      /\ d \in {"none", "CryptoDependencyError"} /\ e \in {"none", "AuthenticationFailedError"}
  BY ContainerFacts DEF Check
<1>4. a = ContainerRefusal(box)
  OBVIOUS
<1> HIDE DEF a, b, c, d, e
<1>5. /\ FirstRefusal(<<a, b, c, d, e>>) \in {"none", a, b, c, d, e}
      /\ FirstRefusal(<<a, b, c, d, e>>) = "none" <=>
             a = "none" /\ b = "none" /\ c = "none" /\ d = "none" /\ e = "none"
  BY Checks5, FirstNone, FirstIn
<1>6. OpenRefusal(box, key, alg, able) \in {"none"} \cup OpenRefusals
  BY <1>1, <1>3, <1>5 DEF OpenRefusals
<1>7. candidates # {} => OpenRefusal(box, key, alg, able) # "CryptoDependencyError"
  BY <1>1, <1>2, <1>3, <1>5
<1> HIDE DEF candidates
<1> QED
  BY <1>1, <1>2, <1>4, <1>5, <1>6, <1>7 DEF candidates

\* The parts of a container that was sealed.
LEMMA SealedParts ==
    ASSUME NEW s, SealedRight(s)
    PROVE  /\ s.box.version = VersionOf(s.suite) /\ s.box.suite = s.suite
           /\ s.box.ct = [to |-> s.pair, kem |-> s.kem, n |-> s.box.nonce]
           /\ s.box.whole = TRUE /\ s.box.payload.sound = TRUE
           /\ s.box.payload.sealed =
                 <<ContentKey(s.box, s.pair, SharedSecret(s.box.ct)), s.box.nonce, HeaderAAD(s.box)>>
           /\ BoxShape(s.box)
<1> DEFINE n == s.box.nonce
           text == s.box.payload.text
           version == VersionOf(s.suite)
           ct == Encapsulated(s.pair, s.kem, n)
           eph == IF version = FORMAT_VERSION THEN n ELSE 0
           head == [version |-> version, suite |-> s.suite, ct |-> ct, eph |-> eph, nonce |-> n,
                    whole |-> TRUE, payload |-> <<>>]
           lock == <<ContentKey(head, s.pair, SharedSecret(head.ct)), n, HeaderAAD(head)>>
           payload == [sealed |-> lock, text |-> text, sound |-> TRUE]
<1>1. s.box = Container(version, s.suite, s.pair, s.kem, n, text)
  BY DEF SealedRight
<1>2. Container(version, s.suite, s.pair, s.kem, n, text) =
         [version |-> version, suite |-> s.suite, ct |-> ct, eph |-> eph, nonce |-> n,
          whole |-> TRUE, payload |-> payload]
  <2> HIDE DEF n, text, version
  <2> QED
    BY DEF Container
<1>3. ct = [to |-> s.pair, kem |-> s.kem, n |-> n]
  BY DEF Encapsulated
<1>4. head.version = version /\ head.suite = s.suite /\ head.ct = ct /\ head.eph = eph /\ head.nonce = n
  OBVIOUS
<1>5. payload.sealed = lock /\ payload.sound = TRUE /\ On(PayloadFields, payload)
  BY DEF On, PayloadFields
<1> HIDE DEF n, text, version, ct, eph, head, payload, lock
<1>6. /\ s.box.version = version /\ s.box.suite = s.suite /\ s.box.ct = ct /\ s.box.eph = eph
      /\ s.box.nonce = n /\ s.box.whole = TRUE /\ s.box.payload = payload /\ On(BoxFields, s.box)
  BY <1>1, <1>2 DEF On, BoxFields
<1>7. HeaderAAD(s.box) = HeaderAAD(head)
  BY <1>4, <1>6 DEF HeaderAAD
<1>8. ContentKey(s.box, s.pair, SharedSecret(s.box.ct)) = ContentKey(head, s.pair, SharedSecret(head.ct))
  BY <1>4, <1>6 DEF ContentKey
<1>9. s.box.payload.sealed =
         <<ContentKey(s.box, s.pair, SharedSecret(s.box.ct)), s.box.nonce, HeaderAAD(s.box)>>
  BY <1>5, <1>6, <1>7, <1>8 DEF lock
<1>10. BoxShape(s.box)
  BY <1>5, <1>6 DEF BoxShape
<1> QED
  BY <1>3, <1>5, <1>6, <1>9, <1>10 DEF version, n

\* A container that was sealed opens with a key of its pair, if its implementation is there.
LEMMA SealedOpens ==
    ASSUME NEW s, SealedRight(s), enabled \subseteq ALLOWED_KEM_ALGS, s.kem \in enabled,
           NEW key, key.pair = s.pair, ValidKeyMaterial(key, s.suite, "private")
    PROVE  OpenRefusal(s.box, key, s.suite, enabled) = "none"
<1>1. /\ s.box.version = VersionOf(s.suite) /\ s.box.suite = s.suite
      /\ s.box.ct = [to |-> s.pair, kem |-> s.kem, n |-> s.box.nonce]
      /\ s.box.whole = TRUE /\ s.box.payload.sound = TRUE
      /\ s.box.payload.sealed =
            <<ContentKey(s.box, s.pair, SharedSecret(s.box.ct)), s.box.nonce, HeaderAAD(s.box)>>
  BY SealedParts
<1>2. ContainerRefusal(s.box) = "none"
  <2>1. s.suite \in ALLOWED_KEY_ALGS
    BY DEF SealedRight
  <2>2. s.box.version \in {LEGACY_FORMAT_VERSION, FORMAT_VERSION}
    BY <1>1 DEF VersionOf
  <2>3. s.suite \in (IF VersionOf(s.suite) = FORMAT_VERSION THEN ALLOWED_HYBRID_KEM_ALGS
                     ELSE ALLOWED_KEM_ALGS)
    BY <2>1, Config DEF VersionOf
  <2> QED
    BY <1>1, <2>2, <2>3, ContainerFacts
<1>3. s.kem \in Candidates(s.suite, enabled)
  BY CandidateFacts DEF SealedRight
<1>4. Decapsulated(s.kem, key.pair, s.box.ct) = SharedSecret(s.box.ct)
  BY <1>1 DEF Decapsulated
<1>5. OpensWith(s.box, key.pair, s.kem)
  BY <1>1, <1>4 DEF OpensWith
<1> QED
  BY <1>1, <1>2, <1>3, <1>5, OpenFacts

\* Whatever opens is a container that was sealed, as it was, for this pair.
LEMMA OpenedIsSealed ==
    ASSUME Boxes, BoxRecords, enabled \subseteq ALLOWED_KEM_ALGS, NEW box \in boxes, NEW key, NEW alg,
           OpenRefusal(box, key, alg, enabled) = "none"
    PROVE  \E s \in sealed : s.box = box /\ s.kem \in enabled /\ s.pair = key.pair /\ s.suite = alg
<1>1. /\ ContainerRefusal(box) = "none" /\ alg = box.suite
      /\ \E c \in Candidates(box.suite, enabled) : OpensWith(box, key.pair, c)
  BY OpenFacts
<1>2. PICK c \in Candidates(box.suite, enabled) : OpensWith(box, key.pair, c)
  BY <1>1
<1>3. box.whole = TRUE /\ BoxShape(box) /\ PayloadSealed(box)
  <2>1. BoxShape(box) /\ PayloadSealed(box)
    BY DEF Boxes
  <2>2. box.whole
    BY <1>1, ContainerFacts
  <2> QED
    BY <2>1, <2>2 DEF BoxShape
<1>4. PICK s \in sealed : s.box.payload = box.payload
  <2>1. box.payload.sound = TRUE
    <3>1. box.payload.sound
      BY <1>2 DEF OpensWith
    <3>2. CASE box.payload.sound = TRUE
      BY <3>2
    <3> QED
      BY <3>1
  <2> QED
    BY <1>3, <2>1 DEF PayloadSealed
<1>5. SealedRight(s)
  BY DEF BoxRecords
<1>6. /\ s.box.ct = [to |-> s.pair, kem |-> s.kem, n |-> s.box.nonce]
      /\ s.box.whole = TRUE /\ s.box.suite = s.suite
      /\ s.box.payload.sealed =
            <<ContentKey(s.box, s.pair, SharedSecret(s.box.ct)), s.box.nonce, HeaderAAD(s.box)>>
      /\ BoxShape(s.box)
  BY <1>5, SealedParts
<1> DEFINE mine == ContentKey(box, key.pair, Decapsulated(c, key.pair, box.ct))
           was == ContentKey(s.box, s.pair, SharedSecret(s.box.ct))
<1>7. <<mine, box.nonce, HeaderAAD(box)>> = <<was, s.box.nonce, HeaderAAD(s.box)>>
  <2>1. box.payload.sealed = <<mine, box.nonce, HeaderAAD(box)>>
    BY <1>2 DEF OpensWith
  <2> HIDE DEF mine, was
  <2>2. s.box.payload.sealed = <<was, s.box.nonce, HeaderAAD(s.box)>>
    BY <1>6 DEF was
  <2> QED
    BY <1>4, <2>1, <2>2
<1>8. mine = was /\ HeaderAAD(box) = HeaderAAD(s.box)
  <2> HIDE DEF mine, was
  <2> QED
    BY <1>7
<1>9. /\ box.version = s.box.version /\ box.suite = s.box.suite /\ box.ct = s.box.ct
      /\ box.eph = s.box.eph /\ box.nonce = s.box.nonce
  BY <1>8 DEF HeaderAAD
<1>10. box = s.box
  <2>1. \A f \in BoxFields : box[f] = s.box[f]
    BY <1>3, <1>4, <1>6, <1>9 DEF BoxFields
  <2> QED
    BY <1>3, <1>6, <2>1 DEF BoxShape, On
<1>11. Decapsulated(c, key.pair, box.ct) = SharedSecret(box.ct)
  BY <1>8, <1>9 DEF ContentKey, HybridKey, LegacyKey
<1>12. box.ct.to = key.pair /\ box.ct.kem = c
  <2>1. SUFFICES ASSUME ~(box.ct.to = key.pair /\ box.ct.kem = c) PROVE FALSE
    OBVIOUS
  <2>2. <<"rejection", c, key.pair, box.ct>> = <<"secret", box.ct>>
    BY <1>11, <2>1 DEF Decapsulated, SharedSecret
  <2>3. <<"rejection", c, key.pair, box.ct>>[1] = "rejection" /\ <<"secret", box.ct>>[1] = "secret"
    OBVIOUS
  <2> QED
    BY <2>2, <2>3
<1>13. s.pair = key.pair /\ s.kem = c
  BY <1>6, <1>10, <1>12
<1>14. c \in enabled
  BY CandidateFacts
<1> QED
  BY <1>1, <1>6, <1>10, <1>13, <1>14

-----------------------------------------------------------------------------
\* What refuses a password, and a key file that is to be recovered from or rewrapped.
LEMMA PasswordFacts ==
    ASSUME NEW w
    PROVE  /\ PasswordRefusal(w) = "none" <=> w # NoPassword /\ w \notin Weak
           /\ PasswordRefusal(w) \in {"none", "PasswordRequiredError", "WeakPasswordError"}
<1> DEFINE a == Check(w # NoPassword, "PasswordRequiredError")
           b == Check(w \notin Weak, "WeakPasswordError")
<1>1. /\ PasswordRefusal(w) = FirstRefusal(<<a, b>>)
      /\ a = "none" <=> w # NoPassword
      /\ b = "none" <=> w \notin Weak
      /\ a \in {"none", "PasswordRequiredError"} /\ b \in {"none", "WeakPasswordError"}
  BY DEF PasswordRefusal, Check
<1> HIDE DEF a, b
<1> QED
  BY <1>1, Checks2, FirstNone, FirstIn

\* What refuses to recover or rewrap a key.
MaintenanceErrors == KeyRefusals \cup {"PasswordRequiredError", "AuthenticationFailedError", "WeakPasswordError"}

\* recover_public_key_pem refuses by one of these errors.
LEMMA RecoverFacts ==
    ASSUME NEW pem, NEW w
    PROVE  RecoverRefusal(pem, w) \in {"none"} \cup (MaintenanceErrors \ {"WeakPasswordError"})
<1> DEFINE a == MaintenanceRefusal(pem)
           b == Check(w # NoPassword, "PasswordRequiredError")
           c == Check(LoadedOf("private", pem, w) # {}, "AuthenticationFailedError")
<1>1. /\ RecoverRefusal(pem, w) = FirstRefusal(<<a, b, c>>)
      /\ a \in {"none"} \cup KeyRefusals /\ b \in {"none", "PasswordRequiredError"}
      /\ c \in {"none", "AuthenticationFailedError"}
  BY InspectFacts DEF RecoverRefusal, Check
<1> HIDE DEF a, b, c
<1>2. FirstRefusal(<<a, b, c>>) \in {"none", a, b, c}
  BY Checks3, FirstIn
<1> QED
  BY <1>1, <1>2 DEF MaintenanceErrors, KeyRefusals

\* rewrap_private_key_pem refuses by one of these errors.
LEMMA RewrapFacts ==
    ASSUME NEW pem, NEW current, NEW new
    PROVE  RewrapRefusal(pem, current, new) \in {"none"} \cup MaintenanceErrors
<1> DEFINE a == MaintenanceRefusal(pem)
           b == Check(current # NoPassword, "PasswordRequiredError")
           c == PasswordRefusal(new)
           d == Check(new # current, "WeakPasswordError")
           e == Check(LoadedOf("private", pem, current) # {}, "AuthenticationFailedError")
<1>1. /\ RewrapRefusal(pem, current, new) = FirstRefusal(<<a, b, c, d, e>>)
      /\ a \in {"none"} \cup KeyRefusals /\ b \in {"none", "PasswordRequiredError"}
      /\ c \in {"none", "PasswordRequiredError", "WeakPasswordError"}
      /\ d \in {"none", "WeakPasswordError"} /\ e \in {"none", "AuthenticationFailedError"}
  BY InspectFacts, PasswordFacts DEF RewrapRefusal, Check
<1> HIDE DEF a, b, c, d, e
<1>2. FirstRefusal(<<a, b, c, d, e>>) \in {"none", a, b, c, d, e}
  BY Checks5, FirstIn
<1> QED
  BY <1>1, <1>2 DEF MaintenanceErrors

-----------------------------------------------------------------------------
\* A handler that answers the refusals C by the codes handled has one for each error of
\* the core, and reports a missing backend for no other one.
Covers(handled, C) ==
    /\ C \cap CoreErrors \subseteq DOMAIN handled
    /\ C \cap {"ok", "unexpected_error", "backend_unavailable"} = {}
    /\ \A e \in DOMAIN handled :
          /\ handled[e] \notin {"ok", "unexpected_error", "encryption_failed"}
          /\ handled[e] = "backend_unavailable" => e = "CryptoDependencyError"

\* Such a handler answers "ok" exactly if every check holds, and never "unexpected_error".
LEMMA AnswerFacts ==
    ASSUME NEW handled, NEW C, Covers(handled, C), NEW checks, IsSeq(checks),
           Range(checks) \subseteq {"none"} \cup C
    PROVE  /\ Answer(checks, handled) = "ok" <=> Passes(checks)
           /\ Answer(checks, handled) # "unexpected_error"
           /\ Answer(checks, handled) = "backend_unavailable" => "CryptoDependencyError" \in Range(checks)
           /\ Answer(checks, handled) = "encryption_failed" => FirstRefusal(checks) = "encryption_failed"
<1> DEFINE error == FirstRefusal(checks)
<1>1. Answer(checks, handled) =
          IF error = "none" THEN "ok" ELSE IF error \notin CoreErrors THEN error
          ELSE IF error \in DOMAIN handled THEN handled[error] ELSE "unexpected_error"
  BY DEF Answer
<1>2. /\ error = "none" <=> Passes(checks)
      /\ error \in {"none"} \cup C
      /\ error # "none" => error \in Range(checks)
  BY FirstNone, FirstIn
<1> HIDE DEF error
<1>3. CASE error = "none"
  BY <1>1, <1>2, <1>3
<1>4. CASE error # "none" /\ error \notin CoreErrors
  BY <1>1, <1>2, <1>4 DEF Covers, error
<1>5. CASE error # "none" /\ error \in CoreErrors
  <2>1. error \in DOMAIN handled /\ Answer(checks, handled) = handled[error]
    BY <1>1, <1>2, <1>5 DEF Covers
  <2> QED
    BY <1>2, <1>5, <2>1 DEF Covers
<1> QED
  BY <1>3, <1>4, <1>5

\* The codes of the handlers.
AgentCodes == {"invalid_key", "password_required", "weak_password", "password_too_long", "legacy_public_key",
               "private_key_load_failed"}
\* Every error of the core has a code at the command line.
LEMMA AgentCovers ==
    ASSUME NEW x \in {"private_key_load_failed", "decryption_failed", "verification_failed"}
    PROVE  Covers(_agent_error_from_core(x), CoreErrors \cup AgentCodes)
<1>1. /\ DOMAIN _agent_error_from_core(x) = CoreErrors
      /\ \A e \in DOMAIN _agent_error_from_core(x) :
            /\ _agent_error_from_core(x)[e] \in
                  {"invalid_key", "unsupported_kdf", "unencrypted_private_key", "password_required",
                   "weak_password", "unsupported_algorithm", "invalid_file_format", "backend_unavailable",
                   "recipient_fingerprint_mismatch", x}
            /\ _agent_error_from_core(x)[e] = "backend_unavailable" => e = "CryptoDependencyError"
  BY DEF _agent_error_from_core, CoreErrors
<1> QED
  BY <1>1 DEF Covers, CoreErrors, AgentCodes

ServiceCodes == {"password_required", "field_too_large", "invalid_public_key", "invalid_encrypted_file",
                 "verification_failed", "decryption_failed", "invalid_private_key", "private_key_failed",
                 "legacy_public_key", "recipient_fingerprint_mismatch", "encryption_failed"}
\* The codes of the service cover the errors that its handlers meet.
LEMMA ServiceCovers ==
    /\ Covers(KeyErrors("unsupported_key", <<>>), KeyRefusals)
    /\ Covers(NoBackend, ServiceCodes)
    /\ Covers(KeyErrors("invalid_private_key", NoBackend), KeyRefusals \cup {"CryptoDependencyError"} \cup ServiceCodes)
    /\ Covers(_crypto_workflow_error, KeyRefusals \cup ServiceCodes \cup
                  {"CryptoDependencyError", "PasswordRequiredError", "AuthenticationFailedError"})
    /\ Covers(KeyErrors("invalid_private_key",
               [UnsupportedAlgorithmError |-> "invalid_private_key",
                PasswordRequiredError |-> "password_required", WeakPasswordError |-> "weak_password",
                AuthenticationFailedError |-> "private_key_failed"]), MaintenanceErrors \cup ServiceCodes)
<1>1. Covers(KeyErrors("unsupported_key", <<>>), KeyRefusals)
  BY DEF Covers, KeyErrors, KeyRefusals, CoreErrors
<1>2. Covers(NoBackend, ServiceCodes)
  BY DEF Covers, NoBackend, ServiceCodes, CoreErrors
<1>3. Covers(KeyErrors("invalid_private_key", NoBackend), KeyRefusals \cup {"CryptoDependencyError"} \cup ServiceCodes)
  BY DEF Covers, KeyErrors, NoBackend, KeyRefusals, ServiceCodes, CoreErrors
<1>4. Covers(_crypto_workflow_error, KeyRefusals \cup ServiceCodes \cup
                  {"CryptoDependencyError", "PasswordRequiredError", "AuthenticationFailedError"})
  BY DEF Covers, _crypto_workflow_error, KeyErrors, KeyRefusals, ServiceCodes, CoreErrors
<1>5. Covers(KeyErrors("invalid_private_key",
               [UnsupportedAlgorithmError |-> "invalid_private_key",
                PasswordRequiredError |-> "password_required", WeakPasswordError |-> "weak_password",
                AuthenticationFailedError |-> "private_key_failed"]), MaintenanceErrors \cup ServiceCodes)
  BY DEF Covers, KeyErrors, MaintenanceErrors, KeyRefusals, ServiceCodes, CoreErrors
<1> QED
  BY <1>1, <1>2, <1>3, <1>4, <1>5

\* An answer that has a name of its own.
Proper(answer) ==
    /\ answer # "unexpected_error"
    /\ enabled = ALLOWED_KEM_ALGS => answer \notin {"backend_unavailable", "encryption_failed"}

\* AnswerFacts, for handlers whose checks meet no missing backend when all are enabled.
LEMMA AnswerProper ==
    ASSUME NEW handled, NEW C, Covers(handled, C), NEW checks, IsSeq(checks),
           Range(checks) \subseteq {"none"} \cup C,
           enabled = ALLOWED_KEM_ALGS => "CryptoDependencyError" \notin Range(checks),
           enabled = ALLOWED_KEM_ALGS => FirstRefusal(checks) # "encryption_failed"
    PROVE  /\ Answer(checks, handled) = "ok" <=> Passes(checks)
           /\ Proper(Answer(checks, handled))
  BY AnswerFacts DEF Proper

\* The password fields of the forms and of the environment.
LEMMA FormPassword ==
    ASSUME NEW w
    PROVE  /\ IsSeq(_workflow_password(w))
           /\ Passes(_workflow_password(w)) <=> w # NoPassword /\ w \notin TooLong
           /\ Range(_workflow_password(w)) \subseteq {"none", "password_required", "field_too_large"}
<1> DEFINE a == Check(w # NoPassword, "password_required")
           b == Check(w \notin TooLong, "field_too_large")
<1>1. /\ _workflow_password(w) = <<a, b>>
      /\ a = "none" <=> w # NoPassword
      /\ b = "none" <=> w \notin TooLong
      /\ a \in {"none", "password_required"} /\ b \in {"none", "field_too_large"}
  BY DEF _workflow_password, Check
<1> HIDE DEF a, b
<1> QED
  BY <1>1, Checks2

\* The password variables of the command line.
LEMMA AgentPassword ==
    ASSUME NEW w
    PROVE  /\ IsSeq(_password_from_env(w)) /\ IsSeq(_key_password_from_env(w))
           /\ Passes(_password_from_env(w)) <=> w # NoPassword /\ w \notin Weak
           /\ Range(_password_from_env(w)) \subseteq {"none", "password_required", "weak_password"}
           /\ Range(_key_password_from_env(w)) \subseteq {"none", "password_required", "password_too_long"}
<1> DEFINE a == Check(w # NoPassword, "password_required")
           b == Check(PasswordRefusal(w) = "none", "weak_password")
           c == Check(w \notin TooLong, "password_too_long")
<1>1. /\ _password_from_env(w) = <<a, b>> /\ _key_password_from_env(w) = <<a, c>>
      /\ a = "none" <=> w # NoPassword
      /\ b = "none" <=> PasswordRefusal(w) = "none"
      /\ a \in {"none", "password_required"} /\ b \in {"none", "weak_password"}
      /\ c \in {"none", "password_too_long"}
  BY DEF _password_from_env, _key_password_from_env, Check
<1> HIDE DEF a, b, c
<1> QED
  BY <1>1, Checks2, PasswordFacts

\* Handlers that only look at files.
LEMMA InspectAnswers ==
    ASSUME NEW pem, NEW box
    PROVE  Proper(inspect_key(pem)) /\ Proper(inspect_file(box)) /\ Proper(handle_inspect_file(box))
<1>1. Proper(inspect_key(pem))
  <2> DEFINE a == InspectRefusal(pem)
  <2>1. a \in {"none"} \cup KeyRefusals
    BY InspectFacts
  <2>2. inspect_key(pem) = Answer(<<a>>, KeyErrors("unsupported_key", <<>>))
    BY DEF inspect_key
  <2> HIDE DEF a
  <2>3. IsSeq(<<a>>) /\ Range(<<a>>) = {a}
    BY Checks1
  <2>4. /\ "CryptoDependencyError" \notin Range(<<a>>)
        /\ FirstRefusal(<<a>>) # "encryption_failed"
    BY <2>1, <2>3, FirstIn DEF KeyRefusals
  <2> QED
    BY <2>1, <2>2, <2>3, <2>4, AnswerProper, ServiceCovers
<1>2. Proper(inspect_file(box))
  <2> DEFINE a == _inspect_encrypted_file(box)
  <2>1. a \in {"none", "invalid_encrypted_file"}
    BY DEF _inspect_encrypted_file, Check
  <2>2. inspect_file(box) = Answer(<<a>>, _crypto_workflow_error)
    BY DEF inspect_file
  <2> HIDE DEF a
  <2>3. IsSeq(<<a>>) /\ Range(<<a>>) = {a}
    BY Checks1
  <2>4. /\ "CryptoDependencyError" \notin Range(<<a>>)
        /\ FirstRefusal(<<a>>) # "encryption_failed"
        /\ Range(<<a>>) \subseteq {"none"} \cup (KeyRefusals \cup ServiceCodes \cup
                  {"CryptoDependencyError", "PasswordRequiredError", "AuthenticationFailedError"})
    BY <2>1, <2>3, FirstIn DEF ServiceCodes
  <2> QED
    BY <2>2, <2>3, <2>4, AnswerProper, ServiceCovers
<1>3. Proper(handle_inspect_file(box))
  <2> DEFINE a == ContainerRefusal(box)
  <2>1. a \in {"none", "FileFormatError", "UnsupportedAlgorithmError"}
    BY ContainerFacts
  <2>2. handle_inspect_file(box) = Answer(<<a>>, _agent_error_from_core("private_key_load_failed"))
    BY DEF handle_inspect_file, AgentErrors
  <2> HIDE DEF a
  <2>3. IsSeq(<<a>>) /\ Range(<<a>>) = {a}
    BY Checks1
  <2>4. /\ "CryptoDependencyError" \notin Range(<<a>>)
        /\ FirstRefusal(<<a>>) # "encryption_failed"
        /\ Range(<<a>>) \subseteq {"none"} \cup (CoreErrors \cup AgentCodes)
    BY <2>1, <2>3, FirstIn DEF CoreErrors
  <2> QED
    BY <2>2, <2>3, <2>4, AnswerProper, AgentCovers
<1> QED
  BY <1>1, <1>2, <1>3

\* Handlers that make key files of key files.
LEMMA KeyAnswers ==
    ASSUME NEW pem, NEW w, NEW new, NEW supplied
    PROVE  /\ Proper(change_key_password(pem, w, new)) /\ Proper(handle_change_key_password(pem, w, new))
           /\ Proper(recover_public_key(pem, w, supplied)) /\ Proper(handle_recover_public_key(pem, w, supplied))
<1>1. Proper(change_key_password(pem, w, new))
  <2> DEFINE a == Check(NoPassword \notin {w, new}, "password_required")
             b == Check({w, new} \intersect TooLong = {}, "field_too_large")
             c == RewrapRefusal(pem, w, new)
             handled == KeyErrors("invalid_private_key",
               [UnsupportedAlgorithmError |-> "invalid_private_key",
                PasswordRequiredError |-> "password_required", WeakPasswordError |-> "weak_password",
                AuthenticationFailedError |-> "private_key_failed"])
  <2>1. /\ a \in {"none", "password_required"} /\ b \in {"none", "field_too_large"}
        /\ c \in {"none"} \cup MaintenanceErrors
    BY RewrapFacts DEF Check
  <2>2. change_key_password(pem, w, new) = Answer(<<a, b, c>>, handled)
    BY DEF change_key_password
  <2>3. Covers(handled, MaintenanceErrors \cup ServiceCodes)
    BY ServiceCovers
  <2> HIDE DEF a, b, c, handled
  <2>4. IsSeq(<<a, b, c>>) /\ Range(<<a, b, c>>) = {a, b, c}
    BY Checks3
  <2>5. /\ "CryptoDependencyError" \notin Range(<<a, b, c>>)
        /\ FirstRefusal(<<a, b, c>>) # "encryption_failed"
        /\ Range(<<a, b, c>>) \subseteq {"none"} \cup (MaintenanceErrors \cup ServiceCodes)
    BY <2>1, <2>4, FirstIn DEF ServiceCodes, MaintenanceErrors, KeyRefusals
  <2> QED
    BY <2>2, <2>3, <2>4, <2>5, AnswerProper
<1>2. Proper(handle_change_key_password(pem, w, new))
  <2> DEFINE a == RewrapRefusal(pem, w, new)
             s == _key_password_from_env(w)
             t == _key_password_from_env(new)
  <2>1. /\ a \in {"none"} \cup MaintenanceErrors /\ IsSeq(s) /\ IsSeq(t)
        /\ Range(s) \subseteq {"none", "password_required", "password_too_long"}
        /\ Range(t) \subseteq {"none", "password_required", "password_too_long"}
    BY RewrapFacts, AgentPassword
  <2>2. handle_change_key_password(pem, w, new) =
            Answer((s \o t) \o <<a>>, _agent_error_from_core("private_key_load_failed"))
    BY DEF handle_change_key_password, AgentErrors
  <2> HIDE DEF a, s, t
  <2>3. IsSeq(<<a>>) /\ Range(<<a>>) = {a}
    BY Checks1
  <2>4. IsSeq(s \o t) /\ Range(s \o t) \subseteq Range(s) \cup Range(t)
    BY <2>1, JoinedPass
  <2>5. /\ IsSeq((s \o t) \o <<a>>)
        /\ Range((s \o t) \o <<a>>) \subseteq Range(s \o t) \cup Range(<<a>>)
    BY <2>3, <2>4, JoinedPass
  <2>6. Range((s \o t) \o <<a>>) \subseteq
            {"none", "password_required", "password_too_long"} \cup MaintenanceErrors
    BY <2>1, <2>3, <2>4, <2>5
  <2>7. /\ "CryptoDependencyError" \notin Range((s \o t) \o <<a>>)
        /\ FirstRefusal((s \o t) \o <<a>>) # "encryption_failed"
        /\ Range((s \o t) \o <<a>>) \subseteq {"none"} \cup (CoreErrors \cup AgentCodes)
    BY <2>5, <2>6, FirstIn DEF CoreErrors, AgentCodes, MaintenanceErrors, KeyRefusals
  <2> QED
    BY <2>2, <2>5, <2>7, AnswerProper, AgentCovers
<1>3. Proper(recover_public_key(pem, w, supplied))
  <2> DEFINE a == Check(\A s \in supplied : OneOf(LoadedOf("public", s, NoPassword)), "invalid_public_key")
             b == RecoverRefusal(pem, w)
             t == _workflow_password(w)
  <2>1. /\ a \in {"none", "invalid_public_key"}
        /\ b \in {"none"} \cup (MaintenanceErrors \ {"WeakPasswordError"})
        /\ IsSeq(t) /\ Range(t) \subseteq {"none", "password_required", "field_too_large"}
    BY RecoverFacts, FormPassword DEF Check
  <2>2. recover_public_key(pem, w, supplied) = Answer(t \o <<a, b>>, _crypto_workflow_error)
    BY DEF recover_public_key
  <2> HIDE DEF a, b, t
  <2>3. IsSeq(<<a, b>>) /\ Range(<<a, b>>) = {a, b}
    BY Checks2
  <2>4. IsSeq(t \o <<a, b>>) /\ Range(t \o <<a, b>>) \subseteq Range(t) \cup Range(<<a, b>>)
    BY <2>1, <2>3, JoinedPass
  <2>5. Range(t \o <<a, b>>) \subseteq {"none", "password_required", "field_too_large", "invalid_public_key",
            "PasswordRequiredError", "AuthenticationFailedError"} \cup KeyRefusals
    BY <2>1, <2>3, <2>4 DEF MaintenanceErrors
  <2>6. /\ "CryptoDependencyError" \notin Range(t \o <<a, b>>)
        /\ FirstRefusal(t \o <<a, b>>) # "encryption_failed"
        /\ Range(t \o <<a, b>>) \subseteq {"none"} \cup (KeyRefusals \cup ServiceCodes \cup
                  {"CryptoDependencyError", "PasswordRequiredError", "AuthenticationFailedError"})
    BY <2>4, <2>5, FirstIn DEF ServiceCodes, KeyRefusals
  <2> QED
    BY <2>2, <2>4, <2>6, AnswerProper, ServiceCovers
<1>4. Proper(handle_recover_public_key(pem, w, supplied))
  <2> DEFINE a == Check(\A s \in supplied : OneOf(LoadedOf("public", s, NoPassword)), "invalid_key")
             b == RecoverRefusal(pem, w)
             t == _key_password_from_env(w)
  <2>1. /\ a \in {"none", "invalid_key"}
        /\ b \in {"none"} \cup (MaintenanceErrors \ {"WeakPasswordError"})
        /\ IsSeq(t) /\ Range(t) \subseteq {"none", "password_required", "password_too_long"}
    BY RecoverFacts, AgentPassword DEF Check
  <2>2. handle_recover_public_key(pem, w, supplied) =
            Answer(t \o <<a, b>>, _agent_error_from_core("private_key_load_failed"))
    BY DEF handle_recover_public_key, AgentErrors
  <2> HIDE DEF a, b, t
  <2>3. IsSeq(<<a, b>>) /\ Range(<<a, b>>) = {a, b}
    BY Checks2
  <2>4. IsSeq(t \o <<a, b>>) /\ Range(t \o <<a, b>>) \subseteq Range(t) \cup Range(<<a, b>>)
    BY <2>1, <2>3, JoinedPass
  <2>5. Range(t \o <<a, b>>) \subseteq {"none", "password_required", "password_too_long", "invalid_key",
            "PasswordRequiredError", "AuthenticationFailedError"} \cup KeyRefusals
    BY <2>1, <2>3, <2>4 DEF MaintenanceErrors
  <2>6. /\ "CryptoDependencyError" \notin Range(t \o <<a, b>>)
        /\ FirstRefusal(t \o <<a, b>>) # "encryption_failed"
        /\ Range(t \o <<a, b>>) \subseteq {"none"} \cup (CoreErrors \cup AgentCodes)
    BY <2>4, <2>5, FirstIn DEF CoreErrors, AgentCodes, KeyRefusals
  <2> QED
    BY <2>2, <2>4, <2>6, AnswerProper, AgentCovers
<1> QED
  BY <1>1, <1>2, <1>3, <1>4

-----------------------------------------------------------------------------
\* The container opens with the key of the file.
Opens(box, pem, w) ==
    Unlocked(pem, w) /\ OpenRefusal(box, Opened(pem).key, Opened(pem).alg, enabled) = "none"

\* A private key is loaded exactly if its file unlocks, and then nothing refused the file.
LEMMA LoadedKey ==
    ASSUME NEW pem, PemShape(pem), NEW w
    PROVE  /\ OneOf(LoadedOf("private", pem, w)) <=> Unlocked(pem, w)
           /\ Unlocked(pem, w) => /\ InspectRefusal(pem) = "none" /\ MaintenanceRefusal(pem) = "none"
                                  /\ IsPrivate(pem) /\ w # NoPassword
                                  /\ LoadedOf("private", pem, w) = {Opened(pem)}
<1>1. Unlocked(pem, w) => /\ InspectRefusal(pem) = "none" /\ MaintenanceRefusal(pem) = "none"
                          /\ IsPrivate(pem) /\ w # NoPassword
  BY InspectFacts DEF Unlocked, Unlocks
<1> QED
  BY <1>1, LoadedPrivate DEF OneOf

\* What opens was found to be a container of the key's suite, with a backend.
LEMMA OpensFacts ==
    ASSUME NEW box, NEW pem, NEW w, Opens(box, pem, w)
    PROVE  /\ ContainerRefusal(box) = "none" /\ Opened(pem).alg = box.suite
           /\ Candidates(Opened(pem).alg, enabled) # {}
  BY OpenFacts DEF Opens

\* The last checks of the two handlers that open a container.
LEMMA OpeningFacts ==
    ASSUME NEW box, NEW loaded, NEW failed, failed \notin {"none", "CryptoDependencyError"}
    PROVE  /\ IsSeq(Opening(box, loaded, failed))
           /\ Passes(Opening(box, loaded, failed)) <=>
                 \A l \in loaded : /\ Candidates(l.alg, enabled) # {}
                                   /\ OpenRefusal(box, l.key, l.alg, enabled) = "none"
           /\ Range(Opening(box, loaded, failed)) \subseteq {"none", "CryptoDependencyError", failed}
           /\ enabled = ALLOWED_KEM_ALGS => "CryptoDependencyError" \notin Range(Opening(box, loaded, failed))
<1> DEFINE a == Check(\A l \in loaded : Candidates(l.alg, enabled) # {}, "CryptoDependencyError")
           b == Check(\A l \in loaded : OpenRefusal(box, l.key, l.alg, enabled) = "none", failed)
<1>1. /\ Opening(box, loaded, failed) = <<a, b>>
      /\ a = "none" <=> \A l \in loaded : Candidates(l.alg, enabled) # {}
      /\ b = "none" <=> \A l \in loaded : OpenRefusal(box, l.key, l.alg, enabled) = "none"
      /\ a \in {"none", "CryptoDependencyError"} /\ b \in {"none", failed}
  BY DEF Opening, Check
<1>2. enabled = ALLOWED_KEM_ALGS => \A l \in loaded : Candidates(l.alg, enabled) # {}
  BY CandidateFacts
<1> HIDE DEF a, b
<1>3. IsSeq(<<a, b>>) /\ Range(<<a, b>>) = {a, b} /\ (Passes(<<a, b>>) <=> a = "none" /\ b = "none")
  BY Checks2
<1>4. Passes(<<a, b>>) <=> \A l \in loaded : /\ Candidates(l.alg, enabled) # {}
                                             /\ OpenRefusal(box, l.key, l.alg, enabled) = "none"
  BY <1>1, <1>3
<1>5. enabled = ALLOWED_KEM_ALGS => "CryptoDependencyError" \notin Range(<<a, b>>)
  BY <1>1, <1>2, <1>3
<1> QED
  BY <1>1, <1>3, <1>4, <1>5

\* decrypt_file answers "ok" exactly if the container opens.
LEMMA DecryptFile ==
    ASSUME NEW box, NEW pem, PemShape(pem), NEW w
    PROVE  (decrypt_file(box, pem, w) = "ok" <=> Opens(box, pem, w)) /\ Proper(decrypt_file(box, pem, w))
<1> DEFINE loaded == LoadedOf("private", pem, w)
           a == InspectRefusal(pem)
           b == Check(IsPrivate(pem), "invalid_private_key")
           c == Check(OneOf(loaded), "private_key_failed")
           t == Opening(box, loaded, "decryption_failed")
<1>1. decrypt_file(box, pem, w) = Answer(<<a, b, c>> \o t, KeyErrors("invalid_private_key", NoBackend))
  BY DEF decrypt_file
<1>2. /\ b = "none" <=> IsPrivate(pem)
      /\ c = "none" <=> OneOf(loaded)
      /\ a \in {"none"} \cup KeyRefusals /\ b \in {"none", "invalid_private_key"} /\ c \in {"none", "private_key_failed"}
  BY InspectFacts DEF Check
<1>3. /\ IsSeq(t)
      /\ Passes(t) <=> \A l \in loaded : /\ Candidates(l.alg, enabled) # {}
                                         /\ OpenRefusal(box, l.key, l.alg, enabled) = "none"
      /\ Range(t) \subseteq {"none", "CryptoDependencyError", "decryption_failed"}
      /\ enabled = ALLOWED_KEM_ALGS => "CryptoDependencyError" \notin Range(t)
  BY OpeningFacts
<1>4. a = "none" /\ b = "none" /\ c = "none" /\ Passes(t) <=> Opens(box, pem, w)
  <2>1. ASSUME Opens(box, pem, w) PROVE a = "none" /\ b = "none" /\ c = "none" /\ Passes(t)
    <3>1. Unlocked(pem, w) /\ OneOf(loaded) /\ loaded = {Opened(pem)} /\ IsPrivate(pem) /\ InspectRefusal(pem) = "none"
      BY <2>1, LoadedKey DEF Opens
    <3> QED
      BY <1>2, <1>3, <2>1, <3>1, OpensFacts DEF Opens
  <2>2. ASSUME c = "none", Passes(t) PROVE Opens(box, pem, w)
    <3>1. Unlocked(pem, w) /\ loaded = {Opened(pem)}
      BY <1>2, <2>2, LoadedKey
    <3> QED
      BY <1>3, <2>2, <3>1 DEF Opens
  <2> QED
    BY <2>1, <2>2
<1> HIDE DEF a, b, c, t
<1>5. /\ IsSeq(<<a, b, c>>) /\ Range(<<a, b, c>>) = {a, b, c}
      /\ Passes(<<a, b, c>>) <=> a = "none" /\ b = "none" /\ c = "none"
  BY Checks3
<1> DEFINE u == <<a, b, c>> \o t
<1>6. IsSeq(u) /\ Range(u) \subseteq Range(<<a, b, c>>) \cup Range(t)
      /\ (Passes(u) <=> Passes(<<a, b, c>>) /\ Passes(t))
  BY <1>3, <1>5, JoinedPass
<1> HIDE DEF u
<1>7. /\ Range(u) \subseteq {"none"} \cup (KeyRefusals \cup {"CryptoDependencyError"} \cup ServiceCodes)
      /\ enabled = ALLOWED_KEM_ALGS => "CryptoDependencyError" \notin Range(u)
      /\ "encryption_failed" \notin Range(u)
  BY <1>2, <1>3, <1>5, <1>6 DEF KeyRefusals, ServiceCodes
<1>8. FirstRefusal(u) # "encryption_failed"
  BY <1>6, <1>7, FirstIn
<1>9. /\ Answer(u, KeyErrors("invalid_private_key", NoBackend)) = "ok" <=> Passes(u)
      /\ Proper(Answer(u, KeyErrors("invalid_private_key", NoBackend)))
  BY <1>6, <1>7, <1>8, AnswerProper, ServiceCovers
<1> QED
  BY <1>1, <1>4, <1>5, <1>6, <1>9 DEF u

\* verify_file answers "ok" exactly if the container opens and the password is not too long.
LEMMA VerifyFile ==
    ASSUME NEW box, NEW pem, PemShape(pem), NEW w
    PROVE  /\ verify_file(box, pem, w) = "ok" <=> Opens(box, pem, w) /\ w \notin TooLong
           /\ Proper(verify_file(box, pem, w))
<1> DEFINE loaded == LoadedOf("private", pem, w)
           a == _inspect_encrypted_file(box)
           b == MaintenanceRefusal(pem)
           c == Check(OneOf(loaded), "AuthenticationFailedError")
           d == Check(\A l \in loaded : l.alg = box.suite, "verification_failed")
           s == _workflow_password(w)
           t == Opening(box, loaded, "verification_failed")
<1>1. verify_file(box, pem, w) = Answer((s \o <<a, b, c, d>>) \o t, _crypto_workflow_error)
  BY DEF verify_file
<1>2. /\ a = "none" <=> ContainerRefusal(box) = "none"
      /\ c = "none" <=> OneOf(loaded)
      /\ d = "none" <=> \A l \in loaded : l.alg = box.suite
      /\ a \in {"none", "invalid_encrypted_file"} /\ b \in {"none"} \cup KeyRefusals
      /\ c \in {"none", "AuthenticationFailedError"} /\ d \in {"none", "verification_failed"}
  BY InspectFacts DEF Check, _inspect_encrypted_file
<1>3. /\ IsSeq(t)
      /\ Passes(t) <=> \A l \in loaded : /\ Candidates(l.alg, enabled) # {}
                                         /\ OpenRefusal(box, l.key, l.alg, enabled) = "none"
      /\ Range(t) \subseteq {"none", "CryptoDependencyError", "verification_failed"}
      /\ enabled = ALLOWED_KEM_ALGS => "CryptoDependencyError" \notin Range(t)
  BY OpeningFacts
<1>4. /\ IsSeq(s) /\ (Passes(s) <=> w # NoPassword /\ w \notin TooLong)
      /\ Range(s) \subseteq {"none", "password_required", "field_too_large"}
  BY FormPassword
<1>5. Passes(s) /\ a = "none" /\ b = "none" /\ c = "none" /\ d = "none" /\ Passes(t) <=>
          Opens(box, pem, w) /\ w \notin TooLong
  <2>1. ASSUME Opens(box, pem, w), w \notin TooLong
        PROVE  Passes(s) /\ a = "none" /\ b = "none" /\ c = "none" /\ d = "none" /\ Passes(t)
    <3>1. /\ Unlocked(pem, w) /\ OneOf(loaded) /\ loaded = {Opened(pem)} /\ w # NoPassword
          /\ MaintenanceRefusal(pem) = "none"
      BY <2>1, LoadedKey DEF Opens
    <3> QED
      BY <1>2, <1>3, <1>4, <2>1, <3>1, OpensFacts DEF Opens
  <2>2. ASSUME Passes(s), c = "none", Passes(t) PROVE Opens(box, pem, w) /\ w \notin TooLong
    <3>1. Unlocked(pem, w) /\ loaded = {Opened(pem)}
      BY <1>2, <2>2, LoadedKey
    <3> QED
      BY <1>3, <1>4, <2>2, <3>1 DEF Opens
  <2> QED
    BY <2>1, <2>2
<1> HIDE DEF a, b, c, d, s, t
<1>6. /\ IsSeq(<<a, b, c, d>>) /\ Range(<<a, b, c, d>>) = {a, b, c, d}
      /\ Passes(<<a, b, c, d>>) <=> a = "none" /\ b = "none" /\ c = "none" /\ d = "none"
  BY Checks4
<1> DEFINE u == s \o <<a, b, c, d>>
           v == u \o t
<1>7. /\ IsSeq(u) /\ Range(u) \subseteq Range(s) \cup Range(<<a, b, c, d>>)
      /\ Passes(u) <=> Passes(s) /\ Passes(<<a, b, c, d>>)
  BY <1>4, <1>6, JoinedPass
<1> HIDE DEF u
<1>8. IsSeq(v) /\ Range(v) \subseteq Range(u) \cup Range(t) /\ (Passes(v) <=> Passes(u) /\ Passes(t))
  BY <1>3, <1>7, JoinedPass
<1> HIDE DEF v
<1>9. Range(v) \subseteq {"none", "password_required", "field_too_large", "invalid_encrypted_file",
          "AuthenticationFailedError", "verification_failed"} \cup KeyRefusals \cup Range(t)
  BY <1>2, <1>4, <1>6, <1>7, <1>8
<1>10. /\ Range(v) \subseteq {"none"} \cup (KeyRefusals \cup ServiceCodes \cup
              {"CryptoDependencyError", "PasswordRequiredError", "AuthenticationFailedError"})
       /\ enabled = ALLOWED_KEM_ALGS => "CryptoDependencyError" \notin Range(v)
       /\ "encryption_failed" \notin Range(v)
  BY <1>3, <1>9 DEF KeyRefusals, ServiceCodes
<1>11. FirstRefusal(v) # "encryption_failed"
  BY <1>8, <1>10, FirstIn
<1>12. /\ Answer(v, _crypto_workflow_error) = "ok" <=> Passes(v)
       /\ Proper(Answer(v, _crypto_workflow_error))
  BY <1>8, <1>10, <1>11, AnswerProper, ServiceCovers
<1> QED
  BY <1>1, <1>5, <1>6, <1>7, <1>8, <1>12 DEF u, v

-----------------------------------------------------------------------------
\* A large-file job that opens a container.
LEMMA JobError ==
    ASSUME NEW error, error # "ok"
    PROVE  job_error(error) # "ok"
  BY DEF job_error

\* A job that opens a container succeeds exactly if verify_file would.
LEMMA JobOpen ==
    ASSUME NEW box, NEW pem, PemShape(pem), NEW w
    PROVE  job_open(box, pem, w) = "ok" <=> Opens(box, pem, w) /\ w \notin TooLong
<1> DEFINE loaded == LoadedOf("private", pem, w)
           form == Answer(_workflow_password(w), NoBackend)
           unlocked == job_process("private", pem, w, <<>>)
           l == CHOOSE x \in loaded : TRUE
           opened == job_process("private", pem, w, <<OpenRefusal(box, l.key, l.alg, enabled)>>)
           a == InspectRefusal(pem)
           b == Check(IsPrivate(pem) <=> "private" = "private", "invalid_key")
           c == Check(OneOf(loaded), "private_key_failed")
<1>1. job_open(box, pem, w) = IF form # "ok" THEN form ELSE IF unlocked # "ok" THEN unlocked ELSE opened
  BY DEF job_open
<1>2. form = "ok" <=> w # NoPassword /\ w \notin TooLong
  <2>1. Range(_workflow_password(w)) \subseteq {"none"} \cup ServiceCodes
    BY FormPassword DEF ServiceCodes
  <2> QED
    BY <2>1, FormPassword, AnswerFacts, ServiceCovers
<1>3. ASSUME NEW work, IsSeq(work), "ok" \notin Range(work)
      PROVE  job_process("private", pem, w, work) = "ok" <=> Unlocked(pem, w) /\ Passes(work)
  <2>1. /\ b = "none" <=> IsPrivate(pem)
        /\ c = "none" <=> Unlocked(pem, w)
        /\ a \in {"none"} \cup KeyRefusals /\ b \in {"none", "invalid_key"} /\ c \in {"none", "private_key_failed"}
    BY InspectFacts, LoadedKey DEF Check
  <2>2. job_process("private", pem, w, work) =
            IF FirstRefusal(<<a, b, c>> \o work) = "none" THEN "ok"
            ELSE job_error(FirstRefusal(<<a, b, c>> \o work))
    BY DEF job_process
  <2>3. a = "none" /\ b = "none" /\ c = "none" <=> Unlocked(pem, w)
    BY <2>1, LoadedKey
  <2> HIDE DEF a, b, c
  <2>4. /\ IsSeq(<<a, b, c>>) /\ Range(<<a, b, c>>) = {a, b, c}
        /\ Passes(<<a, b, c>>) <=> a = "none" /\ b = "none" /\ c = "none"
    BY Checks3
  <2> DEFINE u == <<a, b, c>> \o work
  <2>5. IsSeq(u) /\ Range(u) \subseteq Range(<<a, b, c>>) \cup Range(work)
        /\ (Passes(u) <=> Passes(<<a, b, c>>) /\ Passes(work))
    BY <1>3, <2>4, JoinedPass
  <2> HIDE DEF u
  <2>6. "ok" \notin Range(u)
    BY <1>3, <2>1, <2>4, <2>5 DEF KeyRefusals
  <2>7. FirstRefusal(u) # "ok" /\ (FirstRefusal(u) = "none" <=> Passes(u))
    BY <2>5, <2>6, FirstIn, FirstNone
  <2> QED
    BY <2>2, <2>3, <2>4, <2>5, <2>7, JobError DEF u
<1>4. unlocked = "ok" <=> Unlocked(pem, w)
  <2>1. IsSeq(<<>>) /\ "ok" \notin Range(<<>>) /\ Passes(<<>>)
    BY SeqEmpty DEF Range, Passes
  <2> QED
    BY <1>3, <2>1
<1>5. ASSUME Unlocked(pem, w)
      PROVE  opened = "ok" <=> OpenRefusal(box, Opened(pem).key, Opened(pem).alg, enabled) = "none"
  <2>1. loaded = {Opened(pem)}
    BY <1>5, LoadedKey
  <2>2. l = Opened(pem)
    BY <2>1
  <2> HIDE DEF l
  <2> DEFINE e == OpenRefusal(box, l.key, l.alg, enabled)
  <2>3. e # "ok"
    BY OpenFacts DEF OpenRefusals
  <2>4. opened = job_process("private", pem, w, <<e>>)
    OBVIOUS
  <2>5. e = OpenRefusal(box, Opened(pem).key, Opened(pem).alg, enabled)
    BY <2>2
  <2> HIDE DEF e
  <2>6. IsSeq(<<e>>) /\ Range(<<e>>) = {e} /\ (Passes(<<e>>) <=> e = "none")
    BY Checks1
  <2>7. job_process("private", pem, w, <<e>>) = "ok" <=> Unlocked(pem, w) /\ Passes(<<e>>)
    BY <1>3, <2>3, <2>6
  <2> QED
    BY <1>5, <2>4, <2>5, <2>6, <2>7
<1>6. Unlocked(pem, w) => w # NoPassword
  BY LoadedKey
<1> HIDE DEF form, unlocked, opened
<1> QED
  BY <1>1, <1>2, <1>4, <1>5, <1>6 DEF Opens

-----------------------------------------------------------------------------
\* The command line loads a private key only with a password that would do for a new one.
LEMMA RequiredKey ==
    ASSUME NEW pem, PemShape(pem), NEW w
    PROVE  /\ IsSeq(_load_required_private_key(pem, w))
           /\ Passes(_load_required_private_key(pem, w)) <=> Unlocked(pem, w) /\ w \notin Weak
           /\ Range(_load_required_private_key(pem, w)) \subseteq
                  {"none", "invalid_key", "password_required", "weak_password", "private_key_load_failed"}
                  \cup KeyRefusals
<1> DEFINE a == InspectRefusal(pem)
           b == Check(IsPrivate(pem), "invalid_key")
           c == Check(OneOf(LoadedOf("private", pem, w)), "private_key_load_failed")
           s == _password_from_env(w)
<1>1. _load_required_private_key(pem, w) = (<<a, b>> \o s) \o <<c>>
  BY DEF _load_required_private_key
<1>2. /\ b = "none" <=> IsPrivate(pem)
      /\ c = "none" <=> Unlocked(pem, w)
      /\ a \in {"none"} \cup KeyRefusals /\ b \in {"none", "invalid_key"}
      /\ c \in {"none", "private_key_load_failed"}
  BY InspectFacts, LoadedKey DEF Check
<1>3. /\ IsSeq(s)
      /\ Passes(s) <=> w # NoPassword /\ w \notin Weak
      /\ Range(s) \subseteq {"none", "password_required", "weak_password"}
  BY AgentPassword
<1>4. Unlocked(pem, w) => a = "none" /\ b = "none" /\ w # NoPassword
  BY <1>2, LoadedKey
<1> HIDE DEF a, b, c, s
<1>5. /\ IsSeq(<<a, b>>) /\ Range(<<a, b>>) = {a, b} /\ (Passes(<<a, b>>) <=> a = "none" /\ b = "none")
      /\ IsSeq(<<c>>) /\ Range(<<c>>) = {c} /\ (Passes(<<c>>) <=> c = "none")
  BY Checks1, Checks2
<1> DEFINE u == <<a, b>> \o s
<1>6. IsSeq(u) /\ Range(u) \subseteq Range(<<a, b>>) \cup Range(s) /\ (Passes(u) <=> Passes(<<a, b>>) /\ Passes(s))
  BY <1>3, <1>5, JoinedPass
<1> HIDE DEF u
<1> DEFINE v == u \o <<c>>
<1>7. IsSeq(v) /\ Range(v) \subseteq Range(u) \cup Range(<<c>>) /\ (Passes(v) <=> Passes(u) /\ Passes(<<c>>))
  BY <1>5, <1>6, JoinedPass
<1>8. _load_required_private_key(pem, w) = v
  BY <1>1 DEF u
<1> HIDE DEF v
<1>9. Passes(v) <=> Unlocked(pem, w) /\ w \notin Weak
  BY <1>2, <1>3, <1>4, <1>5, <1>6, <1>7
<1>10. Range(v) \subseteq {"none", "invalid_key", "password_required", "weak_password", "private_key_load_failed"}
           \cup KeyRefusals
  BY <1>2, <1>3, <1>5, <1>6, <1>7
<1> QED
  BY <1>7, <1>8, <1>9, <1>10

\* Commands that inspect a key file.
LEMMA HandleInspectKey ==
    ASSUME NEW pem, PemShape(pem), NEW unlock, NEW w
    PROVE  Proper(handle_inspect_key(pem, unlock, w))
<1> DEFINE handled == _agent_error_from_core("private_key_load_failed")
           a == InspectRefusal(pem)
<1>1. ASSUME NEW checks, IsSeq(checks),
             Range(checks) \subseteq {"none", "invalid_key", "password_required", "weak_password",
                                      "private_key_load_failed"} \cup KeyRefusals
      PROVE  Proper(Answer(checks, handled))
  <2> HIDE DEF handled
  <2>1. /\ "CryptoDependencyError" \notin Range(checks)
        /\ FirstRefusal(checks) # "encryption_failed"
        /\ Range(checks) \subseteq {"none"} \cup (CoreErrors \cup AgentCodes)
    BY <1>1, FirstIn DEF CoreErrors, AgentCodes, KeyRefusals
  <2> QED
    BY <1>1, <2>1, AnswerProper, AgentCovers DEF handled
<1>2. Proper(Answer(_load_required_private_key(pem, w), handled))
  <2> HIDE DEF handled
  <2> QED
    BY <1>1, RequiredKey
<1>3. Proper(Answer(<<a>>, handled))
  <2>1. a \in {"none"} \cup KeyRefusals
    BY InspectFacts
  <2> HIDE DEF a, handled
  <2>2. IsSeq(<<a>>) /\ Range(<<a>>) = {a}
    BY Checks1
  <2> QED
    BY <1>1, <2>1, <2>2
<1>4. handle_inspect_key(pem, unlock, w) \in {Answer(_load_required_private_key(pem, w), handled), Answer(<<a>>, handled)}
  BY DEF handle_inspect_key, AgentErrors
<1> HIDE DEF handled, a
<1> QED
  BY <1>2, <1>3, <1>4

\* Commands that open a container, after the checks first.
LEMMA StreamFacts ==
    ASSUME NEW box, NEW pem, PemShape(pem), NEW w, NEW first, IsSeq(first),
           Range(first) \subseteq {"none", "FileFormatError", "UnsupportedAlgorithmError"},
           ContainerRefusal(box) = "none" => Passes(first),
           NEW failed \in {"decryption_failed", "verification_failed"}
    PROVE  /\ StreamOpened(first, box, pem, w, failed) = "ok" <=> Opens(box, pem, w) /\ w \notin Weak
           /\ Proper(StreamOpened(first, box, pem, w, failed))
<1> DEFINE loaded == LoadedOf("private", pem, w)
           key == _load_required_private_key(pem, w)
           d == Check(\A l \in loaded : Candidates(l.alg, enabled) # {}, "CryptoDependencyError")
           chosen == CHOOSE l \in loaded : TRUE
           e == OpenRefusal(box, chosen.key, chosen.alg, enabled)
           errors == _agent_error_from_core(failed)
           u == first \o key
           v == u \o <<d>>
<1>1. StreamOpened(first, box, pem, w, failed) =
          IF Answer(v, errors) # "ok" THEN Answer(v, errors) ELSE Answer(<<e>>, errors)
  BY DEF StreamOpened
<1>2. /\ IsSeq(key)
      /\ Passes(key) <=> Unlocked(pem, w) /\ w \notin Weak
      /\ Range(key) \subseteq {"none", "invalid_key", "password_required", "weak_password",
                               "private_key_load_failed"} \cup KeyRefusals
  BY RequiredKey
<1>3. /\ d = "none" <=> \A l \in loaded : Candidates(l.alg, enabled) # {}
      /\ d \in {"none", "CryptoDependencyError"}
      /\ enabled = ALLOWED_KEM_ALGS => d = "none"
  <2>1. enabled = ALLOWED_KEM_ALGS => \A l \in loaded : Candidates(l.alg, enabled) # {}
    BY CandidateFacts
  <2> QED
    BY <2>1 DEF Check
<1>4. /\ e \in {"none"} \cup OpenRefusals
      /\ enabled = ALLOWED_KEM_ALGS => e # "CryptoDependencyError"
  BY OpenFacts, CandidateFacts
<1>5. Unlocked(pem, w) => /\ loaded = {Opened(pem)}
                          /\ e = OpenRefusal(box, Opened(pem).key, Opened(pem).alg, enabled)
  <2>1. Unlocked(pem, w) => loaded = {Opened(pem)}
    BY LoadedKey
  <2>2. Unlocked(pem, w) => chosen = Opened(pem)
    BY <2>1
  <2> QED
    BY <2>1, <2>2
<1>6. Covers(errors, CoreErrors \cup AgentCodes)
  BY AgentCovers
<1> HIDE DEF d, e, key, errors
<1>7. /\ IsSeq(<<d>>) /\ Range(<<d>>) = {d} /\ (Passes(<<d>>) <=> d = "none")
      /\ IsSeq(<<e>>) /\ Range(<<e>>) = {e} /\ (Passes(<<e>>) <=> e = "none")
  BY Checks1
<1>8. IsSeq(u) /\ Range(u) \subseteq Range(first) \cup Range(key) /\ (Passes(u) <=> Passes(first) /\ Passes(key))
  BY <1>2, JoinedPass
<1> HIDE DEF u
<1>9. IsSeq(v) /\ Range(v) \subseteq Range(u) \cup Range(<<d>>) /\ (Passes(v) <=> Passes(u) /\ Passes(<<d>>))
  BY <1>7, <1>8, JoinedPass
<1> HIDE DEF v
<1>10. /\ Answer(v, errors) = "ok" <=> Passes(v)
       /\ Proper(Answer(v, errors))
  <2>1. Range(v) \subseteq {"none", "FileFormatError", "UnsupportedAlgorithmError", "invalid_key",
            "password_required", "weak_password", "private_key_load_failed", d} \cup KeyRefusals
    BY <1>2, <1>7, <1>8, <1>9
  <2>2. /\ Range(v) \subseteq {"none"} \cup (CoreErrors \cup AgentCodes)
        /\ enabled = ALLOWED_KEM_ALGS => "CryptoDependencyError" \notin Range(v)
        /\ "encryption_failed" \notin Range(v)
    BY <1>3, <2>1 DEF CoreErrors, AgentCodes, KeyRefusals
  <2>3. FirstRefusal(v) # "encryption_failed"
    BY <1>9, <2>2, FirstIn
  <2> QED
    BY <1>6, <1>9, <2>2, <2>3, AnswerProper
<1>11. /\ Answer(<<e>>, errors) = "ok" <=> e = "none"
       /\ Proper(Answer(<<e>>, errors))
  <2>1. /\ Range(<<e>>) \subseteq {"none"} \cup (CoreErrors \cup AgentCodes)
        /\ enabled = ALLOWED_KEM_ALGS => "CryptoDependencyError" \notin Range(<<e>>)
        /\ "encryption_failed" \notin Range(<<e>>)
    BY <1>4, <1>7 DEF CoreErrors, OpenRefusals
  <2>2. FirstRefusal(<<e>>) # "encryption_failed"
    BY <1>7, <2>1, FirstIn
  <2> QED
    BY <1>6, <1>7, <2>1, <2>2, AnswerProper
<1>12. Passes(v) /\ e = "none" <=> Opens(box, pem, w) /\ w \notin Weak
  <2>1. ASSUME Passes(v), e = "none" PROVE Opens(box, pem, w) /\ w \notin Weak
    BY <1>2, <1>5, <1>8, <1>9, <2>1 DEF Opens
  <2>2. ASSUME Opens(box, pem, w), w \notin Weak PROVE Passes(v) /\ e = "none"
    <3>1. Unlocked(pem, w) /\ e = "none" /\ loaded = {Opened(pem)}
      BY <1>5, <2>2 DEF Opens
    <3>2. Passes(first) /\ Candidates(Opened(pem).alg, enabled) # {}
      BY <2>2, OpensFacts
    <3> QED
      BY <1>2, <1>3, <1>7, <1>8, <1>9, <2>2, <3>1, <3>2
  <2> QED
    BY <2>1, <2>2
<1> QED
  BY <1>1, <1>10, <1>11, <1>12

\* decrypt, restore-directory and verify-file of the command line: the container opens and
\* the password would do for a new key.
LEMMA AgentOpens ==
    ASSUME NEW box, NEW pem, PemShape(pem), NEW w
    PROVE  /\ handle_decrypt(box, pem, w) = "ok" <=> Opens(box, pem, w) /\ w \notin Weak
           /\ handle_verify_file(box, pem, w) = "ok" <=> Opens(box, pem, w) /\ w \notin Weak
           /\ Proper(handle_restore_directory(box, pem, w)) /\ Proper(handle_verify_file(box, pem, w))
<1> DEFINE a == ContainerRefusal(box)
<1>1. IsSeq(<<>>) /\ Range(<<>>) = {} /\ Passes(<<>>)
  BY SeqEmpty DEF Range, Passes
<1>2. a \in {"none", "FileFormatError", "UnsupportedAlgorithmError"}
  BY ContainerFacts
<1> HIDE DEF a
<1>3. IsSeq(<<a>>) /\ Range(<<a>>) = {a} /\ (Passes(<<a>>) <=> a = "none")
  BY Checks1
<1>4. /\ StreamOpened(<<>>, box, pem, w, "decryption_failed") = "ok" <=> Opens(box, pem, w) /\ w \notin Weak
      /\ Proper(StreamOpened(<<>>, box, pem, w, "decryption_failed"))
  BY <1>1, StreamFacts
<1>5. /\ StreamOpened(<<a>>, box, pem, w, "verification_failed") = "ok" <=> Opens(box, pem, w) /\ w \notin Weak
      /\ Proper(StreamOpened(<<a>>, box, pem, w, "verification_failed"))
  BY <1>2, <1>3, StreamFacts DEF a
<1> QED
  BY <1>4, <1>5 DEF handle_decrypt, handle_restore_directory, handle_verify_file, a

-----------------------------------------------------------------------------
\* A public key that loads.
LEMMA LoadedPublic ==
    ASSUME NEW pem, PemShape(pem), NEW w, NEW l \in LoadedOf("public", pem, w)
    PROVE  l = Opened(pem) /\ ValidKeyMaterial(l.key, l.alg, "public") /\ l.alg \in ALLOWED_KEY_ALGS
           /\ pem.alg = <<l.alg>>
<1>1. \A k, a : ValidKeyMaterial(k, a, "private") => k.type = "private"
  BY DEF ValidKeyMaterial, Shape, ExpectedShape
<1>2. /\ l = Opened(pem) /\ l.key.type = "public" /\ ParseRefusal(pem) = "none"
      /\ IsPrivate(pem) => ValidKeyMaterial(pem.data[1].key, pem.alg[1], "private")
  BY DEF LoadedOf, Loaded, Opened
<1>3. ~IsPrivate(pem) /\ Parsed(pem)
  BY <1>1, <1>2, ParseFacts DEF Opened
<1>4. PayloadAccepted(pem, "public") /\ ~IsEncrypted(pem)
  BY <1>3 DEF Parsed, IsEncrypted
<1>5. /\ pem.data[1] \in Range(pem.data) /\ pem.alg[1] \in Range(pem.alg)
      /\ pem.alg[1] \in ALLOWED_KEY_ALGS /\ pem.alg = <<pem.alg[1]>>
  BY <1>3, ParsedParts, SeqSingle
<1>6. ValidKeyMaterial(pem.data[1].key, pem.alg[1], "public")
  BY <1>4, <1>5 DEF PayloadAccepted
<1> QED
  BY <1>2, <1>5, <1>6 DEF Opened

\* Encryption answers "ok" only for a recipient that was confirmed.
LEMMA EncryptFile ==
    ASSUME NEW pem, PemShape(pem), NEW expected
    PROVE  /\ encrypt_file(pem, expected) = "ok" => Confirmed(pem, expected)
           /\ Proper(encrypt_file(pem, expected))
<1> DEFINE loaded == LoadedOf("public", pem, NoPassword)
           a == Check(OneOf(loaded), "invalid_public_key")
           b == Check(\A l \in loaded : l.alg = HYBRID_KEM_ALG, "legacy_public_key")
           c == Check(Confirmed(pem, expected), "recipient_fingerprint_mismatch")
           d == Check(\A l \in loaded : Encrypted(l.key, l.alg, enabled, 0, "") # {}, "encryption_failed")
<1>1. encrypt_file(pem, expected) = Answer(<<a, b, c, d>>, NoBackend)
  BY DEF encrypt_file
<1>2. /\ c = "none" <=> Confirmed(pem, expected)
      /\ a \in {"none", "invalid_public_key"} /\ b \in {"none", "legacy_public_key"}
      /\ c \in {"none", "recipient_fingerprint_mismatch"} /\ d \in {"none", "encryption_failed"}
  BY DEF Check
<1>3. enabled = ALLOWED_KEM_ALGS /\ b = "none" => d = "none"
  <2>1. SUFFICES ASSUME enabled = ALLOWED_KEM_ALGS, b = "none", NEW l \in loaded
                 PROVE  Encrypted(l.key, l.alg, enabled, 0, "") # {}
    BY DEF Check
  <2>2. l.alg = HYBRID_KEM_ALG
    BY <2>1 DEF Check
  <2>3. ValidKeyMaterial(l.key, l.alg, "public")
    BY LoadedPublic
  <2>4. KEM_ALG \in enabled
    BY <2>1, Config
  <2> QED
    BY <2>2, <2>3, <2>4 DEF Encrypted
<1> HIDE DEF a, b, c, d
<1> DEFINE u == <<a, b, c, d>>
<1>4. /\ IsSeq(u) /\ Range(u) = {a, b, c, d}
      /\ Passes(u) <=> a = "none" /\ b = "none" /\ c = "none" /\ d = "none"
  BY Checks4
<1>5. Len(u) = 4 /\ u[1] = a /\ u[2] = b /\ u[3] = c /\ u[4] = d
  OBVIOUS
<1> HIDE DEF u
<1>6. enabled = ALLOWED_KEM_ALGS => FirstRefusal(u) # "encryption_failed"
  <2>1. SUFFICES ASSUME enabled = ALLOWED_KEM_ALGS, FirstRefusal(u) = "encryption_failed" PROVE FALSE
    OBVIOUS
  <2>2. ~Passes(u)
    BY <1>4, <2>1, FirstNone
  <2>3. PICK i \in 1..Len(u) : u[i] = "encryption_failed" /\ \A j \in 1..Len(u) : j < i => u[j] = "none"
    BY <1>4, <2>1, <2>2, FirstFails
  <2>4. i \in {1, 2, 3, 4}
    BY <1>5
  <2>5. i = 4
    BY <1>2, <1>5, <2>3, <2>4
  <2>6. b = "none" /\ d = "encryption_failed"
    BY <1>5, <2>3, <2>5
  <2> QED
    BY <1>3, <2>1, <2>6
<1>7. Range(u) \subseteq {"none"} \cup ServiceCodes /\ "CryptoDependencyError" \notin Range(u)
  BY <1>2, <1>4 DEF ServiceCodes
<1>8. /\ Answer(u, NoBackend) = "ok" <=> Passes(u)
      /\ Proper(Answer(u, NoBackend))
  BY <1>4, <1>6, <1>7, AnswerProper, ServiceCovers
<1> QED
  BY <1>1, <1>2, <1>4, <1>8 DEF u

\* encrypt and backup-directory of the command line.
LEMMA HandleEncrypt ==
    ASSUME NEW pem, NEW expected, NEW otherKey \in {"invalid_key", "legacy_public_key"}
    PROVE  /\ handle_encrypt(pem, expected, otherKey) = "ok" => Confirmed(pem, expected)
           /\ Proper(handle_encrypt(pem, expected, otherKey))
<1> DEFINE loaded == LoadedOf("public", pem, NoPassword)
           a == Check(OneOf(loaded), "invalid_key")
           b == Check(\A l \in loaded : l.alg = HYBRID_KEM_ALG, otherKey)
           c == Check(Confirmed(pem, expected), "RecipientFingerprintMismatchError")
           d == Check(KEM_ALG \in enabled, "CryptoDependencyError")
           handled == _agent_error_from_core("private_key_load_failed")
<1>1. handle_encrypt(pem, expected, otherKey) = Answer(<<a, b, c, d>>, handled)
  BY DEF handle_encrypt, AgentErrors
<1>2. /\ c = "none" <=> Confirmed(pem, expected)
      /\ a \in {"none", "invalid_key"} /\ b \in {"none", "invalid_key", "legacy_public_key"}
      /\ c \in {"none", "RecipientFingerprintMismatchError"} /\ d \in {"none", "CryptoDependencyError"}
      /\ enabled = ALLOWED_KEM_ALGS => d = "none"
  BY Config DEF Check
<1>3. Covers(handled, CoreErrors \cup AgentCodes)
  BY AgentCovers
<1> HIDE DEF a, b, c, d, handled
<1> DEFINE u == <<a, b, c, d>>
<1>4. /\ IsSeq(u) /\ Range(u) = {a, b, c, d}
      /\ Passes(u) <=> a = "none" /\ b = "none" /\ c = "none" /\ d = "none"
  BY Checks4
<1> HIDE DEF u
<1>5. /\ Range(u) \subseteq {"none"} \cup (CoreErrors \cup AgentCodes)
      /\ enabled = ALLOWED_KEM_ALGS => "CryptoDependencyError" \notin Range(u)
      /\ "encryption_failed" \notin Range(u)
  BY <1>2, <1>4 DEF CoreErrors, AgentCodes
<1>6. FirstRefusal(u) # "encryption_failed"
  BY <1>4, <1>5, FirstIn
<1>7. /\ Answer(u, handled) = "ok" <=> Passes(u)
      /\ Proper(Answer(u, handled))
  BY <1>3, <1>4, <1>5, <1>6, AnswerProper
<1> QED
  BY <1>1, <1>2, <1>4, <1>7 DEF u

\* A job that encrypts.
LEMMA JobEncrypt ==
    ASSUME NEW pem, NEW expected, job_encrypt(pem, expected) = "ok"
    PROVE  Confirmed(pem, expected)
<1> DEFINE a == InspectRefusal(pem)
           b == Check(IsPrivate(pem) <=> "public" = "private", "invalid_key")
           c == Check(OneOf(LoadedOf("public", pem, NoPassword)), "private_key_failed")
           d == Check(Confirmed(pem, expected), "RecipientFingerprintMismatchError")
           e == Check(pem.alg = <<HYBRID_KEM_ALG>>, "UnsupportedAlgorithmError")
           f == Check(KEM_ALG \in enabled, "CryptoDependencyError")
           u == <<a, b, c>> \o <<d, e, f>>
<1>1. IF FirstRefusal(u) = "none" THEN TRUE ELSE job_error(FirstRefusal(u)) = "ok"
  BY DEF job_encrypt, job_process
<1>2. /\ d = "none" <=> Confirmed(pem, expected)
      /\ a \in {"none"} \cup KeyRefusals /\ "ok" \notin {b, c, d, e, f}
  BY InspectFacts DEF Check
<1> HIDE DEF a, b, c, d, e, f
<1>3. /\ IsSeq(<<a, b, c>>) /\ Range(<<a, b, c>>) = {a, b, c}
      /\ IsSeq(<<d, e, f>>) /\ Range(<<d, e, f>>) = {d, e, f} /\ (Passes(<<d, e, f>>) => d = "none")
  BY Checks3
<1>4. /\ IsSeq(u) /\ Range(u) \subseteq Range(<<a, b, c>>) \cup Range(<<d, e, f>>)
      /\ Passes(u) => Passes(<<d, e, f>>)
  BY <1>3, JoinedPass
<1> HIDE DEF u
<1>5. "ok" \notin Range(u)
  BY <1>2, <1>3, <1>4 DEF KeyRefusals
<1>6. FirstRefusal(u) # "ok" /\ (FirstRefusal(u) = "none" <=> Passes(u))
  BY <1>4, <1>5, FirstIn, FirstNone
<1> QED
  BY <1>1, <1>2, <1>3, <1>4, <1>6, JobError

-----------------------------------------------------------------------------
\* What opens was sealed for a pair whose key file was written for this password, and
\* the other way round.
LEMMA OpensIff ==
    ASSUME KeyInv, NEW box \in boxes, NEW pem \in pems, NEW w
    PROVE  Opens(box, pem, w) <=> Openable(box, pem, w)
<1>1. PemShape(pem) /\ enabled \subseteq ALLOWED_KEM_ALGS
  BY DEF KeyInv, KeyFiles
<1>2. ASSUME Opens(box, pem, w) PROVE Openable(box, pem, w)
  <2>1. PICK r \in written : /\ r.pem = pem /\ r.password = w
                             /\ r.pair = Opened(pem).key.pair /\ r.suite = Opened(pem).alg
    BY <1>2, UnlockedIsWritten DEF Opens, KeyInv
  <2>2. PICK s \in sealed : /\ s.box = box /\ s.kem \in enabled
                            /\ s.pair = Opened(pem).key.pair /\ s.suite = Opened(pem).alg
    BY <1>1, <1>2, OpenedIsSealed DEF Opens, KeyInv
  <2>3. w # NoPassword
    BY <1>1, <1>2, LoadedKey DEF Opens
  <2> QED
    BY <2>1, <2>2, <2>3 DEF Openable
<1>3. ASSUME Openable(box, pem, w) PROVE Opens(box, pem, w)
  <2>1. PICK s \in sealed, r \in written :
            /\ s.box = box /\ s.kem \in enabled
            /\ r.pem = pem /\ r.password = w /\ r.pair = s.pair /\ r.suite = s.suite
    BY <1>3 DEF Openable
  <2>2. WrittenRight(r) /\ SealedRight(s)
    BY DEF KeyInv, KeyRecords, BoxRecords
  <2>3. Unlocked(pem, w) /\ Opened(pem).key.pair = s.pair /\ Opened(pem).alg = s.suite
    BY <2>1, <2>2, WrittenUnlocks
  <2>4. ValidKeyMaterial(Opened(pem).key, s.suite, "private")
    BY <2>3 DEF Unlocked, Opened
  <2>5. OpenRefusal(s.box, Opened(pem).key, s.suite, enabled) = "none"
    BY <1>1, <2>1, <2>2, <2>3, <2>4, SealedOpens
  <2> QED
    BY <2>1, <2>3, <2>5 DEF Opens
<1> QED
  BY <1>2, <1>3

\* OpensExactly follows from the invariant.
LEMMA OpensExactlyHolds ==
    ASSUME KeyInv
    PROVE  OpensExactly
<1> SUFFICES ASSUME NEW box \in boxes, NEW pem \in pems, NEW w \in Password
             PROVE  LET opens == Openable(box, pem, w)
                    IN /\ (decrypt_file(box, pem, w) = "ok") <=> opens
                       /\ (verify_file(box, pem, w) = "ok") <=> (opens /\ w \notin TooLong)
                       /\ (job_open(box, pem, w) = "ok") <=> (opens /\ w \notin TooLong)
                       /\ (handle_decrypt(box, pem, w) = "ok") <=> (opens /\ w \notin Weak)
                       /\ (handle_verify_file(box, pem, w) = "ok") <=> (opens /\ w \notin Weak)
  BY DEF OpensExactly
<1>1. PemShape(pem)
  BY DEF KeyInv, KeyFiles
<1> QED
  BY <1>1, OpensIff, DecryptFile, VerifyFile, JobOpen, AgentOpens

\* The records of a container, whatever it was sealed for.
LEMMA SealedAsRight ==
    ASSUME NEW suite \in ALLOWED_KEY_ALGS, NEW kem \in Candidates(suite, ALLOWED_KEM_ALGS),
           NEW pair, NEW n, NEW text, NEW t, NEW confirmed,
           confirmed # {} => confirmed = {<<suite, pair>>} /\ kem \in enabled,
           NEW box, box = Container(VersionOf(suite), suite, pair, kem, n, text)
    PROVE  SealedRight(SealedAs(box, pair, suite, kem, t, confirmed))
<1> DEFINE s == SealedAs(box, pair, suite, kem, t, confirmed)
<1>1. s.box = box /\ s.pair = pair /\ s.suite = suite /\ s.kem = kem /\ s.confirmed = confirmed
  BY DEF SealedAs
<1>2. box.nonce = n /\ box.payload.text = text
  BY DEF Container
<1> HIDE DEF s
<1>3. s.box = Container(VersionOf(s.suite), s.suite, s.pair, s.kem, s.box.nonce, s.box.payload.text)
  BY <1>1, <1>2
<1>4. SealedRight(s)
  BY <1>1, <1>3 DEF SealedRight
<1> QED
  BY <1>4 DEF s

\* What is encrypted for a loaded key is sealed for its pair, by the current suite.
LEMMA EncryptedFacts ==
    ASSUME NEW key, NEW alg, NEW n, NEW text, NEW t, NEW confirmed, enabled \subseteq ALLOWED_KEM_ALGS,
           NEW box \in Encrypted(key, alg, enabled, n, text),
           confirmed # {} => confirmed = {<<alg, key.pair>>}
    PROVE  /\ SealedRight(SealedAs(box, key.pair, alg, KEM_ALG, t, confirmed))
           /\ alg = HYBRID_KEM_ALG /\ KEM_ALG \in enabled
<1>1. /\ alg = HYBRID_KEM_ALG /\ KEM_ALG \in enabled
      /\ box = Container(FORMAT_VERSION, HYBRID_KEM_ALG, key.pair, KEM_ALG, n, text)
  BY DEF Encrypted
<1>2. /\ VersionOf(HYBRID_KEM_ALG) = FORMAT_VERSION /\ HYBRID_KEM_ALG \in ALLOWED_KEY_ALGS
      /\ KEM_ALG \in Candidates(HYBRID_KEM_ALG, ALLOWED_KEM_ALGS)
  BY Config DEF VersionOf, Candidates
<1> QED
  BY <1>1, <1>2, SealedAsRight

\* ConfirmedRecipientOpens follows from the invariant: what was confirmed is recorded with
\* the container, and a fingerprint names the pair and its suite.
LEMMA ConfirmedHolds ==
    ASSUME KeyInv
    PROVE  ConfirmedRecipientOpens
<1>1. ASSUME NEW s \in sealed, NEW r \in written, s.confirmed = {Fingerprint([pair |-> r.pair], r.suite)}
      PROVE  decrypt_file(s.box, r.pem, r.password) = "ok"
  <2>1. WrittenRight(r) /\ SealedRight(s) /\ enabled \subseteq ALLOWED_KEM_ALGS
    BY DEF KeyInv, KeyRecords, BoxRecords
  <2>2. s.suite = r.suite /\ s.pair = r.pair /\ s.kem \in enabled
    <3>1. s.confirmed = {<<r.suite, r.pair>>}
      BY <1>1 DEF Fingerprint
    <3>2. s.confirmed # {}
      BY <3>1
    <3>3. s.confirmed = {<<s.suite, s.pair>>} /\ s.kem \in enabled
      BY <2>1, <3>2 DEF SealedRight
    <3>4. <<s.suite, s.pair>> = <<r.suite, r.pair>>
      BY <3>1, <3>3
    <3> QED
      BY <3>3, <3>4
  <2>3. /\ PemShape(r.pem) /\ Unlocked(r.pem, r.password)
        /\ Opened(r.pem).key.pair = s.pair /\ Opened(r.pem).alg = s.suite
    BY <2>1, <2>2, WrittenUnlocks
  <2>4. ValidKeyMaterial(Opened(r.pem).key, s.suite, "private")
    BY <2>3 DEF Unlocked, Opened
  <2>5. OpenRefusal(s.box, Opened(r.pem).key, s.suite, enabled) = "none"
    BY <2>1, <2>2, <2>3, <2>4, SealedOpens
  <2>6. Opens(s.box, r.pem, r.password)
    BY <2>3, <2>5 DEF Opens
  <2> QED
    BY <2>3, <2>6, DecryptFile
<1>2. ASSUME NEW r \in written, NEW pem \in pems, matches_supplied(r.pem, r.password, pem),
             NEW l \in LoadedOf("public", pem, NoPassword),
             NEW box \in Encrypted(l.key, l.alg, enabled, 0, "")
      PROVE  decrypt_file(box, r.pem, r.password) = "ok"
  <2>1. /\ WrittenRight(r) /\ PemShape(pem) /\ enabled \subseteq ALLOWED_KEM_ALGS
    BY DEF KeyInv, KeyRecords, KeyFiles
  <2>2. /\ PemShape(r.pem) /\ Unlocked(r.pem, r.password)
        /\ Opened(r.pem).key = r.pem.data[1].key
        /\ LoadedOf("private", r.pem, r.password) = {Opened(r.pem)}
    BY <2>1, WrittenUnlocks, LoadedKey DEF Opened
  <2> DEFINE mine == Opened(r.pem)
             s == SealedAs(box, l.key.pair, l.alg, KEM_ALG, "", {})
  <2>3. Fingerprint(PublicFromPrivate(mine.key), mine.alg) = Fingerprint(l.key, l.alg)
    <3>1. PICK p \in LoadedOf("private", r.pem, r.password), q \in LoadedOf("public", pem, NoPassword) :
              Fingerprint(PublicFromPrivate(p.key), p.alg) = Fingerprint(q.key, q.alg)
      BY <1>2 DEF matches_supplied
    <3>2. p = mine
      BY <2>2
    <3>3. q = Opened(pem) /\ l = Opened(pem)
      BY <2>1, LoadedPublic
    <3> HIDE DEF mine
    <3> QED
      BY <3>1, <3>2, <3>3
  <2>4. PublicFromPrivate(mine.key).pair = mine.key.pair
    <3>1. On(KeyFields, mine.key)
      BY <2>1, <2>2 DEF WrittenRight
    <3> HIDE DEF mine
    <3> QED
      BY <3>1 DEF PublicFromPrivate, On, KeyFields
  <2>5. mine.alg = l.alg /\ mine.key.pair = l.key.pair
    <3> HIDE DEF mine
    <3> QED
      BY <2>3, <2>4 DEF Fingerprint
  <2>6. /\ SealedRight(s) /\ KEM_ALG \in enabled
        /\ s.box = box /\ s.kem = KEM_ALG /\ s.pair = mine.key.pair /\ s.suite = mine.alg
    BY <2>1, <2>5, EncryptedFacts DEF SealedAs
  <2>7. ValidKeyMaterial(mine.key, mine.alg, "private")
    BY <2>2 DEF Unlocked, Opened
  <2> HIDE DEF s, mine
  <2>8. OpenRefusal(s.box, mine.key, s.suite, enabled) = "none"
    BY <2>1, <2>6, <2>7, SealedOpens
  <2>9. Opens(box, r.pem, r.password)
    BY <2>2, <2>6, <2>8 DEF Opens, mine
  <2> QED
    BY <2>2, <2>9, DecryptFile
<1> QED
  BY <1>1, <1>2 DEF ConfirmedRecipientOpens

\* RefusedByName follows from the invariant, handler by handler.
LEMMA RefusedByNameHolds ==
    ASSUME KeyInv
    PROVE  RefusedByName
<1> DEFINE A == UNION {{inspect_key(pem), encrypt_file(pem, {}), handle_backup_directory(pem, {}),
                        handle_encrypt(pem, {}, "legacy_public_key")} : pem \in pems}
           B == UNION {{change_key_password(pem, w, w), recover_public_key(pem, w, {pem}),
                        handle_inspect_key(pem, TRUE, w), handle_change_key_password(pem, w, w),
                        handle_recover_public_key(pem, w, {pem})} : pem \in pems, w \in Password}
           C == UNION {{inspect_file(box), handle_inspect_file(box)} : box \in boxes}
           D == UNION {{verify_file(box, pem, w), decrypt_file(box, pem, w),
                        handle_verify_file(box, pem, w), handle_restore_directory(box, pem, w)}
                       : box \in boxes, pem \in pems, w \in Password}
<1>1. \A pem \in pems : PemShape(pem)
  BY DEF KeyInv, KeyFiles
<1>2. \A a \in A : Proper(a)
  <2>1. SUFFICES ASSUME NEW pem \in pems,
                        NEW a \in {inspect_key(pem), encrypt_file(pem, {}), handle_backup_directory(pem, {}),
                                   handle_encrypt(pem, {}, "legacy_public_key")}
                 PROVE  Proper(a)
    OBVIOUS
  <2>2. PemShape(pem)
    BY <1>1
  <2> QED
    BY <2>2, InspectAnswers, EncryptFile, HandleEncrypt DEF handle_backup_directory
<1>3. \A a \in B : Proper(a)
  <2>1. SUFFICES ASSUME NEW pem \in pems, NEW w \in Password,
                        NEW a \in {change_key_password(pem, w, w), recover_public_key(pem, w, {pem}),
                                   handle_inspect_key(pem, TRUE, w), handle_change_key_password(pem, w, w),
                                   handle_recover_public_key(pem, w, {pem})}
                 PROVE  Proper(a)
    <3> DEFINE codes(pem, w) ==
                  {change_key_password(pem, w, w), recover_public_key(pem, w, {pem}),
                   handle_inspect_key(pem, TRUE, w), handle_change_key_password(pem, w, w),
                   handle_recover_public_key(pem, w, {pem})}
    <3>1. B = UNION {codes(pem, w) : pem \in pems, w \in Password}
      OBVIOUS
    <3> HIDE DEF codes, B
    <3>2. \A a \in B : \E pem \in pems, w \in Password : a \in codes(pem, w)
      BY <3>1
    <3> QED
      BY <3>2 DEF codes
  <2>2. PemShape(pem)
    BY <1>1
  <2> QED
    BY <2>2, KeyAnswers, HandleInspectKey
<1>4. \A a \in C : Proper(a)
  BY InspectAnswers
<1>5. \A a \in D : Proper(a)
  <2>1. SUFFICES ASSUME NEW box \in boxes, NEW pem \in pems, NEW w \in Password,
                        NEW a \in {verify_file(box, pem, w), decrypt_file(box, pem, w),
                                   handle_verify_file(box, pem, w), handle_restore_directory(box, pem, w)}
                 PROVE  Proper(a)
    OBVIOUS
  <2>2. PemShape(pem)
    BY <1>1
  <2> QED
    BY <2>2, VerifyFile, DecryptFile, AgentOpens
<1> DEFINE answers == ((A \union B) \union C) \union D
<1>6. RefusedByName <=> /\ "unexpected_error" \notin answers
                        /\ enabled = ALLOWED_KEM_ALGS =>
                              answers \intersect {"backend_unavailable", "encryption_failed"} = {}
  BY DEF RefusedByName
<1> HIDE DEF A, B, C, D
<1>7. \A a \in answers : Proper(a)
  BY <1>2, <1>3, <1>4, <1>5
<1> HIDE DEF answers
<1> QED
  BY <1>6, <1>7 DEF Proper

-----------------------------------------------------------------------------
\* A line of the kind f that a key file may have.
LockWritten(d) == d.lock # <<>> /\ d.sound = TRUE => \E r \in written : r.pem.data = <<d>>
GoodLine(f, s) ==
    /\ IsSeq(s)
    /\ f = "proc" => Range(s) \subseteq {"ENCRYPTED"}
    /\ f = "data" => \A d \in Range(s) : On(DataFields, d) /\ LockWritten(d)

\* A key file is as the invariant says exactly if each of its lines is.
LEMMA FileLines ==
    ASSUME NEW pem
    PROVE  PemShape(pem) /\ LocksAreWritten(pem) <=>
              On(PemFields, pem) /\ \A f \in PemFields : GoodLine(f, pem[f])
<1>1. ASSUME PemShape(pem), LocksAreWritten(pem)
      PROVE  On(PemFields, pem) /\ \A f \in PemFields : GoodLine(f, pem[f])
  <2>1. /\ On(PemFields, pem)
        /\ \A f \in PemFields : IsSeq(pem[f])
        /\ Range(pem.proc) \subseteq {"ENCRYPTED"}
        /\ \A i \in 1..Len(pem.data) : On(DataFields, pem.data[i])
    BY <1>1 DEF PemShape
  <2>2. \A d \in Range(pem.data) : On(DataFields, d) /\ LockWritten(d)
    <3>1. SUFFICES ASSUME NEW i \in DOMAIN pem.data
                   PROVE  On(DataFields, pem.data[i]) /\ LockWritten(pem.data[i])
      BY DEF Range
    <3>2. i \in 1..Len(pem.data)
      BY <2>1, SeqFacts DEF PemFields
    <3> QED
      BY <1>1, <2>1, <3>2 DEF LocksAreWritten, LockWritten
  <2> QED
    BY <2>1, <2>2 DEF GoodLine
<1>2. ASSUME On(PemFields, pem), \A f \in PemFields : GoodLine(f, pem[f])
      PROVE  PemShape(pem) /\ LocksAreWritten(pem)
  <2>1. GoodLine("proc", pem.proc) /\ GoodLine("data", pem.data) /\ \A f \in PemFields : IsSeq(pem[f])
    BY <1>2 DEF GoodLine, PemFields
  <2>2. \A i \in 1..Len(pem.data) : On(DataFields, pem.data[i]) /\ LockWritten(pem.data[i])
    BY <2>1, SeqFacts DEF GoodLine
  <2>3. Range(pem.proc) \subseteq {"ENCRYPTED"}
    BY <2>1 DEF GoodLine
  <2> QED
    BY <1>2, <2>1, <2>2, <2>3 DEF PemShape, LocksAreWritten, LockWritten
<1> QED
  BY <1>1, <1>2

\* Replacing a line by one that a key file may have.
LEMMA LineReplaced ==
    ASSUME NEW pem, PemShape(pem), LocksAreWritten(pem), NEW f \in PemFields, NEW s, GoodLine(f, s)
    PROVE  PemShape([pem EXCEPT ![f] = s]) /\ LocksAreWritten([pem EXCEPT ![f] = s])
<1> DEFINE e == [pem EXCEPT ![f] = s]
<1>1. On(PemFields, pem) /\ \A g \in PemFields : GoodLine(g, pem[g])
  BY FileLines
<1>2. On(PemFields, e) /\ e[f] = s /\ \A g \in PemFields \ {f} : e[g] = pem[g]
  BY <1>1 DEF On
<1> HIDE DEF e
<1>3. \A g \in PemFields : GoodLine(g, e[g])
  BY <1>1, <1>2
<1>4. PemShape(e) /\ LocksAreWritten(e)
  BY <1>2, <1>3, FileLines
<1> QED
  BY <1>4 DEF e

\* The lines that an edit puts into a file.
LEMMA LinesOfEdits ==
    ASSUME NEW f \in PemFields
    PROVE  /\ GoodLine(f, <<>>)
           /\ \A s : GoodLine(f, s) => GoodLine(f, s \o s)
           /\ f \notin {"proc", "data"} => \A a : GoodLine(f, <<a>>)
<1>1. GoodLine(f, <<>>)
  <2>1. Range(<<>>) = {}
    BY DEF Range
  <2> QED
    BY <2>1, SeqEmpty DEF GoodLine
<1>2. ASSUME NEW s, GoodLine(f, s) PROVE GoodLine(f, s \o s)
  <2>1. IsSeq(s)
    BY <1>2 DEF GoodLine
  <2>2. IsSeq(s \o s) /\ Range(s \o s) \subseteq Range(s)
    BY <2>1, JoinedPass
  <2> QED
    BY <1>2, <2>2 DEF GoodLine
<1>3. ASSUME f \notin {"proc", "data"}, NEW a PROVE GoodLine(f, <<a>>)
  BY <1>3, SeqSingle DEF GoodLine
<1> QED
  BY <1>1, <1>2, <1>3

\* Damaged data is not what was written, whatever it was.
LEMMA DataDamaged ==
    ASSUME NEW s, GoodLine("data", s), NEW i \in DOMAIN s
    PROVE  GoodLine("data", [s EXCEPT ![i] = Damaged(s[i])])
<1> DEFINE d == Damaged(s[i])
           t == [s EXCEPT ![i] = d]
<1>1. IsSeq(s) /\ \A x \in Range(s) : On(DataFields, x) /\ LockWritten(x)
  BY DEF GoodLine
<1>2. Len(s) \in Nat /\ DOMAIN s = 1..Len(s) /\ s[i] \in Range(s)
  BY <1>1, SeqFacts
<1>3. On(DataFields, d) /\ d.sound = FALSE
  BY <1>1, <1>2 DEF On, DataFields, Damaged
<1>4. LockWritten(d)
  BY <1>3 DEF LockWritten
<1> HIDE DEF d
<1>5. t = [j \in 1..Len(s) |-> t[j]] /\ \A x \in Range(t) : x = d \/ x \in Range(s)
  BY <1>2 DEF Range
<1> HIDE DEF t
<1>6. IsSeq(t)
  BY <1>2, <1>5, SeqMade
<1>7. GoodLine("data", t)
  BY <1>1, <1>3, <1>4, <1>5, <1>6 DEF GoodLine
<1> QED
  BY <1>7 DEF t, d

\* No edit makes a lock that was not written.
LEMMA EditedFile ==
    ASSUME KeyFiles, NEW pem \in pems, NEW e \in Edited(pem)
    PROVE  PemShape(e) /\ LocksAreWritten(e)
<1>1. \A q \in pems : /\ PemShape(q) /\ LocksAreWritten(q)
                      /\ On(PemFields, q) /\ \A f \in PemFields : GoodLine(f, q[f])
  BY FileLines DEF KeyFiles
<1>2. DOMAIN pem = PemFields
  BY <1>1 DEF On
<1>3. ASSUME NEW f \in PemFields,
             NEW s \in {<<>>, pem[f] \o pem[f]} \union {q[f] : q \in pems},
             e = [pem EXCEPT ![f] = s]
      PROVE  PemShape(e) /\ LocksAreWritten(e)
  <2>1. GoodLine(f, s)
    BY <1>1, <1>3, LinesOfEdits
  <2> QED
    BY <1>1, <1>3, <2>1, LineReplaced
<1>4. ASSUME NEW f \in {"alg", "format", "dek", "kdf"}, NEW a, e = [pem EXCEPT ![f] = <<a>>]
      PROVE  PemShape(e) /\ LocksAreWritten(e)
  <2>1. f \in PemFields /\ f \notin {"proc", "data"}
    BY DEF PemFields
  <2>2. GoodLine(f, <<a>>)
    BY <2>1, LinesOfEdits
  <2> QED
    BY <1>1, <1>4, <2>1, <2>2, LineReplaced
<1>5. ASSUME NEW i \in DOMAIN pem.data,
             e = [pem EXCEPT !.data[i] = Damaged(@)]
      PROVE  PemShape(e) /\ LocksAreWritten(e)
  <2> DEFINE s == [pem.data EXCEPT ![i] = Damaged(pem.data[i])]
  <2>1. e = [pem EXCEPT !.data = s]
    BY <1>1, <1>2, <1>5 DEF PemFields
  <2>2. GoodLine("data", s)
    BY <1>1, <1>5, DataDamaged DEF PemFields
  <2> HIDE DEF s
  <2> QED
    BY <1>1, <2>1, <2>2, LineReplaced DEF PemFields
<1>6. \/ \E f \in DOMAIN pem : \E s \in {<<>>, pem[f] \o pem[f]} \union {q[f] : q \in pems} :
            e = [pem EXCEPT ![f] = s]
      \/ \E f \in {"alg", "format", "dek", "kdf"} : \E a : e = [pem EXCEPT ![f] = <<a>>]
      \/ \E i \in DOMAIN pem.data :
            e = [pem EXCEPT !.data[i] = Damaged(@)]
  BY DEF Edited
<1> QED
  BY <1>2, <1>3, <1>4, <1>5, <1>6

\* No edit makes a payload that was not sealed.
LEMMA EditedContainer ==
    ASSUME Boxes, NEW box \in boxes, NEW e \in EditedBoxes(box)
    PROVE  BoxShape(e) /\ PayloadSealed(e)
<1>1. \A b \in boxes : BoxShape(b) /\ PayloadSealed(b)
  BY DEF Boxes
<1>2. DOMAIN box = BoxFields
  BY <1>1 DEF BoxShape, On
<1>3. ASSUME NEW f \in BoxFields, NEW b \in boxes, e = [box EXCEPT ![f] = b[f]]
      PROVE  BoxShape(e) /\ PayloadSealed(e)
  <2>1. e = [g \in BoxFields |-> IF g = f THEN b[f] ELSE box[g]]
    BY <1>2, <1>3
  <2>2. On(BoxFields, e)
    BY <2>1 DEF On
  <2>3. e.payload \in {box.payload, b.payload} /\ e.whole \in {box.whole, b.whole}
    BY <2>1 DEF BoxFields
  <2> QED
    BY <1>1, <2>2, <2>3 DEF BoxShape, PayloadSealed
<1>4. ASSUME NEW f \in {"suite", "version", "whole"}, NEW a, e = [box EXCEPT ![f] = a],
             f = "whole" => a \in BOOLEAN
      PROVE  BoxShape(e) /\ PayloadSealed(e)
  <2>1. e = [g \in BoxFields |-> IF g = f THEN a ELSE box[g]]
    BY <1>2, <1>4
  <2>2. On(BoxFields, e)
    BY <2>1 DEF On
  <2>3. e.payload = box.payload /\ e.whole \in {box.whole, a} /\ (f # "whole" => e.whole = box.whole)
    BY <2>1 DEF BoxFields
  <2>4. e.whole \in BOOLEAN
    BY <1>1, <1>4, <2>3 DEF BoxShape
  <2> QED
    BY <1>1, <2>2, <2>3, <2>4 DEF BoxShape, PayloadSealed
<1>5. ASSUME e = [box EXCEPT !.payload.sound = FALSE]
      PROVE  BoxShape(e) /\ PayloadSealed(e)
  <2>1. /\ On(BoxFields, e) /\ e.whole = box.whole
        /\ On(PayloadFields, e.payload) /\ e.payload.sound = FALSE
    BY <1>1, <1>5 DEF BoxShape, On, BoxFields, PayloadFields
  <2> QED
    BY <1>1, <2>1 DEF BoxShape, PayloadSealed
<1>6. \/ \E f \in DOMAIN box, b \in boxes : e = [box EXCEPT ![f] = b[f]]
      \/ \E a : e = [box EXCEPT !.suite = a] \/ e = [box EXCEPT !.version = a]
      \/ e = [box EXCEPT !.whole = FALSE]
      \/ e = [box EXCEPT !.payload.sound = FALSE]
  BY DEF EditedBoxes
<1> QED
  BY <1>2, <1>3, <1>4, <1>5, <1>6

-----------------------------------------------------------------------------
\* A private key file as it is written, and the record of it.
LEMMA WrittenAsRight ==
    ASSUME NEW key, On(KeyFields, key), NEW suite \in ALLOWED_KEY_ALGS, ValidKeyMaterial(key, suite, "private"),
           NEW w \in Password \ {NoPassword}, NEW format \in SUPPORTED_PRIVATE_KEY_FORMAT_VERSIONS,
           NEW dek \in Nat \ {Malformed}
    PROVE  WrittenRight(WrittenAs(PrivatePem(key, suite, w, format, dek), key.pair, suite, w))
<1> DEFINE pem == PrivatePem(key, suite, w, format, dek)
           r == WrittenAs(pem, key.pair, suite, w)
<1>1. r.pem = pem /\ r.pair = key.pair /\ r.suite = suite /\ r.password = w
  BY DEF WrittenAs
<1>2. pem.data[1].key = key /\ pem.format[1] = format /\ pem.dek[1] = dek
  BY DEF PrivatePem, Locked
<1> HIDE DEF r, pem
<1>3. r.pem = PrivatePem(r.pem.data[1].key, r.suite, r.password, r.pem.format[1], r.pem.dek[1])
  BY <1>1, <1>2 DEF pem
<1>4. WrittenRight(r)
  BY <1>1, <1>2, <1>3 DEF WrittenRight
<1> QED
  BY <1>4 DEF r, pem

\* Its only piece of data.
LEMMA WrittenData ==
    ASSUME NEW r, WrittenRight(r)
    PROVE  PemShape(r.pem) /\ Len(r.pem.data) = 1 /\ r.pem.data = <<r.pem.data[1]>>
<1>1. Unlocked(r.pem, r.password) /\ PemShape(r.pem)
  BY WrittenUnlocks
<1>2. Parsed(r.pem)
  BY <1>1, ParseFacts DEF Unlocked
<1> QED
  BY <1>1, <1>2, ParsedParts

\* A key file without a lock.
LEMMA PlainData ==
    ASSUME NEW key, NEW alg
    PROVE  /\ PemShape(PlainPem(key, alg)) /\ Len(PlainPem(key, alg).data) = 1
           /\ PlainPem(key, alg).data[1].lock = <<>>
<1> DEFINE pem == PlainPem(key, alg)
           d == Bare(key)
<1>1. /\ pem.boundary = <<key.type>> /\ pem.alg = <<alg>> /\ pem.format = <<>> /\ pem.proc = <<>>
      /\ pem.dek = <<>> /\ pem.kdf = <<>> /\ pem.data = <<d>> /\ On(PemFields, pem)
  BY DEF PlainPem, On, PemFields
<1>2. On(DataFields, d) /\ d.lock = <<>>
  BY DEF Bare, On, DataFields
<1> HIDE DEF pem, d
<1>3. \A f \in PemFields : IsSeq(pem[f])
  BY <1>1, SeqSingle, SeqEmpty DEF PemFields
<1>4. Range(pem.proc) = {}
  BY <1>1 DEF Range
<1>5. Len(pem.data) = 1 /\ pem.data[1] = d
  BY <1>1, SeqSingle
<1>6. PemShape(pem) /\ Len(pem.data) = 1 /\ pem.data[1].lock = <<>>
  BY <1>1, <1>2, <1>3, <1>4, <1>5 DEF PemShape
<1> QED
  BY <1>6 DEF pem

\* A step that only adds files and records keeps the invariant, if each file that it adds
\* is right: files that were there stay right when records are added.
LEMMA Grows ==
    ASSUME KeyInv, enabled' = enabled, made' \in Nat, written \subseteq written', sealed \subseteq sealed',
           \A pem \in pems' \ pems : PemShape(pem) /\ LocksAreWritten(pem)',
           \A r \in written' \ written : WrittenRight(r),
           \A box \in boxes' \ boxes : BoxShape(box) /\ PayloadSealed(box)',
           \A s \in sealed' \ sealed : SealedRight(s)
    PROVE  KeyInv'
<1>1. KeyFiles'
  <2>1. SUFFICES ASSUME NEW pem \in pems' PROVE PemShape(pem) /\ LocksAreWritten(pem)'
    BY DEF KeyFiles
  <2>2. ASSUME pem \in pems PROVE LocksAreWritten(pem)'
    BY <2>2 DEF KeyInv, KeyFiles, LocksAreWritten
  <2>3. ASSUME pem \in pems PROVE PemShape(pem)
    BY <2>3 DEF KeyInv, KeyFiles
  <2> QED
    BY <2>2, <2>3
<1>2. KeyRecords'
  BY DEF KeyInv, KeyRecords
<1>3. Boxes'
  <2>1. SUFFICES ASSUME NEW box \in boxes' PROVE BoxShape(box) /\ PayloadSealed(box)'
    BY DEF Boxes
  <2>2. ASSUME box \in boxes PROVE BoxShape(box) /\ PayloadSealed(box)'
    BY <2>2 DEF KeyInv, Boxes, PayloadSealed
  <2> QED
    BY <2>2
<1>4. BoxRecords'
  <2>1. SUFFICES ASSUME NEW s \in sealed' PROVE SealedRight(s)'
    BY DEF BoxRecords
  <2>2. SealedRight(s)
    BY DEF KeyInv, BoxRecords
  <2> QED
    BY <2>2 DEF SealedRight
<1> QED
  BY <1>1, <1>2, <1>3, <1>4 DEF KeyInv

\* Key files that the program writes.
LEMMA WritesKept ==
    ASSUME KeyInv, Makes, NEW public, NEW private, NEW pair, NEW suite, NEW w,
           Writes(public, private, pair, suite, w),
           \A pem \in public : \E key, alg : pem = PlainPem(key, alg),
           \A pem \in private : WrittenRight(WrittenAs(pem, pair, suite, w))
    PROVE  KeyInv'
<1>1. /\ pems' = (pems \union public) \union private
      /\ written' = written \union {WrittenAs(p, pair, suite, w) : p \in private}
      /\ sealed' = sealed /\ boxes' = boxes /\ enabled' = enabled /\ made' \in Nat
  BY DEF Writes, Makes, Fresh, KeyInv
<1>2. \A r \in written' \ written : WrittenRight(r)
  BY <1>1
<1>3. ASSUME NEW pem \in public PROVE PemShape(pem) /\ LocksAreWritten(pem)'
  <2>1. PICK key, alg : pem = PlainPem(key, alg)
    OBVIOUS
  <2>2. PemShape(pem) /\ \A i \in 1..Len(pem.data) : pem.data[i].lock = <<>>
    BY <2>1, PlainData
  <2> QED
    BY <2>2 DEF LocksAreWritten
<1>4. ASSUME NEW pem \in private PROVE PemShape(pem) /\ LocksAreWritten(pem)'
  <2> DEFINE r == WrittenAs(pem, pair, suite, w)
  <2>1. WrittenRight(r) /\ r \in written' /\ r.pem = pem
    BY <1>1 DEF WrittenAs
  <2> HIDE DEF r
  <2>2. PemShape(pem) /\ Len(pem.data) = 1 /\ r.pem.data = <<pem.data[1]>>
    BY <2>1, WrittenData
  <2>3. \A i \in 1..Len(pem.data) : r.pem.data = <<pem.data[i]>>
    BY <2>2
  <2> QED
    BY <2>1, <2>2, <2>3 DEF LocksAreWritten
<1>5. \A pem \in pems' \ pems : PemShape(pem) /\ LocksAreWritten(pem)'
  BY <1>1, <1>3, <1>4
<1>6. written \subseteq written' /\ sealed \subseteq sealed' /\ boxes' \ boxes = {} /\ sealed' \ sealed = {}
  BY <1>1
<1> QED
  BY <1>1, <1>2, <1>5, <1>6, Grows

\* What save_key_pem makes.
LEMMA SavedFacts ==
    ASSUME NEW key, NEW alg, NEW w, NEW dek
    PROVE  /\ \A pem \in SavedPublic(key, alg) : pem = PlainPem(key, alg)
           /\ \A pem \in SavedPrivate(key, alg, w, dek) :
                 /\ pem = PrivatePem(key, alg, w, PEM_PRIVATE_KEY_FORMAT_VERSION, dek)
                 /\ alg \in ALLOWED_KEY_ALGS /\ ValidKeyMaterial(key, alg, "private") /\ w # NoPassword
<1>1. PasswordRefusal(w) = "none" => w # NoPassword
  BY PasswordFacts
<1> QED
  BY <1>1 DEF SavedPublic, SavedPrivate

\* A private key file that save_key_pem makes is recorded for what it was made for.
LEMMA SavedRight ==
    ASSUME KeyInv, NEW key, On(KeyFields, key), NEW alg, NEW w \in Password,
           NEW pem \in SavedPrivate(key, alg, w, Fresh)
    PROVE  WrittenRight(WrittenAs(pem, key.pair, alg, w))
<1>1. /\ pem = PrivatePem(key, alg, w, PEM_PRIVATE_KEY_FORMAT_VERSION, Fresh)
      /\ alg \in ALLOWED_KEY_ALGS /\ ValidKeyMaterial(key, alg, "private") /\ w \in Password \ {NoPassword}
  BY SavedFacts
<1>2. Fresh \in Nat \ {Malformed}
  BY DEF Fresh, Malformed, KeyInv
<1>3. PEM_PRIVATE_KEY_FORMAT_VERSION \in SUPPORTED_PRIVATE_KEY_FORMAT_VERSIONS
  BY DEF SUPPORTED_PRIVATE_KEY_FORMAT_VERSIONS
<1> QED
  BY <1>1, <1>2, <1>3, WrittenAsRight

\* generate_keys and handle_generate_keys keep the invariant.
LEMMA GenerateKept ==
    ASSUME KeyInv, NEW w \in Password, Generate(w)
    PROVE  KeyInv'
<1> DEFINE key(type) == GeneratedKey(Fresh, type)
           public == SavedPublic(key("public"), HYBRID_KEM_ALG)
           private == SavedPrivate(key("private"), HYBRID_KEM_ALG, w, Fresh)
           pair == key("public").pair
<1>1. Makes /\ Writes(public, private, pair, HYBRID_KEM_ALG, w)
  BY DEF Generate
<1>2. key("private").pair = pair /\ On(KeyFields, key("private"))
  BY DEF GeneratedKey, On, KeyFields
<1> HIDE DEF key
<1>3. \A pem \in private : WrittenRight(WrittenAs(pem, pair, HYBRID_KEM_ALG, w))
  BY <1>2, SavedRight
<1>4. \A pem \in public : \E k, alg : pem = PlainPem(k, alg)
  BY SavedFacts
<1> HIDE DEF public, private, pair
<1> QED
  BY <1>1, <1>3, <1>4, WritesKept

\* The key that a file yields is that of a file that was written.
LEMMA OpenedKey ==
    ASSUME KeyInv, NEW pem \in pems, NEW w, NEW l \in LoadedOf("private", pem, w)
    PROVE  On(KeyFields, l.key) /\ LoadedOf("private", pem, w) = {l}
<1>1. PemShape(pem) /\ KeyFiles /\ KeyRecords
  BY DEF KeyInv, KeyFiles
<1>2. Unlocked(pem, w) /\ LoadedOf("private", pem, w) = {Opened(pem)} /\ l = Opened(pem)
  BY <1>1, LoadedPrivate
<1>3. PICK r \in written : r.pem = pem
  BY <1>1, <1>2, UnlockedIsWritten
<1>4. WrittenRight(r) /\ l.key = r.pem.data[1].key
  BY <1>1, <1>2, <1>3 DEF KeyRecords, Opened
<1> QED
  BY <1>2, <1>4 DEF WrittenRight

\* change_key_password and handle_change_key_password keep it.
LEMMA ChangePasswordKept ==
    ASSUME KeyInv, NEW pem \in pems, NEW current \in Password, NEW new \in Password,
           ChangePassword(pem, current, new)
    PROVE  KeyInv'
<1>1. PICK l \in LoadedOf("private", pem, current) :
          Makes /\ Writes({}, Rewrapped(pem, current, new, Fresh), l.key.pair, l.alg, new)
  BY DEF ChangePassword
<1>2. On(KeyFields, l.key) /\ LoadedOf("private", pem, current) = {l}
  BY OpenedKey
<1>3. Rewrapped(pem, current, new, Fresh) = SavedPrivate(l.key, l.alg, new, Fresh)
  BY <1>2 DEF Rewrapped
<1>4. \A p \in Rewrapped(pem, current, new, Fresh) : WrittenRight(WrittenAs(p, l.key.pair, l.alg, new))
  BY <1>2, <1>3, SavedRight
<1> QED
  BY <1>1, <1>4, WritesKept

\* recover_public_key and handle_recover_public_key keep it: their file has no lock.
LEMMA RecoverPublicKept ==
    ASSUME KeyInv, NEW pem \in pems, NEW w \in Password, RecoverPublic(pem, w)
    PROVE  KeyInv'
<1>1. PICK l \in LoadedOf("private", pem, w) : Makes /\ Writes(Recovered(pem, w), {}, l.key.pair, l.alg, w)
  BY DEF RecoverPublic
<1>2. \A p \in Recovered(pem, w) : \E key, alg : p = PlainPem(key, alg)
  BY SavedFacts DEF Recovered
<1> QED
  BY <1>1, <1>2, WritesKept

\* Encryption keeps it: "ok" means that the recipient was confirmed, and what is sealed is
\* sealed for the confirmed pair.
LEMMA EncryptKept ==
    ASSUME KeyInv, NEW pem \in pems, NEW expected, NEW text, Encrypt(pem, expected, text),
           expected = {} \/ \E f : expected = {f}
    PROVE  KeyInv'
<1>1. PemShape(pem) /\ enabled \subseteq ALLOWED_KEM_ALGS
  BY DEF KeyInv, KeyFiles
<1>2. Confirmed(pem, expected)
  <2>1. "ok" \in {encrypt_file(pem, expected), job_encrypt(pem, expected),
                  handle_encrypt(pem, expected, "legacy_public_key"), handle_backup_directory(pem, expected)}
    BY DEF Encrypt
  <2> QED
    BY <1>1, <2>1, EncryptFile, JobEncrypt, HandleEncrypt DEF handle_backup_directory
<1>3. PICK l \in LoadedOf("public", pem, NoPassword) :
        \E box \in Encrypted(l.key, l.alg, enabled, Fresh, text) :
          /\ boxes' = boxes \union {box}
          /\ sealed' = sealed \union {SealedAs(box, l.key.pair, l.alg, KEM_ALG, text, expected)}
  BY DEF Encrypt
<1>4. PICK box \in Encrypted(l.key, l.alg, enabled, Fresh, text) :
          /\ boxes' = boxes \union {box}
          /\ sealed' = sealed \union {SealedAs(box, l.key.pair, l.alg, KEM_ALG, text, expected)}
  BY <1>3
<1>5. made' \in Nat /\ enabled' = enabled /\ written' = written /\ pems' = pems
  BY DEF Encrypt, Makes, Fresh, KeyInv
<1> DEFINE s == SealedAs(box, l.key.pair, l.alg, KEM_ALG, text, expected)
<1>6. expected # {} => expected = {<<l.alg, l.key.pair>>}
  BY <1>2 DEF Confirmed, Fingerprint
<1>7. SealedRight(s) /\ s.box = box
  BY <1>1, <1>6, EncryptedFacts DEF SealedAs
<1> HIDE DEF s
<1>8. BoxShape(box) /\ PayloadSealed(box)'
  <2>1. BoxShape(box)
    BY <1>7, SealedParts
  <2>2. s \in sealed' /\ s.box.payload = box.payload
    BY <1>4, <1>7 DEF s
  <2> QED
    BY <2>1, <2>2 DEF PayloadSealed
<1>9. /\ \A b \in boxes' \ boxes : BoxShape(b) /\ PayloadSealed(b)'
      /\ \A x \in sealed' \ sealed : SealedRight(x)
      /\ sealed \subseteq sealed'
  BY <1>4, <1>7, <1>8 DEF s
<1> QED
  BY <1>5, <1>9, Grows

\* Editing and damaging files keeps it.
LEMMA EditKept ==
    ASSUME KeyInv, Edit
    PROVE  KeyInv'
<1>1. enabled' = enabled /\ written' = written /\ sealed' = sealed /\ made' = made /\ made \in Nat
  BY DEF Edit, KeyInv
<1>2. \A pem : LocksAreWritten(pem)' <=> LocksAreWritten(pem)
  BY <1>1 DEF LocksAreWritten
<1>3. \A box : PayloadSealed(box)' <=> PayloadSealed(box)
  BY <1>1 DEF PayloadSealed
<1>4. \A pem \in pems' \ pems : PemShape(pem) /\ LocksAreWritten(pem)
  BY EditedFile DEF Edit, KeyInv
<1>5. \A box \in boxes' \ boxes : BoxShape(box) /\ PayloadSealed(box)
  BY EditedContainer DEF Edit, KeyInv
<1> QED
  BY <1>1, <1>2, <1>3, <1>4, <1>5, Grows

-----------------------------------------------------------------------------
\* What an earlier release left is right, and the private key that was never encrypted
\* has no lock.
LEMMA InitKept ==
    ASSUME KeyInit
    PROVE  KeyInv
<1>1. PICK k \in OldKeys, t \in Text :
          /\ written = {WrittenAs(OldPem(k), OldPair(k), k.suite, k.password)}
          /\ pems = {OldPem(k), PlainPem(OldBytes(k, "public"), k.suite),
                     PlainPem(OldBytes(k, "private"), k.suite)}
          /\ sealed = {SealedAs(OldBox(k, t), OldPair(k), k.suite, k.kem, t, {})}
          /\ boxes = {OldBox(k, t)}
  BY DEF KeyInit
<1>2. /\ k.suite \in ALLOWED_KEY_ALGS /\ k.kem \in Candidates(k.suite, ALLOWED_KEM_ALGS)
      /\ k.format \in SUPPORTED_PRIVATE_KEY_FORMAT_VERSIONS /\ k.password \in Password \ {NoPassword}
  <2>1. /\ k.suite \in ALLOWED_KEY_ALGS /\ k.kem \in ALLOWED_KEM_ALGS
        /\ k.suite \in ALLOWED_KEM_ALGS => k.kem = k.suite
        /\ k.suite = HYBRID_KEM_ALG => k.kem = KEM_ALG
        /\ k.format \in SUPPORTED_PRIVATE_KEY_FORMAT_VERSIONS /\ k.password \in Password \ {NoPassword}
    BY WorkflowAssumption
  <2> QED
    BY <2>1, Config DEF Candidates
<1> DEFINE key == OldBytes(k, "private")
           r == WrittenAs(OldPem(k), OldPair(k), k.suite, k.password)
           s == SealedAs(OldBox(k, t), OldPair(k), k.suite, k.kem, t, {})
<1>3. On(KeyFields, key) /\ key.pair = OldPair(k) /\ ValidKeyMaterial(key, k.suite, "private")
  BY DEF OldBytes, OldPair, On, KeyFields, ValidKeyMaterial, Shape, ExpectedShape
<1>4. WrittenRight(r)
  <2>1. 1 \in Nat \ {Malformed}
    BY DEF Malformed
  <2> HIDE DEF key
  <2>2. WrittenRight(WrittenAs(PrivatePem(key, k.suite, k.password, k.format, 1), key.pair, k.suite, k.password))
    BY <1>2, <1>3, <2>1, WrittenAsRight
  <2> QED
    BY <1>3, <2>2 DEF OldPem, key
<1>5. SealedRight(s)
  <2>1. OldBox(k, t) = Container(VersionOf(k.suite), k.suite, OldPair(k), k.kem, 1, t)
    <3>1. (IF OldPair(k).x THEN FORMAT_VERSION ELSE LEGACY_FORMAT_VERSION) = VersionOf(k.suite)
      BY DEF OldPair, VersionOf
    <3> QED
      BY <3>1 DEF OldBox
  <2> QED
    BY <1>2, <2>1, SealedAsRight
<1>6. r.pem = OldPem(k) /\ s.box = OldBox(k, t)
  BY DEF WrittenAs, SealedAs
<1>7. written = {r} /\ sealed = {s}
  BY <1>1
<1> HIDE DEF r, s
<1>8. ASSUME NEW pem \in pems PROVE PemShape(pem) /\ LocksAreWritten(pem)
  <2>1. CASE pem = OldPem(k)
    <3>1. PemShape(pem) /\ Len(pem.data) = 1 /\ r.pem.data = <<pem.data[1]>>
      BY <1>4, <1>6, <2>1, WrittenData
    <3>2. \A i \in 1..Len(pem.data) : r.pem.data = <<pem.data[i]>>
      BY <3>1
    <3> QED
      BY <1>7, <3>1, <3>2 DEF LocksAreWritten
  <2>2. ASSUME NEW key2, NEW alg, pem = PlainPem(key2, alg) PROVE PemShape(pem) /\ LocksAreWritten(pem)
    <3>1. PemShape(pem) /\ \A i \in 1..Len(pem.data) : pem.data[i].lock = <<>>
      BY <2>2, PlainData
    <3> QED
      BY <3>1 DEF LocksAreWritten
  <2> QED
    BY <1>1, <2>1, <2>2
<1>9. BoxShape(OldBox(k, t)) /\ PayloadSealed(OldBox(k, t))
  <2>1. BoxShape(OldBox(k, t))
    BY <1>5, <1>6, SealedParts
  <2> QED
    BY <1>6, <1>7, <2>1 DEF PayloadSealed
<1>10. KeyFiles /\ KeyRecords /\ Boxes /\ BoxRecords
  BY <1>1, <1>4, <1>5, <1>7, <1>8, <1>9 DEF KeyFiles, KeyRecords, Boxes, BoxRecords
<1>11. made \in Nat /\ enabled \subseteq ALLOWED_KEM_ALGS
  BY DEF KeyInit
<1> QED
  BY <1>10, <1>11 DEF KeyInv

\* Every lock that is sound is that of a file the program or an earlier release wrote,
\* with the lines it was written with in the record, and every payload that is sound is
\* that of a container that was sealed; whatever is done to key files and containers,
\* and in whatever order (save_key_pem, rewrap_private_key_pem, encrypt_file_pro,
\* encrypt_stream).
THEOREM KeyInvariant == KeySpec => []KeyInv
<1>1. KeyInit => KeyInv
  BY InitKept
<1>2. ASSUME KeyInv, [KeyNext]_keyVars PROVE KeyInv'
  <2>1. ASSUME NEW w \in Password, Generate(w) PROVE KeyInv'
    BY <1>2, <2>1, GenerateKept
  <2>2. ASSUME NEW pem \in pems, NEW w \in Password, NEW new \in Password, ChangePassword(pem, w, new)
        PROVE  KeyInv'
    BY <1>2, <2>2, ChangePasswordKept
  <2>3. ASSUME NEW pem \in pems, NEW w \in Password, RecoverPublic(pem, w) PROVE KeyInv'
    BY <1>2, <2>3, RecoverPublicKept
  <2>4. ASSUME NEW pem \in pems, NEW text \in Text, Encrypt(pem, {}, text) PROVE KeyInv'
    BY <1>2, <2>4, EncryptKept
  <2>5. ASSUME NEW pem \in pems, NEW f \in Fingerprints, NEW text \in Text, Encrypt(pem, {f}, text)
        PROVE  KeyInv'
    BY <1>2, <2>5, EncryptKept
  <2>6. CASE Edit
    BY <1>2, <2>6, EditKept
  <2>7. CASE UNCHANGED keyVars
    BY <1>2, <2>7 DEF keyVars, KeyInv, KeyFiles, KeyRecords, Boxes, BoxRecords, LocksAreWritten,
       PayloadSealed, SealedRight
  <2> QED
    BY <1>2, <2>1, <2>2, <2>3, <2>4, <2>5, <2>6, <2>7 DEF KeyNext
<1> QED
  BY <1>1, <1>2, PTL DEF KeySpec

\* A key file unlocks with a password exactly if it is, line for line, a file that was
\* written for it, and yields the pair and the suite it was written for
\* (_parse_key_pem_strict, decrypt_private_key, load_key_pem).
THEOREM KeysUnlockExactly == KeySpec => []UnlocksExactly
<1>1. KeyInv => UnlocksExactly
  BY UnlocksExactlyHolds DEF KeyInv
<1> QED
  BY <1>1, KeyInvariant, PTL

\* A container opens exactly with a key file of the pair it was sealed for, if its
\* implementation is enabled; the service, its jobs and the command line differ only in
\* the passwords they take (decrypt_file_pro, verify_stream, decrypt_stream and their
\* handlers).
THEOREM ContainersOpenExactly == KeySpec => []OpensExactly
<1>1. KeyInv => OpensExactly
  BY OpensExactlyHolds
<1> QED
  BY <1>1, KeyInvariant, PTL

\* Data that was encrypted for a confirmed fingerprint, or with a public key that was
\* compared with the private one, opens with that key (get_public_key_fingerprint,
\* verify_recipient_fingerprint, recover_public_key).
THEOREM ConfirmedDataOpens == KeySpec => []ConfirmedRecipientOpens
<1>1. KeyInv => ConfirmedRecipientOpens
  BY ConfirmedHolds
<1> QED
  BY <1>1, KeyInvariant, PTL

\* No file makes a handler answer "unexpected_error", and none is answered by a missing
\* backend or a failed encryption while every implementation is enabled (the handlers'
\* except clauses).
THEOREM FilesRefusedByName == KeySpec => []RefusedByName
<1>1. KeyInv => RefusedByName
  BY RefusedByNameHolds
<1> QED
  BY <1>1, KeyInvariant, PTL
=============================================================================
