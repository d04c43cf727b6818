------------------------ MODULE CryptoStream_proofs ------------------------
(***************************************************************************)
(* Proofs about the streaming container for any limits, suites, keys,      *)
(* plaintexts, containers, chunks read and changes of the source.          *)
(*                                                                         *)
(* StreamInv says where the bytes read so far are: in the header, in the   *)
(* context and in the tail that is withheld.  When the source ends, the    *)
(* tail is all that a tag can be; it authenticates only what a plaintext   *)
(* was encrypted to (TagsUnforged), so what was read is a sealed           *)
(* container.  The second pass of a decryption reads the snapshot the      *)
(* first one authenticated, which nobody changes.                          *)
(***************************************************************************)
EXTENDS CryptoStream, SequenceTheorems, WellFoundedInduction, TLAPS

\* s is a sequence, over whatever its elements are.
IsSeq(s) == s \in Seq(Range(s))

\* A sequence is the function of its elements.
LEMMA SeqFacts ==
    ASSUME NEW s, IsSeq(s)
    PROVE  /\ Len(s) \in Nat /\ DOMAIN s = 1..Len(s)
           /\ s = [i \in 1..Len(s) |-> s[i]]
           /\ \A i \in 1..Len(s) : s[i] \in Range(s)
<1>1. /\ Len(s) \in Nat
      /\ s \in [1..Len(s) -> Range(s)]
      /\ DOMAIN s = 1..Len(s)
  BY LenProperties DEF IsSeq
<1> QED
  BY <1>1 DEF Range

\* A sequence over any set is a sequence.
LEMMA SeqOver ==
    ASSUME NEW S, NEW s \in Seq(S)
    PROVE  IsSeq(s)
<1>1. /\ Len(s) \in Nat
      /\ s \in [1..Len(s) -> S]
      /\ DOMAIN s = 1..Len(s)
  BY LenProperties
<1>2. s \in [1..Len(s) -> Range(s)]
  BY <1>1 DEF Range
<1> QED
  BY <1>1, <1>2 DEF IsSeq

\* A function on 1..n is a sequence of length n.
LEMMA SeqMade ==
    ASSUME NEW n \in Nat, NEW s, s = [i \in 1..n |-> s[i]]
    PROVE  IsSeq(s) /\ Len(s) = n
<1>1. s \in [1..n -> Range(s)]
  BY DEF Range
<1>2. s \in Seq(Range(s))
  BY <1>1
<1>3. Len(s) = n
  BY <1>1, <1>2
<1> QED
  BY <1>2, <1>3 DEF IsSeq

\* The empty sequence has length 0.
LEMMA SeqEmpty == IsSeq(<<>>) /\ Len(<<>>) = 0
  BY EmptySeq DEF IsSeq

\* Only the empty sequence has length 0.
LEMMA SeqNone ==
    ASSUME NEW s, IsSeq(s)
    PROVE  s = <<>> <=> Len(s) = 0
<1>1. Len(s) = 0 => s = <<>>
  <2> HAVE Len(s) = 0
  <2> QED
    BY EmptySeq DEF IsSeq
<1> QED
  BY <1>1, SeqEmpty

\* Sequences of one length with the same elements are the same.
LEMMA SeqSame ==
    ASSUME NEW s, NEW t, IsSeq(s), IsSeq(t), Len(s) = Len(t),
           \A i \in 1..Len(s) : s[i] = t[i]
    PROVE  s = t
  BY SeqFacts

\* The elements of s \o t.
LEMMA SeqJoined ==
    ASSUME NEW s, NEW t, IsSeq(s), IsSeq(t)
    PROVE  /\ IsSeq(s \o t)
           /\ Len(s \o t) = Len(s) + Len(t)
           /\ \A i \in 1..Len(s) : (s \o t)[i] = s[i]
           /\ \A i \in 1..Len(t) : (s \o t)[Len(s) + i] = t[i]
<1> DEFINE S == Range(s) \cup Range(t)
<1>1. Len(s) \in Nat /\ Len(t) \in Nat
  BY SeqFacts
<1>2. s \in Seq(S)
  <2>1. s \in [1..Len(s) -> S]
    BY SeqFacts
  <2> QED
    BY <1>1, <2>1
<1>3. t \in Seq(S)
  <2>1. t \in [1..Len(t) -> S]
    BY SeqFacts
  <2> QED
    BY <1>1, <2>1
<1>4. /\ s \o t \in Seq(S)
      /\ Len(s \o t) = Len(s) + Len(t)
      /\ \A i \in 1 .. Len(s) + Len(t) : (s \o t)[i] =
                     IF i <= Len(s) THEN s[i] ELSE t[i - Len(s)]
  <2> HIDE DEF S
  <2> QED
    BY <1>2, <1>3, ConcatProperties
<1>5. IsSeq(s \o t)
  BY <1>4, SeqOver
<1> HIDE DEF S
<1> QED
  BY <1>1, <1>4, <1>5

\* The elements of the sequence from m + 1 to n.
LEMMA SeqCut ==
    ASSUME NEW s, IsSeq(s), NEW m \in Nat, NEW n \in Nat, m <= n, n <= Len(s)
    PROVE  /\ IsSeq(SubSeq(s, m + 1, n))
           /\ Len(SubSeq(s, m + 1, n)) = n - m
           /\ \A i \in 1..n - m : SubSeq(s, m + 1, n)[i] = s[m + i]
<1>1. Len(s) \in Nat
  BY SeqFacts
<1>2. \A i \in m + 1..n : s[i] \in Range(s)
  BY <1>1, SeqFacts
<1>3. /\ SubSeq(s, m + 1, n) \in Seq(Range(s))
      /\ Len(SubSeq(s, m + 1, n)) = IF m + 1 <= n THEN n - (m + 1) + 1 ELSE 0
      /\ \A i \in 1 .. n - (m + 1) + 1 : SubSeq(s, m + 1, n)[i] = s[(m + 1) + i - 1]
  BY <1>2, SubSeqProperties
<1>4. IsSeq(SubSeq(s, m + 1, n))
  BY <1>3, SeqOver
<1>5. \A i \in 1..n - m : SubSeq(s, m + 1, n)[i] = s[m + i]
  <2> TAKE i \in 1..n - m
  <2>1. i \in 1 .. n - (m + 1) + 1 /\ (m + 1) + i - 1 = m + i
    OBVIOUS
  <2> QED
    BY <1>3, <2>1
<1> QED
  BY <1>3, <1>4, <1>5

\* The elements of the beginning of a sequence.
LEMMA SeqStart ==
    ASSUME NEW s, IsSeq(s), NEW n \in Nat, n <= Len(s)
    PROVE  /\ IsSeq(SubSeq(s, 1, n))
           /\ Len(SubSeq(s, 1, n)) = n
           /\ \A i \in 1..n : SubSeq(s, 1, n)[i] = s[i]
<1> DEFINE m == 0
<1>1. /\ IsSeq(SubSeq(s, m + 1, n))
      /\ Len(SubSeq(s, m + 1, n)) = n - m
      /\ \A i \in 1..n - m : SubSeq(s, m + 1, n)[i] = s[m + i]
  <2>1. m \in Nat /\ m <= n
    OBVIOUS
  <2> HIDE DEF m
  <2> QED
    BY <2>1, SeqCut
<1>2. m + 1 = 1 /\ n - m = n /\ \A i \in 1..n : m + i = i
  OBVIOUS
<1> HIDE DEF m
<1> QED
  BY <1>1, <1>2

\* The elements of a sequence that was appended to.
LEMMA SeqLonger ==
    ASSUME NEW s, IsSeq(s), NEW e
    PROVE  /\ IsSeq(Append(s, e))
           /\ Len(Append(s, e)) = Len(s) + 1
           /\ \A i \in 1..Len(s) : Append(s, e)[i] = s[i]
           /\ Append(s, e)[Len(s) + 1] = e
<1> DEFINE S == Range(s) \cup {e}
<1>1. s \in Seq(S)
  <2>1. s \in [1..Len(s) -> S] /\ Len(s) \in Nat
    BY SeqFacts
  <2> QED
    BY <2>1
<1>2. /\ Append(s, e) \in Seq(S)
      /\ Len(Append(s, e)) = Len(s) + 1
      /\ \A i \in 1..Len(s) : Append(s, e)[i] = s[i]
      /\ Append(s, e)[Len(s) + 1] = e
  <2>1. e \in S
    OBVIOUS
  <2> HIDE DEF S
  <2> QED
    BY <1>1, <2>1, AppendProperties
<1>3. IsSeq(Append(s, e))
  <2> HIDE DEF S
  <2> QED
    BY <1>2, SeqOver
<1> QED
  BY <1>2, <1>3

\* What Max({0, a}) is.
LEMMA MaxOfTwo ==
    ASSUME NEW a \in Int
    PROVE  Max({0, a}) = IF a >= 0 THEN a ELSE 0
<1>1. \E x \in {0, a} : \A y \in {0, a} : x >= y
  OBVIOUS
<1> QED
  BY <1>1 DEF Max

\* A set of numbers has a least one, and Min is it.
LEMMA MinOfSome ==
    ASSUME NEW S, S \subseteq Nat, S # {}
    PROVE  Min(S) \in S
<1> DEFINE R == OpToRel(<, Nat)
<1>1. IsWellFoundedOn(R, Nat)
  BY NatLessThanWellFounded
<1>2. \A x \in Nat, y \in Nat : y < x => <<y, x>> \in R
  BY DEF OpToRel
<1> HIDE DEF R
<1>3. PICK x \in S : \A y \in S : ~ (<<y, x>> \in R)
  BY <1>1, WFMin
<1>4. ASSUME NEW y \in S PROVE x =< y
  <2>1. x \in Nat /\ y \in Nat
    OBVIOUS
  <2>2. <<y, x>> \notin R
    BY <1>3
  <2>3. ~(y < x)
    BY <1>2, <2>1, <2>2
  <2> QED
    BY <2>1, <2>3
<1> QED
  BY <1>4 DEF Min

-----------------------------------------------------------------------------
\* What StreamAssumption says of the limits, the keys and the inputs.
LEMMA LimitFacts ==
    /\ MaxFileBytes \in Nat /\ MaxChanges \in Nat /\ ChunkBytes \in Nat /\ ChunkBytes >= 1
    /\ TagBytes \in Nat /\ TagBytes >= 1 /\ MaxName \in Nat
    /\ ContainerLimit = MaxFileBytes + 1 + MaxName + TagBytes
    /\ NewSuite \in Suite
    /\ \A s \in Suite : s \in Nat /\ s >= 1 /\ s <= MaxName /\ IsSeq(Keys[s])
    /\ \A t \in Plaintexts : IsSeq(t)
    /\ \A t \in Containers : IsSeq(t)
  BY StreamAssumption DEF ContainerLimit, IsSeq

\* The elements of a header.
LEMMA HeaderFacts ==
    ASSUME NEW s \in Suite
    PROVE  /\ IsSeq(HeaderOf(s)) /\ Len(HeaderOf(s)) = s + 1
           /\ \A i \in 1..s + 1 : HeaderOf(s)[i] = <<s>>
           /\ HeaderOf(s)[1][1] = s
<1>1. HeaderOf(s) = [i \in 1..s + 1 |-> HeaderOf(s)[i]] /\ s + 1 \in Nat
  BY LimitFacts DEF HeaderOf
<1>2. \A i \in 1..s + 1 : HeaderOf(s)[i] = <<s>>
  BY DEF HeaderOf
<1>3. 1 \in 1..s + 1
  BY LimitFacts
<1> QED
  BY <1>1, <1>2, <1>3, SeqMade

\* The elements of a ciphertext.
LEMMA EncryptedFacts ==
    ASSUME NEW k, NEW p, IsSeq(p)
    PROVE  /\ IsSeq(Encrypted(k, p)) /\ Len(Encrypted(k, p)) = Len(p)
           /\ \A i \in 1..Len(p) : Encrypted(k, p)[i] = <<k, i, p[i]>>
<1>1. Encrypted(k, p) = [i \in 1..Len(p) |-> Encrypted(k, p)[i]] /\ Len(p) \in Nat
  BY SeqFacts DEF Encrypted
<1> QED
  BY <1>1, SeqMade DEF Encrypted

\* The elements of a tag.
LEMMA TagFacts ==
    ASSUME NEW k, NEW h, NEW c
    PROVE  /\ IsSeq(Tag(k, h, c)) /\ Len(Tag(k, h, c)) = TagBytes
           /\ \A i \in 1..TagBytes : Tag(k, h, c)[i] = <<k, h, c, i>>
<1>1. Tag(k, h, c) = [i \in 1..TagBytes |-> Tag(k, h, c)[i]] /\ TagBytes \in Nat
  BY LimitFacts DEF Tag
<1> QED
  BY <1>1, SeqMade DEF Tag

\* The bytes of a container: its header, the payload and the tag.
LaidOut(b, k, s, p) ==
    /\ IsSeq(b) /\ Len(b) = s + 1 + Len(p) + TagBytes
    /\ \A i \in 1..s + 1 : b[i] = <<s>>
    /\ \A i \in 1..Len(p) : b[s + 1 + i] = <<k, i, p[i]>>
    /\ \A i \in 1..TagBytes : b[s + 1 + Len(p) + i] = <<k, HeaderOf(s), Encrypted(k, p), i>>

\* A container has the layout of a container.
LEMMA SealedLaidOut ==
    ASSUME NEW k, NEW s \in Suite, NEW p, IsSeq(p)
    PROVE  LaidOut(Sealed(k, s, p), k, s, p)
<1>1. PICK h : h = HeaderOf(s)
  OBVIOUS
<1>2. PICK c : c = Encrypted(k, p)
  OBVIOUS
<1>3. PICK t : t = Tag(k, h, c)
  OBVIOUS
<1>4. /\ IsSeq(h) /\ Len(h) = s + 1
      /\ \A i \in 1..s + 1 : h[i] = <<s>>
  BY <1>1, HeaderFacts
<1>5. /\ IsSeq(c) /\ Len(c) = Len(p)
      /\ \A i \in 1..Len(p) : c[i] = <<k, i, p[i]>>
  BY <1>2, EncryptedFacts
<1>6. /\ IsSeq(t) /\ Len(t) = TagBytes
      /\ \A i \in 1..TagBytes : t[i] = <<k, h, c, i>>
  BY <1>3, TagFacts
<1>7. s \in Nat /\ Len(p) \in Nat /\ TagBytes \in Nat
  BY LimitFacts, SeqFacts
<1>8. Sealed(k, s, p) = (h \o c) \o t
  BY <1>1, <1>2, <1>3 DEF Sealed
<1>9. PICK hc : hc = h \o c
  OBVIOUS
<1>10. /\ IsSeq(hc) /\ Len(hc) = s + 1 + Len(p)
       /\ \A i \in 1..s + 1 : hc[i] = h[i]
       /\ \A i \in 1..Len(p) : hc[s + 1 + i] = c[i]
  <2>1. IsSeq(h) /\ IsSeq(c)
    BY <1>4, <1>5
  <2>2. /\ IsSeq(h \o c)
        /\ Len(h \o c) = Len(h) + Len(c)
        /\ \A i \in 1..Len(h) : (h \o c)[i] = h[i]
        /\ \A i \in 1..Len(c) : (h \o c)[Len(h) + i] = c[i]
    BY <2>1, SeqJoined
  <2> QED
    BY <2>2, <1>4, <1>5, <1>7, <1>9
<1>11. PICK b : b = hc \o t
  OBVIOUS
<1>12. /\ IsSeq(b) /\ Len(b) = s + 1 + Len(p) + TagBytes
       /\ \A i \in 1..s + 1 + Len(p) : b[i] = hc[i]
       /\ \A i \in 1..TagBytes : b[s + 1 + Len(p) + i] = t[i]
  <2>1. IsSeq(hc) /\ IsSeq(t)
    BY <1>6, <1>10
  <2>2. /\ IsSeq(hc \o t)
        /\ Len(hc \o t) = Len(hc) + Len(t)
        /\ \A i \in 1..Len(hc) : (hc \o t)[i] = hc[i]
        /\ \A i \in 1..Len(t) : (hc \o t)[Len(hc) + i] = t[i]
    BY <2>1, SeqJoined
  <2> QED
    BY <2>2, <1>6, <1>7, <1>10, <1>11
<1>13. \A i \in 1..s + 1 : b[i] = <<s>>
  <2> TAKE i \in 1..s + 1
  <2>1. i \in 1..s + 1 + Len(p)
    BY <1>7
  <2> QED
    BY <2>1, <1>4, <1>10, <1>12
<1>14. \A i \in 1..Len(p) : b[s + 1 + i] = <<k, i, p[i]>>
  <2> TAKE i \in 1..Len(p)
  <2>1. s + 1 + i \in 1..s + 1 + Len(p)
    BY <1>7
  <2> QED
    BY <2>1, <1>5, <1>10, <1>12
<1>15. \A i \in 1..TagBytes : b[s + 1 + Len(p) + i] = <<k, h, c, i>>
  BY <1>6, <1>12
<1>16. Sealed(k, s, p) = b
  BY <1>8, <1>9, <1>11
<1>17. LaidOut(b, k, s, p)
  BY <1>1, <1>2, <1>12, <1>13, <1>14, <1>15 DEF LaidOut
<1> QED
  BY <1>16, <1>17

\* What has the layout of a container is that container.
LEMMA LaidOutSealed ==
    ASSUME NEW k, NEW s \in Suite, NEW p, IsSeq(p), NEW b, LaidOut(b, k, s, p)
    PROVE  b = Sealed(k, s, p)
<1>1. PICK c : c = Sealed(k, s, p)
  OBVIOUS
<1>2. LaidOut(c, k, s, p)
  BY <1>1, SealedLaidOut
<1>3. PICK h, e, n : h = HeaderOf(s) /\ e = Encrypted(k, p) /\ n = Len(p)
  OBVIOUS
<1>4. s \in Nat /\ n \in Nat /\ TagBytes \in Nat
  BY <1>3, LimitFacts, SeqFacts
<1>5. /\ IsSeq(b) /\ Len(b) = s + 1 + n + TagBytes
      /\ \A i \in 1..s + 1 : b[i] = <<s>>
      /\ \A i \in 1..n : b[s + 1 + i] = <<k, i, p[i]>>
      /\ \A i \in 1..TagBytes : b[s + 1 + n + i] = <<k, h, e, i>>
  BY <1>3 DEF LaidOut
<1>6. /\ IsSeq(c) /\ Len(c) = s + 1 + n + TagBytes
      /\ \A i \in 1..s + 1 : c[i] = <<s>>
      /\ \A i \in 1..n : c[s + 1 + i] = <<k, i, p[i]>>
      /\ \A i \in 1..TagBytes : c[s + 1 + n + i] = <<k, h, e, i>>
  BY <1>2, <1>3 DEF LaidOut
<1>7. ASSUME NEW i \in 1..Len(b) PROVE b[i] = c[i]
  <2>1. CASE i <= s + 1
    <3>1. i \in 1..s + 1
      BY <1>4, <2>1, <1>5
    <3> QED
      BY <1>5, <1>6, <3>1
  <2>2. CASE i > s + 1 /\ i <= s + 1 + n
    <3>1. PICK j \in 1..n : i = s + 1 + j
      <4>1. i - (s + 1) \in 1..n /\ i = s + 1 + (i - (s + 1))
        BY <1>4, <1>5, <2>2
      <4> QED
        BY <4>1
    <3> QED
      BY <1>5, <1>6, <3>1
  <2>3. CASE i > s + 1 + n
    <3>1. PICK j \in 1..TagBytes : i = s + 1 + n + j
      <4>1. i - (s + 1 + n) \in 1..TagBytes /\ i = s + 1 + n + (i - (s + 1 + n))
        BY <1>4, <1>5, <2>3
      <4> QED
        BY <4>1
    <3> QED
      BY <1>5, <1>6, <3>1
  <2> QED
    BY <1>4, <1>5, <2>1, <2>2, <2>3
<1> QED
  BY <1>1, <1>5, <1>6, <1>7, SeqSame

\* What has the elements of a ciphertext is that ciphertext.
LEMMA EncryptedOf ==
    ASSUME NEW k, NEW p, IsSeq(p), NEW c, IsSeq(c), Len(c) = Len(p),
           \A i \in 1..Len(p) : c[i] = <<k, i, p[i]>>
    PROVE  c = Encrypted(k, p)
<1>1. PICK e : e = Encrypted(k, p)
  OBVIOUS
<1>2. IsSeq(e) /\ Len(e) = Len(p) /\ \A i \in 1..Len(p) : e[i] = <<k, i, p[i]>>
  BY <1>1, EncryptedFacts
<1>3. \A i \in 1..Len(c) : c[i] = e[i]
  BY <1>2
<1>4. c = e
  BY <1>2, <1>3, SeqSame
<1> QED
  BY <1>1, <1>4

\* What has the elements of a header is that header.
LEMMA HeaderOfIs ==
    ASSUME NEW s \in Suite, NEW h, IsSeq(h), Len(h) = s + 1, \A i \in 1..s + 1 : h[i] = <<s>>
    PROVE  h = HeaderOf(s)
  BY HeaderFacts, SeqSame

\* What IsPrefix says, element by element.
LEMMA PrefixIs ==
    ASSUME NEW s, NEW t, IsSeq(s), IsSeq(t)
    PROVE  IsPrefix(s, t) <=> Len(s) <= Len(t) /\ \A i \in 1..Len(s) : s[i] = t[i]
<1>1. Len(s) \in Nat /\ Len(t) \in Nat
  BY SeqFacts
<1>2. SUFFICES ASSUME Len(s) <= Len(t)
               PROVE  SubSeq(s, 1, Len(s)) = SubSeq(t, 1, Len(s)) <=> \A i \in 1..Len(s) : s[i] = t[i]
  BY DEF IsPrefix
<1>3. /\ IsSeq(SubSeq(s, 1, Len(s))) /\ Len(SubSeq(s, 1, Len(s))) = Len(s)
      /\ \A i \in 1..Len(s) : SubSeq(s, 1, Len(s))[i] = s[i]
  BY <1>1, SeqStart
<1>4. /\ IsSeq(SubSeq(t, 1, Len(s))) /\ Len(SubSeq(t, 1, Len(s))) = Len(s)
      /\ \A i \in 1..Len(s) : SubSeq(t, 1, Len(s))[i] = t[i]
  BY <1>1, <1>2, SeqStart
<1>5. (\A i \in 1..Len(s) : s[i] = t[i]) => SubSeq(s, 1, Len(s)) = SubSeq(t, 1, Len(s))
  BY <1>3, <1>4, SeqSame
<1> QED
  BY <1>3, <1>4, <1>5

-----------------------------------------------------------------------------
\* The values of the state.
StreamTypes ==
    /\ op \in [kind : {"encrypt", "inspect", "verify", "decrypt"}, seekable : BOOLEAN, suite : Suite]
    /\ source \in IF op.kind = "encrypt" THEN Plaintexts ELSE Containers
    /\ changes \in 0..MaxChanges
    /\ pc \in {"begin", "head", "copy", "count", "verify", "release", "end"}
    /\ reader \in [of : {"source", "snapshot"}, pos : Nat, count : Nat, limit : Nat, total : Int]
    /\ reader.count <= reader.limit /\ reader.total >= Unknown
    /\ IsSeq(header) /\ IsSeq(snapshot) /\ IsSeq(fed) /\ IsSeq(tail) /\ IsSeq(sink)
    /\ Len(fed) <= MaxFileBytes /\ Len(tail) <= TagBytes
    /\ result \in {"none", "ok", "refused", "failed"}
    /\ result = "none" <=> pc # "end"

\* Which operation is at which step, and what it reads.
Stage ==
    /\ pc = "copy" => op.kind = "encrypt"
    /\ pc \in {"head", "count", "verify", "release"} => op.kind # "encrypt"
    /\ pc = "count" => op.kind \in {"inspect", "decrypt"}
    /\ pc = "verify" /\ reader.of = "source" => op.kind = "verify"
    /\ pc = "release" => op.kind = "decrypt" /\ reader.of = "snapshot"
    /\ reader.of = "snapshot" => op.kind = "decrypt" /\ pc \in {"head", "verify", "release", "end"}
    /\ op.kind = "decrypt" /\ pc = "count" => reader.of = "source"
    /\ pc = "begin" => header = <<>> /\ fed = <<>> /\ tail = <<>> /\ snapshot = <<>> /\ reader.of = "source"
    /\ op.kind \in {"inspect", "verify"} \/ (op.kind = "decrypt" /\ pc \notin {"release", "end"})
       \/ pc = "begin" => sink = <<>>

\* How far the reader is: what was read is in the header, in the context and in the tail.
Position ==
    /\ pc = "copy" =>
          /\ header = HeaderOf(NewSuite) /\ tail = <<>> /\ key = NewKey
          /\ reader.pos = Len(fed) /\ reader.count = Len(fed) /\ reader.limit = MaxFileBytes
    /\ pc = "head" =>
          /\ fed = <<>> /\ tail = <<>>
          /\ reader.pos = Len(header) /\ reader.count = Len(header) /\ reader.limit = ContainerLimit
          /\ header # <<>> => header[1][1] \in 1..MaxName /\ Len(header) <= header[1][1]
    /\ pc = "count" =>
          /\ fed = <<>> /\ tail = <<>>
          /\ \E s \in Suite : header = HeaderOf(s)
          /\ reader.pos = reader.count /\ reader.limit = ContainerLimit
          /\ Counted \in 0..MaxFileBytes + TagBytes
    /\ pc \in {"verify", "release"} =>
          /\ header = HeaderOf(op.suite)
          /\ reader.pos = Len(header) + Len(fed) + Len(tail)
          /\ fed # <<>> => Len(tail) = TagBytes
    /\ pc = "verify" => reader.count = reader.pos /\ reader.limit = ContainerLimit
    /\ pc = "release" => reader.count = Len(fed) + Len(tail)

\* What was read is the beginning of b.
ReadOf(b) ==
    /\ reader.pos <= Len(b)
    /\ \A i \in 1..Len(header) : header[i] = b[i]
    /\ \A i \in 1..Len(fed) : fed[i] = b[Len(header) + i]
    /\ \A i \in 1..Len(tail) : tail[i] = b[Len(header) + Len(fed) + i]

\* The snapshot stays as it is while it is read, and so does a source that is left alone.
Contents ==
    /\ pc \in {"head", "verify", "release"} /\ (reader.of = "snapshot" \/ changes = 0) =>
          ReadOf(Bytes(reader.of))
    /\ pc = "count" /\ changes = 0 => ReadOf(source)
    /\ pc \in {"copy", "head", "count", "verify"} /\ reader.of = "source" /\ changes = 0 =>
          reader.total \in {Unknown, Len(source)}
    /\ pc = "head" /\ reader.of = "snapshot" => reader.total = Len(snapshot)
    /\ reader.of = "snapshot" /\ changes = 0 => snapshot = source

\* An encryption writes what it read, encrypted.
Encryption ==
    pc = "copy" =>
        /\ Len(sink) = Len(header) + Len(fed)
        /\ \A i \in 1..Len(header) : sink[i] = header[i]
        /\ \A i \in 1..Len(fed) : sink[Len(header) + i] = fed[i]
        /\ changes = 0 => /\ reader.pos <= Len(source)
                          /\ \A i \in 1..Len(fed) : fed[i] = <<NewKey, i, source[i]>>

\* The snapshot is what was counted, and every byte of it is from a container.
Taken ==
    /\ op.kind # "encrypt" =>
          /\ \A i \in 1..Len(header) : \E c \in Containers : header[i] \in Range(c)
          /\ \A i \in 1..Len(snapshot) : \E c \in Containers : snapshot[i] \in Range(c)
    /\ op.kind = "decrypt" /\ pc = "count" =>
          /\ Len(snapshot) = reader.count
          /\ snapshot[1] = header[1]
          /\ changes = 0 => \A i \in 1..Len(snapshot) : snapshot[i] = source[i]

\* What is released is the plaintext of an authentic snapshot, as far as it was processed.
Releasing ==
    pc = "release" =>
        /\ \E i \in 1..Len(Keys[op.suite]) : key = Keys[op.suite][i]
        /\ Len(sink) = Len(fed)
        /\ \E p \in Plaintexts :
              /\ snapshot = Sealed(key, op.suite, p)
              /\ Len(p) <= MaxFileBytes /\ reader.limit = Len(p) + TagBytes
              /\ Len(fed) <= Len(p)
              /\ \A i \in 1..Len(sink) : sink[i] = p[i]

\* The inductive invariant: these hold between any two steps only together.
StreamInv ==
    /\ StreamTypes /\ Stage /\ Position /\ Contents /\ Encryption /\ Taken /\ Releasing
    /\ RoomIsBounded /\ ReleasedIsAuthentic /\ AcceptsExactly

-----------------------------------------------------------------------------
\* A container of a length that the limit allows, as far as its header tells.
Fits(b, s) ==
    /\ IsPrefix(HeaderOf(s), b)
    /\ Len(b) - Len(HeaderOf(s)) \in TagBytes..MaxFileBytes + TagBytes

\* What the operation is to accept.
Acceptable ==
    \/ op.kind = "encrypt" /\ Len(source) <= MaxFileBytes
    \/ op.kind = "inspect" /\ \E s \in Suite : Fits(source, s)
    \/ /\ op.kind \in {"verify", "decrypt"}
       /\ \E p \in Plaintexts : Len(p) <= MaxFileBytes /\ Opens(source, p)

\* The source and the snapshot are sequences.
LEMMA SourceFacts ==
    ASSUME StreamTypes
    PROVE  IsSeq(source) /\ IsSeq(snapshot) /\ Len(source) \in Nat /\ Len(snapshot) \in Nat
<1>1. IsSeq(source) /\ IsSeq(snapshot)
  BY LimitFacts DEF StreamTypes
<1> QED
  BY <1>1, SeqFacts

\* The length and the header of a container that fits.
LEMMA FitsFacts ==
    ASSUME NEW b, IsSeq(b), NEW s \in Suite, Fits(b, s)
    PROVE  /\ Len(b) >= s + 1 + TagBytes /\ Len(b) <= s + 1 + MaxFileBytes + TagBytes
           /\ \A i \in 1..s + 1 : b[i] = <<s>>
<1>1. Len(b) \in Nat /\ s \in Nat /\ TagBytes \in Nat /\ MaxFileBytes \in Nat
  BY LimitFacts, SeqFacts
<1>2. /\ IsSeq(HeaderOf(s)) /\ Len(HeaderOf(s)) = s + 1
      /\ \A i \in 1..s + 1 : HeaderOf(s)[i] = <<s>>
  BY HeaderFacts
<1>3. \A i \in 1..Len(HeaderOf(s)) : HeaderOf(s)[i] = b[i]
  BY <1>2, PrefixIs DEF Fits
<1>4. Len(b) - (s + 1) \in TagBytes..MaxFileBytes + TagBytes
  BY <1>2 DEF Fits
<1> QED
  BY <1>1, <1>2, <1>3, <1>4

\* The container of a plaintext within the limit fits.
LEMMA SealedFits ==
    ASSUME NEW k, NEW s \in Suite, NEW p \in Plaintexts, Len(p) <= MaxFileBytes
    PROVE  Fits(Sealed(k, s, p), s)
<1>1. IsSeq(p) /\ Len(p) \in Nat /\ s \in Nat /\ TagBytes \in Nat /\ MaxFileBytes \in Nat
  BY LimitFacts, SeqFacts
<1>2. PICK b : b = Sealed(k, s, p)
  OBVIOUS
<1>3. /\ IsSeq(b) /\ Len(b) = s + 1 + Len(p) + TagBytes
      /\ \A i \in 1..s + 1 : b[i] = <<s>>
  <2>1. LaidOut(b, k, s, p)
    BY <1>1, <1>2, SealedLaidOut
  <2> QED
    BY <2>1 DEF LaidOut
<1>4. /\ IsSeq(HeaderOf(s)) /\ Len(HeaderOf(s)) = s + 1
      /\ \A i \in 1..s + 1 : HeaderOf(s)[i] = <<s>>
  BY HeaderFacts
<1>5. IsPrefix(HeaderOf(s), b)
  BY <1>1, <1>3, <1>4, PrefixIs
<1>6. Len(b) - Len(HeaderOf(s)) \in TagBytes..MaxFileBytes + TagBytes
  BY <1>1, <1>3, <1>4
<1> QED
  BY <1>2, <1>5, <1>6 DEF Fits

\* A container that is to be accepted fits, under the suite of the private key.
LEMMA AcceptableFits ==
    ASSUME StreamTypes, Acceptable, op.kind # "encrypt"
    PROVE  \E s \in Suite : Fits(source, s) /\ (op.kind # "inspect" => s = op.suite)
<1>1. CASE op.kind = "inspect"
  BY <1>1 DEF Acceptable
<1>2. CASE op.kind \in {"verify", "decrypt"}
  <2>1. PICK p \in Plaintexts : Len(p) <= MaxFileBytes /\ Opens(source, p)
    BY <1>2 DEF Acceptable
  <2>2. PICK i \in 1..Len(Keys[op.suite]) : source = Sealed(Keys[op.suite][i], op.suite, p)
    BY <2>1 DEF Opens
  <2>3. op.suite \in Suite
    BY DEF StreamTypes
  <2> QED
    BY <2>1, <2>2, <2>3, SealedFits
<1> QED
  BY <1>1, <1>2 DEF StreamTypes

\* AcceptsExactly, with what is to be accepted under one name.
Accepted ==
    result \in {"ok", "refused"} /\ changes = 0 =>
        /\ result = "ok" <=> Acceptable
        /\ result = "ok" /\ op.kind = "encrypt" => sink = Sealed(NewKey, NewSuite, source)

\* Accepted says what AcceptsExactly says.
LEMMA AcceptsIs == StreamTypes => (AcceptsExactly <=> Accepted)
<1> SUFFICES ASSUME StreamTypes PROVE AcceptsExactly <=> Accepted
  OBVIOUS
<1>1. op.kind \in {"encrypt", "inspect", "verify", "decrypt"}
  BY DEF StreamTypes
<1>2. CASE op.kind = "encrypt"
  BY <1>2 DEF AcceptsExactly, Acceptable, Accepted
<1>3. CASE op.kind = "inspect"
  BY <1>3 DEF AcceptsExactly, Acceptable, Fits, Accepted
<1>4. CASE op.kind = "verify"
  BY <1>4 DEF AcceptsExactly, Acceptable, Accepted
<1>5. CASE op.kind = "decrypt"
  BY <1>5 DEF AcceptsExactly, Acceptable, Accepted
<1> QED
  BY <1>1, <1>2, <1>3, <1>4, <1>5

\* The same of the next state.
LEMMA AcceptsNext == StreamTypes' => (AcceptsExactly' <=> Accepted')
  BY AcceptsIs, PTL

\* What is to be accepted depends on the operation and the source alone.
LEMMA AcceptableSame ==
    ASSUME UNCHANGED <<op, source>>
    PROVE  Acceptable' <=> Acceptable
  BY DEF Acceptable, Opens

\* A refusal keeps the invariant when nothing acceptable is refused.
LEMMA RefusedKeeps ==
    ASSUME StreamInv, pc # "end", Refused, changes = 0 => ~Acceptable
    PROVE  StreamInv'
<1>1. /\ pc' = "end" /\ result' = "refused"
      /\ UNCHANGED <<op, source, changes, reader, header, snapshot, fed, tail, key, sink>>
  BY DEF Refused, Ends, given
<1>2. StreamTypes'
  BY <1>1 DEF StreamInv, StreamTypes
<1>3. Stage'
  BY <1>1 DEF StreamInv, Stage
<1>4. Position'
  BY <1>1 DEF Position
<1>5. Contents'
  BY <1>1 DEF StreamInv, Contents
<1>6. Encryption' /\ Releasing'
  BY <1>1 DEF Encryption, Releasing
<1>7. Taken'
  BY <1>1 DEF StreamInv, Taken
<1>8. RoomIsBounded'
  BY <1>1 DEF StreamInv, RoomIsBounded
<1>9. ReleasedIsAuthentic'
  BY <1>1 DEF StreamInv, ReleasedIsAuthentic, Opens
<1>10. AcceptsExactly'
  BY <1>1, <1>2, AcceptableSame, AcceptsNext DEF Accepted
<1> QED
  BY <1>2, <1>3, <1>4, <1>5, <1>6, <1>7, <1>8, <1>9, <1>10 DEF StreamInv

\* An I/O error or a cancellation keeps the invariant.
LEMMA InterruptedKeeps ==
    ASSUME StreamInv, Interrupted
    PROVE  StreamInv'
<1>1. /\ pc' = "end" /\ result' = "failed"
      /\ UNCHANGED <<op, source, changes, reader, header, snapshot, fed, tail, key, sink>>
  BY DEF Interrupted, Ends, given
<1>2. StreamTypes'
  BY <1>1 DEF StreamInv, StreamTypes
<1>3. Stage'
  BY <1>1 DEF StreamInv, Stage
<1>4. Position'
  BY <1>1 DEF Position
<1>5. Contents'
  BY <1>1 DEF StreamInv, Contents
<1>6. Encryption' /\ Releasing'
  BY <1>1 DEF Encryption, Releasing
<1>7. Taken'
  BY <1>1 DEF StreamInv, Taken
<1>8. RoomIsBounded'
  BY <1>1 DEF StreamInv, RoomIsBounded
<1>9. ReleasedIsAuthentic'
  BY <1>1 DEF StreamInv, ReleasedIsAuthentic, Opens
<1>10. AcceptsExactly'
  BY <1>1, <1>2, AcceptsNext DEF Accepted
<1> QED
  BY <1>2, <1>3, <1>4, <1>5, <1>6, <1>7, <1>8, <1>9, <1>10 DEF StreamInv

\* A change of the source keeps the invariant: what is promised of the bytes that
\* were read is promised of a source that is left alone, or of the snapshot.
LEMMA ChangedKeeps ==
    ASSUME StreamInv, Changed
    PROVE  StreamInv'
<1>1. /\ changes < MaxChanges /\ changes' = changes + 1
      /\ source' \in IF op.kind = "encrypt" THEN Plaintexts ELSE Containers
      /\ UNCHANGED <<op, pc, reader, header, snapshot, fed, tail, key, sink, result>>
  BY DEF Changed
<1>0. changes' # 0
  BY <1>1, LimitFacts DEF StreamInv, StreamTypes
<1>2. StreamTypes'
  BY <1>1, LimitFacts DEF StreamInv, StreamTypes
<1>3. Stage'
  BY <1>1 DEF StreamInv, Stage
<1>4. Position'
  BY <1>1 DEF StreamInv, Position, Counted
<1>5. Contents'
  <2>1. reader.of = "snapshot" => Bytes(reader.of)' = Bytes(reader.of)
    BY <1>1 DEF Bytes
  <2>2. reader.of = "snapshot" => ReadOf(Bytes(reader.of))' = ReadOf(Bytes(reader.of))
    BY <1>1, <2>1 DEF ReadOf
  <2> QED
    BY <1>0, <1>1, <2>2 DEF StreamInv, Contents
<1>6. Encryption'
  BY <1>0, <1>1 DEF StreamInv, Encryption
<1>7. Taken'
  BY <1>0, <1>1 DEF StreamInv, Taken
<1>8. RoomIsBounded'
  BY <1>1 DEF StreamInv, RoomIsBounded
<1>9. ReleasedIsAuthentic'
  BY <1>1 DEF StreamInv, ReleasedIsAuthentic, Opens
<1>10. AcceptsExactly'
  BY <1>0, <1>2, AcceptsNext DEF Accepted
<1>11. Releasing'
  BY <1>1 DEF StreamInv, Releasing
<1> QED
  BY <1>2, <1>3, <1>4, <1>5, <1>6, <1>7, <1>8, <1>9, <1>10, <1>11 DEF StreamInv

\* The start of an operation keeps the invariant: a source whose length already
\* exceeds the limit is not acceptable.
LEMMA BeginKeeps ==
    ASSUME StreamInv, Begin
    PROVE  StreamInv'
<1>0. /\ StreamTypes /\ Stage /\ Contents /\ Taken /\ pc = "begin"
      /\ op.kind \in {"encrypt", "inspect", "verify", "decrypt"}
      /\ header = <<>> /\ fed = <<>> /\ tail = <<>> /\ snapshot = <<>> /\ sink = <<>>
  BY DEF StreamInv, StreamTypes, Stage, Begin
<1>1. PICK r : r = NewReader("source", 0, IF op.kind = "encrypt" THEN MaxFileBytes ELSE ContainerLimit)
  OBVIOUS
<1>2. /\ r.of = "source" /\ r.pos = 0 /\ r.count = 0
      /\ r.limit = IF op.kind = "encrypt" THEN MaxFileBytes ELSE ContainerLimit
      /\ r.total \in {Unknown, Len(source)} /\ r.total \in Int /\ r.total >= Unknown
      /\ r \in [of : {"source", "snapshot"}, pos : Nat, count : Nat, limit : Nat, total : Int]
  <2>1. Len(source) \in Nat
    BY <1>0, SourceFacts
  <2>2. Max({0, Len(source) - 0}) = Len(source)
    BY <2>1, MaxOfTwo
  <2>3. /\ r.of = "source" /\ r.pos = 0 /\ r.count = 0
        /\ r.limit = IF op.kind = "encrypt" THEN MaxFileBytes ELSE ContainerLimit
        /\ r = [of |-> r.of, pos |-> r.pos, count |-> r.count, limit |-> r.limit, total |-> r.total]
    BY <1>1 DEF NewReader
  <2>4. r.total \in {Unknown, Len(source)}
    BY <1>1, <2>2 DEF NewReader, Bytes
  <2>5. ContainerLimit \in Nat
    BY LimitFacts
  <2> QED
    BY <2>1, <2>3, <2>4, <2>5, LimitFacts DEF Unknown
<1>3. CASE r.total > r.limit
  <2>1. Refused
    BY <1>1, <1>3 DEF Begin
  <2>2. Len(source) > r.limit /\ Len(source) \in Nat /\ IsSeq(source)
    BY <1>0, <1>2, <1>3, SourceFacts, LimitFacts DEF Unknown
  <2>3. ~Acceptable
    <3>1. CASE op.kind = "encrypt"
      BY <1>2, <2>2, <3>1, LimitFacts DEF Acceptable
    <3>2. CASE op.kind # "encrypt"
      <4> SUFFICES ASSUME Acceptable PROVE FALSE
        OBVIOUS
      <4>1. PICK s \in Suite : Fits(source, s)
        BY <1>0, <3>2, AcceptableFits
      <4>2. Len(source) <= s + 1 + MaxFileBytes + TagBytes
        BY <2>2, <4>1, FitsFacts
      <4> QED
        BY <1>2, <2>2, <3>2, <4>2, LimitFacts
    <3> QED
      BY <3>1, <3>2
  <2> QED
    BY <1>0, <2>1, <2>3, RefusedKeeps
<1>4. CASE ~(r.total > r.limit)
  <2>1. /\ reader' = r
        /\ pc' = IF op.kind = "encrypt" THEN "copy" ELSE "head"
        /\ header' = IF op.kind = "encrypt" THEN HeaderOf(NewSuite) ELSE header
        /\ sink' = header'
        /\ key' = IF op.kind = "encrypt" THEN NewKey ELSE key
        /\ UNCHANGED <<op, source, changes, snapshot, fed, tail, result>>
    BY <1>1, <1>4 DEF Begin, given
  <2>2. /\ IsSeq(HeaderOf(NewSuite)) /\ Len(HeaderOf(NewSuite)) = NewSuite + 1
        /\ IsSeq(<<>>) /\ Len(<<>>) = 0
    BY HeaderFacts, LimitFacts, SeqEmpty
  <2>3. StreamTypes'
    <3>1. IsSeq(header') /\ IsSeq(sink')
      BY <1>0, <2>1, <2>2
    <3>2. (reader.count <= reader.limit /\ reader.total >= Unknown)'
      BY <1>2, <2>1, LimitFacts
    <3> QED
      BY <1>0, <1>2, <2>1, <3>1, <3>2 DEF StreamTypes
  <2>4. Stage'
    BY <1>0, <1>2, <2>1 DEF Stage
  <2>5. Position'
    BY <1>0, <1>2, <2>1, <2>2, LimitFacts DEF Position
  <2>6. Contents'
    <3>1. pc' = "head" => ReadOf(Bytes(reader.of))'
      BY <1>0, <1>2, <2>1, <2>2, SourceFacts DEF ReadOf, Bytes
    <3> QED
      BY <1>2, <2>1, <3>1 DEF Contents
  <2>7. Encryption'
    BY <1>0, <1>2, <2>1, <2>2, SourceFacts, LimitFacts DEF Encryption
  <2>8. Taken'
    BY <1>0, <2>1, <2>2 DEF Taken
  <2>9. Releasing'
    BY <2>1 DEF Releasing
  <2>10. RoomIsBounded'
    <3>1. Len(sink') <= ContainerLimit
      BY <1>0, <2>1, <2>2, LimitFacts
    <3> QED
      BY <1>0, <2>1, <3>1 DEF RoomIsBounded
  <2>11. ReleasedIsAuthentic'
    BY <1>0, <2>1 DEF ReleasedIsAuthentic, StreamTypes
  <2>12. AcceptsExactly'
    BY <1>0, <2>1, <2>3, AcceptsNext DEF Accepted, StreamTypes
  <2> QED
    BY <2>3, <2>4, <2>5, <2>6, <2>7, <2>8, <2>9, <2>10, <2>11, <2>12 DEF StreamInv
<1> QED
  BY <1>3, <1>4

\* What a read returns: a piece of the bytes from where the reader stands.
LEMMA ChunkFacts ==
    ASSUME StreamTypes, ~AtEnd, NEW size \in Nat, size >= 1, NEW data \in Chunks(size)
    PROVE  /\ IsSeq(data) /\ Len(data) \in Nat /\ Len(data) >= 1 /\ Len(data) <= size
           /\ reader.pos + Len(data) <= Len(Bytes(reader.of))
           /\ \A i \in 1..Len(data) : data[i] = Bytes(reader.of)[reader.pos + i]
<1>1. PICK b : b = Bytes(reader.of)
  OBVIOUS
<1>2. IsSeq(b) /\ Len(b) \in Nat
  BY <1>1, SourceFacts DEF Bytes
<1>3. PICK pos : pos = reader.pos
  OBVIOUS
<1>4. pos \in Nat /\ reader.count \in Nat /\ reader.limit \in Nat /\ reader.count <= reader.limit
  BY <1>3 DEF StreamTypes
<1>5. pos < Len(b)
  BY <1>1, <1>2, <1>3, <1>4 DEF AtEnd
<1>6. PICK room, left : room = reader.limit - reader.count + 1 /\ left = Len(b) - pos
  OBVIOUS
<1>61. PICK most : most = Min({ChunkBytes, room, size, left})
  OBVIOUS
<1>7. most \in Int /\ most <= size /\ most <= Len(b) - pos
  <2>1. ChunkBytes \in Int /\ room \in Int /\ size \in Int /\ left \in Int
    BY <1>2, <1>4, <1>6, LimitFacts
  <2>2. /\ Min({ChunkBytes, room, size, left}) \in {ChunkBytes, room, size, left}
        /\ \A x \in {ChunkBytes, room, size, left} : Min({ChunkBytes, room, size, left}) <= x
    <3>1. \E x \in {ChunkBytes, room, size, left} : \A y \in {ChunkBytes, room, size, left} : x =< y
      BY <2>1
    <3> QED
      BY <3>1 DEF Min
  <2> QED
    BY <2>1, <2>2, <1>6, <1>61
<1>8. PICK n \in 1..most : data = SubSeq(b, pos + 1, pos + n)
  BY <1>1, <1>3, <1>6, <1>61 DEF Chunks
<1>9. n \in Nat /\ n >= 1 /\ n <= size /\ pos + n <= Len(b) /\ pos + n \in Nat
  BY <1>2, <1>4, <1>7
<1>10. /\ IsSeq(data) /\ Len(data) = (pos + n) - pos
       /\ \A i \in 1..(pos + n) - pos : data[i] = b[pos + i]
  BY <1>2, <1>4, <1>8, <1>9, SeqCut
<1>11. (pos + n) - pos = n
  BY <1>4, <1>9
<1> QED
  BY <1>1, <1>3, <1>9, <1>10, <1>11

\* A reader that has read n bytes more.
LEMMA ReadOn ==
    ASSUME NEW r \in [of : {"source", "snapshot"}, pos : Nat, count : Nat, limit : Nat, total : Int],
           NEW n \in Nat, NEW q, q = [r EXCEPT !.pos = @ + n, !.count = @ + n]
    PROVE  /\ q.of = r.of /\ q.pos = r.pos + n /\ q.count = r.count + n
           /\ q.limit = r.limit /\ q.total = r.total
           /\ q \in [of : {"source", "snapshot"}, pos : Nat, count : Nat, limit : Nat, total : Int]
<1>1. /\ r.of \in {"source", "snapshot"} /\ r.pos \in Nat /\ r.count \in Nat /\ r.limit \in Nat /\ r.total \in Int
      /\ DOMAIN r = {"of", "pos", "count", "limit", "total"}
  OBVIOUS
<1>2. r.pos + n \in Nat /\ r.count + n \in Nat
  BY <1>1
<1>3. q.of = r.of /\ q.limit = r.limit /\ q.total = r.total
  OBVIOUS
<1>4. q.pos = r.pos + n
  BY <1>1
<1>5. q.count = r.count + n
  BY <1>1
<1>6. q = [of |-> q.of, pos |-> q.pos, count |-> q.count, limit |-> q.limit, total |-> q.total]
  BY <1>1
<1> QED
  BY <1>1, <1>2, <1>3, <1>4, <1>5, <1>6

\* The reader after data was read.
LEMMA AfterFacts ==
    ASSUME StreamTypes, NEW data, Len(data) \in Nat, NEW r, r = After(data)
    PROVE  /\ r.of = reader.of /\ r.pos = reader.pos + Len(data) /\ r.count = reader.count + Len(data)
           /\ r.limit = reader.limit /\ r.total = reader.total
           /\ r \in [of : {"source", "snapshot"}, pos : Nat, count : Nat, limit : Nat, total : Int]
<1>1. reader \in [of : {"source", "snapshot"}, pos : Nat, count : Nat, limit : Nat, total : Int]
  BY DEF StreamTypes
<1>2. PICK n : n = Len(data)
  OBVIOUS
<1>3. n \in Nat /\ r = [reader EXCEPT !.pos = @ + n, !.count = @ + n]
  BY <1>2 DEF After
<1> QED
  BY <1>1, <1>2, <1>3, ReadOn

\* A step of the loop of encrypt_stream keeps the invariant.
LEMMA CopyKeeps ==
    ASSUME StreamInv, Copy
    PROVE  StreamInv'
<1>0. /\ StreamTypes /\ pc = "copy" /\ ~AtEnd /\ op.kind = "encrypt" /\ reader.of = "source"
      /\ header = HeaderOf(NewSuite) /\ tail = <<>> /\ key = NewKey
      /\ reader.pos = Len(fed) /\ reader.count = Len(fed) /\ reader.limit = MaxFileBytes
      /\ Taken
  BY DEF StreamInv, Stage, Position, Copy, StreamTypes
<1>1. /\ Len(sink) = Len(header) + Len(fed)
      /\ \A i \in 1..Len(header) : sink[i] = header[i]
      /\ \A i \in 1..Len(fed) : sink[Len(header) + i] = fed[i]
      /\ changes = 0 => /\ reader.pos <= Len(source)
                        /\ \A i \in 1..Len(fed) : fed[i] = <<NewKey, i, source[i]>>
  BY <1>0 DEF StreamInv, Encryption
<1>2. PICK data \in Chunks(ChunkBytes) :
         IF ~Within(data)
            THEN Refused
            ELSE LET c == [i \in 1..Len(data) |-> <<key, Len(fed) + i, data[i]>>] IN
                 /\ reader' = After(data)
                 /\ fed' = fed \o c
                 /\ sink' = sink \o c
                 /\ UNCHANGED <<given, pc, header, snapshot, tail, key, result>>
  BY DEF Copy
<1>3. /\ IsSeq(data) /\ Len(data) \in Nat /\ Len(data) >= 1
      /\ reader.pos + Len(data) <= Len(source)
      /\ \A i \in 1..Len(data) : data[i] = source[reader.pos + i]
  BY <1>0, LimitFacts, ChunkFacts DEF Bytes
<1>4. /\ IsSeq(fed) /\ IsSeq(sink) /\ IsSeq(header)
      /\ Len(fed) \in Nat /\ Len(sink) \in Nat /\ Len(header) \in Nat /\ Len(source) \in Nat
  <2>1. IsSeq(fed) /\ IsSeq(sink) /\ IsSeq(header)
    BY <1>0 DEF StreamTypes
  <2> QED
    BY <1>0, <2>1, SeqFacts, SourceFacts
<1>5. CASE ~Within(data)
  <2>1. Refused
    BY <1>2, <1>5
  <2>2. Len(source) > MaxFileBytes
    BY <1>0, <1>3, <1>4, <1>5, LimitFacts DEF Within
  <2>3. ~Acceptable
    BY <1>0, <1>4, <2>2, LimitFacts DEF Acceptable
  <2> QED
    BY <1>0, <2>1, <2>3, RefusedKeeps
<1>6. CASE Within(data)
  <2>1. PICK c : c = [i \in 1..Len(data) |-> <<NewKey, Len(fed) + i, data[i]>>]
    OBVIOUS
  <2>2. /\ IsSeq(c) /\ Len(c) = Len(data)
        /\ \A i \in 1..Len(data) : c[i] = <<NewKey, Len(fed) + i, data[i]>>
    <3>1. c = [i \in 1..Len(data) |-> c[i]]
      BY <2>1
    <3> QED
      BY <1>3, <2>1, <3>1, SeqMade
  <2>3. /\ reader' = After(data) /\ fed' = fed \o c /\ sink' = sink \o c
        /\ UNCHANGED <<op, source, changes, pc, header, snapshot, tail, key, result>>
    BY <1>0, <1>2, <1>6, <2>1 DEF given
  <2>4. /\ IsSeq(fed') /\ Len(fed') = Len(fed) + Len(data)
        /\ \A i \in 1..Len(fed) : fed'[i] = fed[i]
        /\ \A i \in 1..Len(data) : fed'[Len(fed) + i] = c[i]
    <3>1. IsSeq(fed) /\ IsSeq(c)
      BY <1>4, <2>2
    <3>2. /\ IsSeq(fed \o c) /\ Len(fed \o c) = Len(fed) + Len(c)
          /\ \A i \in 1..Len(fed) : (fed \o c)[i] = fed[i]
          /\ \A i \in 1..Len(c) : (fed \o c)[Len(fed) + i] = c[i]
      BY <3>1, SeqJoined
    <3> QED
      BY <2>2, <2>3, <3>2
  <2>5. /\ IsSeq(sink') /\ Len(sink') = Len(sink) + Len(data)
        /\ \A i \in 1..Len(sink) : sink'[i] = sink[i]
        /\ \A i \in 1..Len(data) : sink'[Len(sink) + i] = c[i]
    <3>1. IsSeq(sink) /\ IsSeq(c)
      BY <1>4, <2>2
    <3>2. /\ IsSeq(sink \o c) /\ Len(sink \o c) = Len(sink) + Len(c)
          /\ \A i \in 1..Len(sink) : (sink \o c)[i] = sink[i]
          /\ \A i \in 1..Len(c) : (sink \o c)[Len(sink) + i] = c[i]
      BY <3>1, SeqJoined
    <3> QED
      BY <2>2, <2>3, <3>2
  <2>6. /\ reader'.of = "source" /\ reader'.pos = reader.pos + Len(data)
        /\ reader'.count = reader.count + Len(data)
        /\ reader'.limit = reader.limit /\ reader'.total = reader.total
        /\ reader' \in [of : {"source", "snapshot"}, pos : Nat, count : Nat, limit : Nat, total : Int]
    BY <1>0, <1>3, <2>3, AfterFacts
  <2>7. Len(fed) + Len(data) <= MaxFileBytes
    BY <1>0, <1>6 DEF Within
  <2>8. StreamTypes'
    <3>1. (reader.count <= reader.limit /\ reader.total >= Unknown)'
      BY <1>0, <2>6, <2>7 DEF StreamTypes
    <3>2. (Len(fed) <= MaxFileBytes /\ Len(tail) <= TagBytes)'
      BY <1>0, <2>3, <2>4, <2>7 DEF StreamTypes
    <3> QED
      BY <1>0, <2>3, <2>4, <2>5, <2>6, <3>1, <3>2 DEF StreamTypes
  <2>9. Stage'
    BY <1>0, <2>3, <2>6 DEF Stage
  <2>10. Position'
    BY <1>0, <2>3, <2>4, <2>6 DEF Position
  <2>11. Contents'
    BY <1>0, <2>3, <2>6 DEF Contents, StreamInv
  <2>12. Encryption'
    <3>1. Len(sink)' = Len(header)' + Len(fed)'
      BY <1>1, <1>3, <1>4, <2>3, <2>4, <2>5
    <3>2. \A i \in 1..Len(header) : sink'[i] = header[i]
      BY <1>1, <1>4, <2>5
    <3>3. ASSUME NEW i \in 1..Len(fed') PROVE sink'[Len(header) + i] = fed'[i]
      <4>1. CASE i <= Len(fed)
        <5>1. i \in 1..Len(fed) /\ Len(header) + i \in 1..Len(sink)
          BY <1>1, <1>4, <4>1
        <5> QED
          BY <1>1, <2>4, <2>5, <5>1
      <4>2. CASE i > Len(fed)
        <5>1. PICK j \in 1..Len(data) : i = Len(fed) + j
          <6>1. i - Len(fed) \in 1..Len(data) /\ i = Len(fed) + (i - Len(fed))
            BY <1>3, <1>4, <2>4, <4>2
          <6> QED
            BY <6>1
        <5>2. Len(header) + i = Len(sink) + j
          BY <1>1, <1>4, <5>1
        <5> QED
          BY <2>4, <2>5, <5>1, <5>2
      <4> QED
        BY <1>4, <2>4, <1>3, <4>1, <4>2
    <3>4. ASSUME changes = 0, NEW i \in 1..Len(fed') PROVE fed'[i] = <<NewKey, i, source[i]>>
      <4>1. CASE i <= Len(fed)
        <5>1. i \in 1..Len(fed)
          BY <1>4, <4>1
        <5> QED
          BY <1>1, <2>4, <3>4, <5>1
      <4>2. CASE i > Len(fed)
        <5>1. PICK j \in 1..Len(data) : i = Len(fed) + j
          <6>1. i - Len(fed) \in 1..Len(data) /\ i = Len(fed) + (i - Len(fed))
            BY <1>3, <1>4, <2>4, <4>2
          <6> QED
            BY <6>1
        <5> QED
          BY <1>0, <1>3, <2>2, <2>4, <5>1
      <4> QED
        BY <1>4, <2>4, <1>3, <4>1, <4>2
    <3>5. reader'.pos <= Len(source)
      BY <1>3, <2>6
    <3> QED
      BY <2>3, <3>1, <3>2, <3>3, <3>4, <3>5 DEF Encryption
  <2>13. Taken'
    BY <1>0, <2>3 DEF Taken
  <2>14. Releasing'
    BY <1>0, <2>3 DEF Releasing
  <2>15. RoomIsBounded'
    <3>1. Len(header) <= MaxName + 1
      BY <1>0, HeaderFacts, LimitFacts
    <3>2. Len(sink') <= ContainerLimit
      BY <1>1, <1>3, <1>4, <2>5, <2>7, <3>1, LimitFacts
    <3> QED
      BY <2>3, <3>2 DEF RoomIsBounded, StreamInv
  <2>16. ReleasedIsAuthentic'
    BY <1>0, <2>3 DEF ReleasedIsAuthentic
  <2>17. AcceptsExactly'
    BY <1>0, <2>3, <2>8, AcceptsNext DEF Accepted, StreamTypes
  <2> QED
    BY <2>8, <2>9, <2>10, <2>11, <2>12, <2>13, <2>14, <2>15, <2>16, <2>17 DEF StreamInv
<1> QED
  BY <1>5, <1>6

\* The end of an operation that accepts.
LEMMA AcceptedKeeps ==
    ASSUME StreamInv, pc # "end", Ends("ok"), IsSeq(sink'), Len(sink') <= ContainerLimit,
           changes = 0 => Acceptable,
           op.kind = "encrypt" /\ changes = 0 => sink' = Sealed(NewKey, NewSuite, source),
           op.kind # "encrypt" => sink' = sink,
           op.kind = "decrypt" => \E p \in Plaintexts : Opens(snapshot, p) /\ IsPrefix(sink, p) /\ sink = p
    PROVE  StreamInv'
<1>1. /\ pc' = "end" /\ result' = "ok"
      /\ UNCHANGED <<op, source, changes, reader, header, snapshot, fed, tail, key>>
  BY DEF Ends, given
<1>2. StreamTypes'
  BY <1>1 DEF StreamInv, StreamTypes
<1>3. Stage'
  BY <1>1 DEF StreamInv, Stage
<1>4. Position'
  BY <1>1 DEF Position
<1>5. Contents'
  BY <1>1 DEF StreamInv, Contents
<1>6. Encryption' /\ Releasing'
  BY <1>1 DEF Encryption, Releasing
<1>7. Taken'
  BY <1>1 DEF StreamInv, Taken
<1>8. RoomIsBounded'
  BY <1>1 DEF StreamInv, RoomIsBounded
<1>9. ReleasedIsAuthentic'
  <2>1. op.kind = "decrypt" => \E p \in Plaintexts : Opens(snapshot, p)' /\ IsPrefix(sink', p) /\ sink' = p
    BY <1>1 DEF Opens
  <2> QED
    BY <1>1, <2>1 DEF ReleasedIsAuthentic
<1>10. AcceptsExactly'
  <2>1. op'.kind = "encrypt" /\ changes' = 0 => sink' = Sealed(NewKey, NewSuite, source)'
    BY <1>1
  <2>2. changes' = 0 => Acceptable'
    BY <1>1, AcceptableSame
  <2> QED
    BY <1>1, <1>2, <2>1, <2>2, AcceptsNext DEF Accepted
<1> QED
  BY <1>2, <1>3, <1>4, <1>5, <1>6, <1>7, <1>8, <1>9, <1>10 DEF StreamInv

\* The end of encrypt_stream keeps the invariant: what was written is the sealed source.
LEMMA CopiedKeeps ==
    ASSUME StreamInv, Copied
    PROVE  StreamInv'
<1>0. /\ StreamTypes /\ pc = "copy" /\ AtEnd /\ op.kind = "encrypt" /\ reader.of = "source"
      /\ header = HeaderOf(NewSuite) /\ key = NewKey
      /\ reader.pos = Len(fed) /\ Len(fed) <= MaxFileBytes
  BY DEF StreamInv, Stage, Position, Copied, StreamTypes
<1>1. /\ Len(sink) = Len(header) + Len(fed)
      /\ \A i \in 1..Len(header) : sink[i] = header[i]
      /\ \A i \in 1..Len(fed) : sink[Len(header) + i] = fed[i]
      /\ changes = 0 => /\ reader.pos <= Len(source)
                        /\ \A i \in 1..Len(fed) : fed[i] = <<NewKey, i, source[i]>>
  BY <1>0 DEF StreamInv, Encryption
<1>2. /\ IsSeq(fed) /\ IsSeq(sink) /\ IsSeq(source)
      /\ Len(fed) \in Nat /\ Len(sink) \in Nat /\ Len(source) \in Nat
  <2>1. IsSeq(fed) /\ IsSeq(sink)
    BY <1>0 DEF StreamTypes
  <2> QED
    BY <1>0, <2>1, SeqFacts, SourceFacts
<1>3. /\ NewSuite \in Suite /\ NewSuite \in Nat /\ NewSuite <= MaxName /\ MaxName \in Nat
      /\ TagBytes \in Nat /\ MaxFileBytes \in Nat
      /\ ContainerLimit = MaxFileBytes + 1 + MaxName + TagBytes
  BY LimitFacts
<1>4. /\ Len(header) = NewSuite + 1
      /\ \A i \in 1..NewSuite + 1 : header[i] = <<NewSuite>>
  BY <1>0, <1>3, HeaderFacts
<1>5. PICK t : t = Tag(NewKey, header, fed)
  OBVIOUS
<1>6. /\ IsSeq(t) /\ Len(t) = TagBytes
      /\ \A i \in 1..TagBytes : t[i] = <<NewKey, header, fed, i>>
  BY <1>5, TagFacts
<1>7. sink' = sink \o t /\ Ends("ok")
  BY <1>0, <1>5 DEF Copied
<1>8. /\ IsSeq(sink') /\ Len(sink') = Len(sink) + TagBytes
      /\ \A i \in 1..Len(sink) : sink'[i] = sink[i]
      /\ \A i \in 1..TagBytes : sink'[Len(sink) + i] = t[i]
  <2>1. IsSeq(sink) /\ IsSeq(t)
    BY <1>2, <1>6
  <2>2. /\ IsSeq(sink \o t) /\ Len(sink \o t) = Len(sink) + Len(t)
        /\ \A i \in 1..Len(sink) : (sink \o t)[i] = sink[i]
        /\ \A i \in 1..Len(t) : (sink \o t)[Len(sink) + i] = t[i]
    BY <2>1, SeqJoined
  <2> QED
    BY <1>6, <1>7, <2>2
<1>9. Len(sink') <= ContainerLimit
  BY <1>0, <1>1, <1>2, <1>3, <1>4, <1>8
<1>10. changes = 0 => Len(fed) = Len(source)
  BY <1>0, <1>1, <1>2 DEF AtEnd, Bytes
<1>11. changes = 0 => Acceptable
  BY <1>0, <1>10 DEF Acceptable
<1>12. ASSUME changes = 0 PROVE sink' = Sealed(NewKey, NewSuite, source)
  <2>1. fed = Encrypted(NewKey, source)
    <3>1. Len(fed) = Len(source) /\ \A i \in 1..Len(source) : fed[i] = <<NewKey, i, source[i]>>
      BY <1>1, <1>10, <1>12
    <3> QED
      BY <1>2, <3>1, EncryptedOf
  <2>2. Len(sink') = NewSuite + 1 + Len(source) + TagBytes
    BY <1>1, <1>2, <1>3, <1>4, <1>8, <1>10, <1>12
  <2>3. ASSUME NEW i \in 1..NewSuite + 1 PROVE sink'[i] = <<NewSuite>>
    <3>1. i \in 1..Len(sink) /\ i \in 1..Len(header)
      BY <1>1, <1>2, <1>3, <1>4
    <3>2. sink'[i] = header[i]
      BY <1>1, <1>8, <3>1
    <3> QED
      BY <1>4, <3>2
  <2>4. ASSUME NEW i \in 1..Len(source) PROVE sink'[NewSuite + 1 + i] = <<NewKey, i, source[i]>>
    <3>1. NewSuite + 1 + i \in 1..Len(sink) /\ i \in 1..Len(fed) /\ NewSuite + 1 + i = Len(header) + i
      BY <1>1, <1>2, <1>3, <1>4, <1>10, <1>12
    <3>2. sink'[NewSuite + 1 + i] = fed[i]
      BY <1>1, <1>8, <3>1
    <3> QED
      BY <1>1, <1>12, <3>1, <3>2
  <2>5. ASSUME NEW i \in 1..TagBytes
        PROVE  sink'[NewSuite + 1 + Len(source) + i] = <<NewKey, HeaderOf(NewSuite), Encrypted(NewKey, source), i>>
    <3>1. NewSuite + 1 + Len(source) + i = Len(sink) + i
      BY <1>1, <1>2, <1>3, <1>4, <1>10, <1>12
    <3> QED
      BY <1>0, <1>6, <1>8, <2>1, <3>1
  <2>6. LaidOut(sink', NewKey, NewSuite, source)
    BY <1>8, <2>2, <2>3, <2>4, <2>5 DEF LaidOut
  <2> QED
    BY <1>2, <1>3, <2>6, LaidOutSealed
<1> QED
  BY <1>0, <1>7, <1>8, <1>9, <1>11, <1>12, AcceptedKeeps

\* What is read holds only bytes of containers, and is the source when it is left alone.
LEMMA ReadingFacts ==
    ASSUME StreamInv, op.kind # "encrypt"
    PROVE  /\ IsSeq(Bytes(reader.of)) /\ Len(Bytes(reader.of)) \in Nat
           /\ \A i \in 1..Len(Bytes(reader.of)) : \E c \in Containers : Bytes(reader.of)[i] \in Range(c)
           /\ changes = 0 => Bytes(reader.of) = source
<1>1. IsSeq(source) /\ IsSeq(snapshot) /\ Len(source) \in Nat /\ Len(snapshot) \in Nat
  BY SourceFacts DEF StreamInv
<1>2. source \in Containers /\ reader.of \in {"source", "snapshot"}
  BY DEF StreamInv, StreamTypes
<1>3. \A i \in 1..Len(source) : source[i] \in Range(source)
  BY <1>1, SeqFacts
<1>4. CASE reader.of = "source"
  BY <1>1, <1>2, <1>3, <1>4 DEF Bytes
<1>5. CASE reader.of = "snapshot"
  BY <1>1, <1>5 DEF Bytes, StreamInv, Taken, Contents
<1> QED
  BY <1>2, <1>4, <1>5

\* A header that was read whole.
LEMMA HeaderReadKeeps ==
    ASSUME StreamInv, pc = "head", ~AtEnd, NEW s \in Suite, NEW h, h = HeaderOf(s),
           Len(h) = Len(header) + 1, h = Append(header, Bytes(reader.of)[reader.pos + 1]),
           HeaderRead(h)
    PROVE  StreamInv'
<1>0. /\ StreamTypes /\ Stage /\ Contents /\ Taken /\ op.kind \in {"inspect", "verify", "decrypt"}
      /\ op.kind # "encrypt" /\ sink = <<>> /\ op.suite \in Suite
      /\ fed = <<>> /\ tail = <<>>
      /\ reader.pos = Len(header) /\ reader.count = Len(header) /\ reader.limit = ContainerLimit
      /\ reader.of \in {"source", "snapshot"}
  BY DEF StreamInv, StreamTypes, Stage, Position
<1>1. PICK b : b = Bytes(reader.of)
  OBVIOUS
<1>2. /\ IsSeq(b) /\ Len(b) \in Nat /\ (changes = 0 => b = source)
      /\ \A i \in 1..Len(b) : \E c \in Containers : b[i] \in Range(c)
  BY <1>0, <1>1, ReadingFacts
<1>3. /\ s \in Nat /\ s >= 1 /\ s <= MaxName /\ MaxName \in Nat /\ TagBytes \in Nat /\ MaxFileBytes \in Nat
      /\ ContainerLimit = MaxFileBytes + 1 + MaxName + TagBytes
  BY LimitFacts
<1>4. /\ IsSeq(h) /\ Len(h) = s + 1 /\ h[1][1] = s
      /\ \A i \in 1..s + 1 : h[i] = <<s>>
  BY HeaderFacts
<1>5. Len(header) = s /\ reader.pos = s /\ reader.count = s /\ IsSeq(header)
  BY <1>0, <1>3, <1>4, SeqFacts DEF StreamTypes
<1>6. s + 1 <= Len(b)
  BY <1>0, <1>1, <1>2, <1>3, <1>5 DEF AtEnd
<1>7. ASSUME NEW i \in 1..s + 1 PROVE \E c \in Containers : h[i] \in Range(c)
  <2>1. CASE i <= s
    <3>1. i \in 1..Len(header)
      BY <1>3, <1>5, <2>1
    <3>2. h[i] = header[i]
      BY <1>5, <3>1, SeqLonger
    <3> QED
      BY <1>0, <3>1, <3>2 DEF Taken
  <2>2. CASE i = s + 1
    <3>1. h[i] = b[s + 1] /\ s + 1 \in 1..Len(b)
      BY <1>1, <1>2, <1>3, <1>5, <1>6, <2>2, SeqLonger
    <3> QED
      BY <1>2, <3>1
  <2>3. i <= s \/ i = s + 1
    BY <1>3
  <2> QED
    BY <2>1, <2>2, <2>3
<1>8. ASSUME reader.of = "snapshot" \/ changes = 0, NEW i \in 1..s + 1 PROVE h[i] = b[i]
  <2>1. ReadOf(b)
    BY <1>0, <1>1, <1>8 DEF Contents
  <2>2. CASE i <= s
    <3>1. i \in 1..Len(header)
      BY <1>3, <1>5, <2>2
    <3>2. h[i] = header[i]
      BY <1>5, <3>1, SeqLonger
    <3> QED
      BY <2>1, <3>1, <3>2 DEF ReadOf
  <2>3. CASE i = s + 1
    BY <1>1, <1>3, <1>5, <2>3, SeqLonger
  <2>4. i <= s \/ i = s + 1
    BY <1>3
  <2> QED
    BY <2>2, <2>3, <2>4
\* Only a source of this suite, and of a length that fits, may be acceptable.
<1>9. ASSUME changes = 0, Acceptable
      PROVE  Fits(source, s) /\ (op.kind # "inspect" => s = op.suite)
  <2>1. PICK r \in Suite : Fits(source, r) /\ (op.kind # "inspect" => r = op.suite)
    BY <1>0, <1>9, AcceptableFits
  <2>2. r \in Nat /\ source[1] = <<r>>
    <3>1. \A i \in 1..r + 1 : source[i] = <<r>>
      BY <1>2, <1>9, <2>1, FitsFacts
    <3> QED
      BY <3>1, LimitFacts
  <2>3. source[1] = <<s>>
    BY <1>2, <1>3, <1>4, <1>8, <1>9
  <2> QED
    BY <2>1, <2>2, <2>3
<1>10. PICK one : one = After(<<h[1]>>)
  OBVIOUS
<1>11. /\ one.of = reader.of /\ one.pos = s + 1 /\ one.count = s + 1
       /\ one.limit = ContainerLimit /\ one.total = reader.total
       /\ one \in [of : {"source", "snapshot"}, pos : Nat, count : Nat, limit : Nat, total : Int]
  <2>1. Len(<<h[1]>>) = 1
    OBVIOUS
  <2>2. /\ one.of = reader.of /\ one.pos = reader.pos + Len(<<h[1]>>) /\ one.count = reader.count + Len(<<h[1]>>)
        /\ one.limit = reader.limit /\ one.total = reader.total
        /\ one \in [of : {"source", "snapshot"}, pos : Nat, count : Nat, limit : Nat, total : Int]
    <3>1. StreamTypes /\ Len(<<h[1]>>) \in Nat
      BY <1>0, <2>1
    <3> QED
      BY <1>10, <3>1, AfterFacts
  <2> QED
    BY <1>0, <1>5, <2>1, <2>2
<1>12. CASE ~SizeFits(h)
  <2>1. Refused
    BY <1>12 DEF HeaderRead
  <2>2. ASSUME changes = 0, Acceptable PROVE FALSE
    <3>1. Len(source) >= s + 1 + TagBytes /\ Len(source) <= s + 1 + MaxFileBytes + TagBytes
      BY <1>2, <1>9, <2>2, FitsFacts
    <3>2. reader.total = Unknown \/ reader.total = Len(source)
      <4>1. CASE reader.of = "source"
        BY <1>0, <2>2, <4>1 DEF Contents
      <4>2. CASE reader.of = "snapshot"
        BY <1>0, <2>2, <4>2 DEF Contents
      <4> QED
        BY <1>0, <4>1, <4>2
    <3>3. reader.total = Len(source)
      BY <1>12, <3>2 DEF SizeFits
    <3>4. Len(source) \in Nat /\ Len(source) - (s + 1) \in TagBytes..MaxFileBytes + TagBytes
      BY <1>2, <1>3, <2>2, <3>1
    <3> QED
      BY <1>4, <1>12, <3>3, <3>4 DEF SizeFits
  <2> QED
    BY <2>1, <2>2, RefusedKeeps
<1>13. CASE SizeFits(h) /\ (op.kind = "inspect" \/ (op.kind = "decrypt" /\ reader.of = "source"))
  <2>1. /\ pc' = "count" /\ header' = h /\ reader' = one
        /\ snapshot' = IF op.kind = "decrypt" THEN h ELSE snapshot
        /\ UNCHANGED <<op, source, changes, fed, tail, key, sink, result>>
    BY <1>10, <1>13 DEF HeaderRead, given
  <2>2. reader.of = "source"
    BY <1>0, <1>13 DEF Stage
  <2>3. StreamTypes'
    <3>1. IsSeq(header') /\ IsSeq(snapshot')
      BY <1>0, <1>4, <2>1 DEF StreamTypes
    <3>2. (reader.count <= reader.limit /\ reader.total >= Unknown)'
      BY <1>0, <1>3, <1>11, <2>1 DEF StreamTypes
    <3> QED
      BY <1>0, <1>11, <2>1, <3>1, <3>2 DEF StreamTypes
  <2>4. Stage'
    BY <1>0, <1>11, <1>13, <2>1, <2>2 DEF Stage
  <2>5. Position'
    <3>1. Counted' \in 0..MaxFileBytes + TagBytes
      BY <1>3, <1>4, <1>11, <2>1 DEF Counted
    <3> QED
      BY <1>0, <1>11, <2>1, <3>1 DEF Position
  <2>6. Contents'
    <3>1. ASSUME changes = 0 PROVE ReadOf(source)'
      <4>1. b = source /\ reader'.pos = s + 1 /\ Len(fed') = 0 /\ Len(tail') = 0
        BY <1>0, <1>2, <1>11, <2>1, <3>1, SeqEmpty
      <4> QED
        BY <1>3, <1>4, <1>6, <1>8, <2>1, <3>1, <4>1 DEF ReadOf
    <3>2. changes = 0 => reader.total \in {Unknown, Len(source)}
      BY <1>0, <2>2 DEF Contents
    <3> QED
      BY <1>0, <1>11, <2>1, <2>2, <3>1, <3>2 DEF Contents
  <2>7. Encryption' /\ Releasing'
    BY <2>1 DEF Encryption, Releasing
  <2>8. Taken'
    <3>1. \A i \in 1..Len(header') : \E c \in Containers : header'[i] \in Range(c)
      BY <1>4, <1>7, <2>1
    <3>2. \A i \in 1..Len(snapshot') : \E c \in Containers : snapshot'[i] \in Range(c)
      BY <1>0, <1>4, <1>7, <2>1 DEF Taken
    <3>3. changes = 0 => \A i \in 1..s + 1 : h[i] = source[i]
      BY <1>2, <1>8
    <3> QED
      BY <1>0, <1>4, <1>11, <2>1, <3>1, <3>2, <3>3 DEF Taken
  <2>9. RoomIsBounded'
    <3>1. Len(sink') <= ContainerLimit
      BY <1>0, <1>3, <2>1, SeqEmpty
    <3>2. snapshot' # <<>> => Len(snapshot') <= 1 + snapshot'[1][1] + MaxFileBytes + TagBytes
      <4>1. CASE op.kind = "decrypt"
        BY <1>3, <1>4, <2>1, <4>1
      <4>2. CASE op.kind # "decrypt"
        BY <2>1, <4>2 DEF StreamInv, RoomIsBounded
      <4> QED
        BY <4>1, <4>2
    <3> QED
      BY <3>1, <3>2 DEF RoomIsBounded
  <2>10. ReleasedIsAuthentic' /\ AcceptsExactly'
    <3>1. result' = "none" /\ sink' = <<>>
      BY <1>0, <2>1 DEF StreamTypes
    <3> QED
      BY <2>3, <3>1, AcceptsNext DEF ReleasedIsAuthentic, Accepted
  <2> QED
    BY <2>3, <2>4, <2>5, <2>6, <2>7, <2>8, <2>9, <2>10 DEF StreamInv
<1>14. CASE /\ SizeFits(h) /\ ~(op.kind = "inspect" \/ (op.kind = "decrypt" /\ reader.of = "source"))
            /\ h # HeaderOf(op.suite)
  <2>1. Refused
    BY <1>14 DEF HeaderRead
  <2>2. changes = 0 => ~Acceptable
    BY <1>9, <1>14
  <2> QED
    BY <2>1, <2>2, RefusedKeeps
<1>15. CASE /\ SizeFits(h) /\ ~(op.kind = "inspect" \/ (op.kind = "decrypt" /\ reader.of = "source"))
            /\ h = HeaderOf(op.suite)
  <2>1. /\ pc' = "verify" /\ header' = h /\ reader' = one
        /\ UNCHANGED <<op, source, changes, snapshot, fed, tail, key, sink, result>>
    BY <1>10, <1>15 DEF HeaderRead, given
  <2>2. op.kind = "verify" \/ (op.kind = "decrypt" /\ reader.of = "snapshot")
    BY <1>0, <1>15
  <2>3. StreamTypes'
    <3>1. (reader.count <= reader.limit /\ reader.total >= Unknown)'
      BY <1>0, <1>3, <1>11, <2>1 DEF StreamTypes
    <3> QED
      BY <1>0, <1>4, <1>11, <2>1, <3>1 DEF StreamTypes
  <2>4. Stage'
    BY <1>0, <1>11, <2>1, <2>2 DEF Stage
  <2>5. Position'
    BY <1>0, <1>3, <1>4, <1>11, <1>15, <2>1, SeqEmpty DEF Position
  <2>6. Contents'
    <3>1. ASSUME reader.of = "snapshot" \/ changes = 0 PROVE ReadOf(Bytes(reader.of))'
      <4>1. reader'.pos = s + 1 /\ Len(fed') = 0 /\ Len(tail') = 0 /\ Bytes(reader.of)' = b
        BY <1>0, <1>1, <1>11, <2>1, SeqEmpty DEF Bytes
      <4> QED
        BY <1>3, <1>4, <1>6, <1>8, <2>1, <3>1, <4>1 DEF ReadOf
    <3> QED
      BY <1>0, <1>11, <2>1, <3>1 DEF Contents
  <2>7. Encryption' /\ Releasing'
    BY <2>1 DEF Encryption, Releasing
  <2>8. Taken'
    <3>1. \A i \in 1..Len(header') : \E c \in Containers : header'[i] \in Range(c)
      BY <1>4, <1>7, <2>1
    <3> QED
      BY <1>0, <2>1, <3>1 DEF Taken
  <2>9. RoomIsBounded'
    BY <2>1 DEF StreamInv, RoomIsBounded
  <2>10. ReleasedIsAuthentic' /\ AcceptsExactly'
    <3>1. result' = "none" /\ sink' = <<>>
      BY <1>0, <2>1 DEF StreamTypes
    <3> QED
      BY <2>3, <3>1, AcceptsNext DEF ReleasedIsAuthentic, Accepted
  <2> QED
    BY <2>3, <2>4, <2>5, <2>6, <2>7, <2>8, <2>9, <2>10 DEF StreamInv
<1> QED
  BY <1>12, <1>13, <1>14, <1>15

\* A byte of the header keeps the invariant: a header of no suite, or of another suite
\* than the private key's, begins nothing acceptable.
LEMMA ReadHeaderKeeps ==
    ASSUME StreamInv, ReadHeader
    PROVE  StreamInv'
<1>0. /\ StreamTypes /\ Stage /\ Contents /\ Taken /\ op.kind \in {"inspect", "verify", "decrypt"}
      /\ op.kind # "encrypt" /\ sink = <<>> /\ pc = "head"
      /\ fed = <<>> /\ tail = <<>>
      /\ reader.pos = Len(header) /\ reader.count = Len(header) /\ reader.limit = ContainerLimit
      /\ header # <<>> => header[1][1] \in 1..MaxName /\ Len(header) <= header[1][1]
      /\ reader.of \in {"source", "snapshot"}
  BY DEF StreamInv, StreamTypes, Stage, Position, ReadHeader
<1>1. PICK b : b = Bytes(reader.of)
  OBVIOUS
<1>2. /\ IsSeq(b) /\ Len(b) \in Nat /\ (changes = 0 => b = source)
      /\ \A i \in 1..Len(b) : \E c \in Containers : b[i] \in Range(c)
  BY <1>0, <1>1, ReadingFacts
<1>3. /\ MaxName \in Nat /\ TagBytes \in Nat /\ TagBytes >= 1 /\ MaxFileBytes \in Nat
      /\ ContainerLimit = MaxFileBytes + 1 + MaxName + TagBytes
  BY LimitFacts
<1>4. IsSeq(header) /\ Len(header) \in Nat /\ (Len(header) = 0 <=> header = <<>>)
  <2>1. IsSeq(header)
    BY <1>0 DEF StreamTypes
  <2> QED
    BY <2>1, SeqFacts, SeqNone
<1>5. reader.of = "snapshot" \/ changes = 0 => ReadOf(b)
  BY <1>0, <1>1 DEF Contents
\* The length of an acceptable source's header is in its first byte.
<1>6. ASSUME changes = 0, Acceptable
      PROVE  \E s \in Suite : /\ s \in Nat /\ s >= 1 /\ s <= MaxName
                              /\ Len(b) >= s + 1 + TagBytes
                              /\ \A i \in 1..s + 1 : b[i] = <<s>>
  <2>1. PICK s \in Suite : Fits(source, s)
    BY <1>0, <1>6, AcceptableFits
  <2>2. b = source
    BY <1>2, <1>6
  <2>3. Len(b) >= s + 1 + TagBytes /\ \A i \in 1..s + 1 : b[i] = <<s>>
    BY <1>2, <2>1, <2>2, FitsFacts
  <2> QED
    BY <2>3, LimitFacts
<1>7. CASE AtEnd
  <2>1. Refused
    BY <1>7 DEF ReadHeader
  <2>2. ASSUME changes = 0, Acceptable PROVE FALSE
    <3>1. PICK s \in Suite : /\ s \in Nat /\ s >= 1 /\ s <= MaxName
                             /\ Len(b) >= s + 1 + TagBytes
                             /\ \A i \in 1..s + 1 : b[i] = <<s>>
      BY <1>6, <2>2
    <3>2. Len(header) >= Len(b)
      BY <1>0, <1>1, <1>7 DEF AtEnd
    <3>3. 1 \in 1..Len(header) /\ 1 \in 1..s + 1 /\ header # <<>>
      BY <1>2, <1>3, <1>4, <3>1, <3>2
    <3>4. header[1] = b[1] /\ b[1] = <<s>>
      BY <1>5, <2>2, <3>1, <3>3 DEF ReadOf
    <3>5. Len(header) <= s
      BY <1>0, <3>3, <3>4
    <3> QED
      BY <1>2, <1>3, <1>4, <3>1, <3>2, <3>5
  <2> QED
    BY <1>0, <2>1, <2>2, RefusedKeeps
<1>8. CASE ~AtEnd
  <2>1. PICK h : h = Append(header, Bytes(reader.of)[reader.pos + 1])
    OBVIOUS
  <2>2. PICK l : l = h[1][1]
    OBVIOUS
  <2>3. IF l \notin 1..MaxName THEN Refused
        ELSE IF Len(h) <= l
          THEN /\ header' = h
               /\ reader' = After(<<h[1]>>)
               /\ UNCHANGED <<given, pc, snapshot, fed, tail, key, sink, result>>
        ELSE IF \A s \in Suite : h # HeaderOf(s) THEN Refused
        ELSE HeaderRead(h)
    BY <1>8, <2>1, <2>2 DEF ReadHeader
  <2>4. Len(header) < Len(b) /\ Len(header) + 1 \in 1..Len(b)
    BY <1>0, <1>1, <1>2, <1>4, <1>8 DEF AtEnd
  <2>5. /\ IsSeq(h) /\ Len(h) = Len(header) + 1
        /\ \A i \in 1..Len(header) : h[i] = header[i]
        /\ h[Len(header) + 1] = b[Len(header) + 1]
    BY <1>0, <1>1, <1>4, <2>1, SeqLonger
  <2>6. ASSUME NEW i \in 1..Len(h) PROVE \E c \in Containers : h[i] \in Range(c)
    <3>1. CASE i \in 1..Len(header)
      BY <1>0, <2>5, <3>1 DEF Taken
    <3>2. CASE i = Len(header) + 1
      BY <1>2, <2>4, <2>5, <3>2
    <3>3. i \in 1..Len(header) \/ i = Len(header) + 1
      BY <1>4, <2>5
    <3> QED
      BY <3>1, <3>2, <3>3
  <2>7. ASSUME reader.of = "snapshot" \/ changes = 0, NEW i \in 1..Len(h) PROVE h[i] = b[i]
    <3>1. CASE i \in 1..Len(header)
      BY <1>5, <2>5, <2>7, <3>1 DEF ReadOf
    <3>2. CASE i = Len(header) + 1
      BY <2>5, <3>2
    <3>3. i \in 1..Len(header) \/ i = Len(header) + 1
      BY <1>4, <2>5
    <3> QED
      BY <3>1, <3>2, <3>3
  <2>8. ASSUME changes = 0, Acceptable
        PROVE  /\ l \in 1..MaxName
               /\ Len(h) > l => \E s \in Suite : h = HeaderOf(s)
    <3>1. PICK s \in Suite : /\ s \in Nat /\ s >= 1 /\ s <= MaxName
                             /\ Len(b) >= s + 1 + TagBytes
                             /\ \A i \in 1..s + 1 : b[i] = <<s>>
      BY <1>6, <2>8
    <3>2. 1 \in 1..Len(h) /\ 1 \in 1..s + 1
      BY <1>4, <2>5, <3>1
    <3>3. h[1] = <<s>> /\ l = s
      BY <2>2, <2>7, <2>8, <3>1, <3>2
    <3>4. ASSUME Len(h) > l PROVE h = HeaderOf(s)
      <4>1. header # <<>>
        BY <1>4, <2>5, <3>1, <3>3, <3>4
      <4>2. header[1] = h[1]
        BY <1>4, <2>5, <4>1
      <4>3. Len(header) <= s
        BY <1>0, <3>3, <4>1, <4>2
      <4>4. Len(h) = s + 1
        BY <1>4, <2>5, <3>1, <3>3, <3>4, <4>3
      <4>5. \A i \in 1..s + 1 : h[i] = <<s>>
        BY <2>7, <2>8, <3>1, <4>4
      <4> QED
        BY <2>5, <4>4, <4>5, HeaderOfIs
    <3> QED
      BY <1>3, <3>1, <3>3, <3>4
  <2>9. CASE l \notin 1..MaxName
    <3>1. Refused /\ (changes = 0 => ~Acceptable)
      BY <2>3, <2>8, <2>9
    <3> QED
      BY <1>0, <3>1, RefusedKeeps
  <2>10. CASE l \in 1..MaxName /\ ~(Len(h) <= l) /\ \A s \in Suite : h # HeaderOf(s)
    <3>1. Refused
      BY <2>3, <2>10
    <3>2. Len(h) > l
      BY <1>3, <1>4, <2>5, <2>10
    <3>3. changes = 0 => ~Acceptable
      BY <2>8, <2>10, <3>2
    <3> QED
      BY <1>0, <3>1, <3>3, RefusedKeeps
  <2>11. CASE l \in 1..MaxName /\ ~(Len(h) <= l) /\ \E s \in Suite : h = HeaderOf(s)
    <3>1. PICK s \in Suite : h = HeaderOf(s)
      BY <2>11
    <3>2. HeaderRead(h)
      BY <2>3, <2>11
    <3> QED
      BY <1>0, <1>8, <2>1, <2>5, <3>1, <3>2, HeaderReadKeeps
  <2>12. CASE l \in 1..MaxName /\ Len(h) <= l
    <3>1. PICK one : one = After(<<h[1]>>)
      OBVIOUS
    <3>2. /\ header' = h /\ reader' = one
          /\ UNCHANGED <<op, source, changes, pc, snapshot, fed, tail, key, sink, result>>
      BY <2>3, <2>12, <3>1 DEF given
    <3>3. /\ one.of = reader.of /\ one.pos = Len(h) /\ one.count = Len(h)
          /\ one.limit = ContainerLimit /\ one.total = reader.total
          /\ one \in [of : {"source", "snapshot"}, pos : Nat, count : Nat, limit : Nat, total : Int]
      <4>1. Len(<<h[1]>>) = 1
        OBVIOUS
      <4>2. /\ one.of = reader.of /\ one.pos = reader.pos + Len(<<h[1]>>)
            /\ one.count = reader.count + Len(<<h[1]>>)
            /\ one.limit = reader.limit /\ one.total = reader.total
            /\ one \in [of : {"source", "snapshot"}, pos : Nat, count : Nat, limit : Nat, total : Int]
        BY <1>0, <3>1, <4>1, AfterFacts
      <4> QED
        BY <1>0, <1>4, <2>5, <4>1, <4>2
    <3>4. StreamTypes'
      <4>1. (reader.count <= reader.limit /\ reader.total >= Unknown)'
        <5>1. Len(h) <= ContainerLimit
          BY <1>3, <1>4, <2>5, <2>12
        <5> QED
          BY <1>0, <3>2, <3>3, <5>1 DEF StreamTypes
      <4> QED
        BY <1>0, <2>5, <3>2, <3>3, <4>1 DEF StreamTypes
    <3>5. Stage'
      BY <1>0, <3>2, <3>3 DEF Stage
    <3>6. Position'
      BY <1>0, <2>2, <2>12, <3>2, <3>3 DEF Position
    <3>7. Contents'
      <4>1. ASSUME reader.of = "snapshot" \/ changes = 0 PROVE ReadOf(Bytes(reader.of))'
        <5>1. reader'.pos = Len(h) /\ Len(fed') = 0 /\ Len(tail') = 0 /\ Bytes(reader.of)' = b
          BY <1>0, <1>1, <3>2, <3>3, SeqEmpty DEF Bytes
        <5>2. Len(h) <= Len(b) /\ \A i \in 1..Len(h) : h[i] = b[i]
          BY <1>2, <1>4, <2>4, <2>5, <2>7, <4>1
        <5> QED
          BY <3>2, <5>1, <5>2 DEF ReadOf
      <4> QED
        BY <1>0, <3>2, <3>3, <4>1 DEF Contents
    <3>8. Encryption' /\ Releasing'
      BY <1>0, <3>2 DEF Encryption, Releasing
    <3>9. Taken'
      BY <1>0, <2>6, <3>2 DEF Taken
    <3>10. RoomIsBounded'
      BY <3>2 DEF StreamInv, RoomIsBounded
    <3>11. ReleasedIsAuthentic' /\ AcceptsExactly'
      <4>1. result' = "none" /\ sink' = <<>>
        BY <1>0, <3>2 DEF StreamTypes
      <4> QED
        BY <3>4, <4>1, AcceptsNext DEF ReleasedIsAuthentic, Accepted
    <3> QED
      BY <3>4, <3>5, <3>6, <3>7, <3>8, <3>9, <3>10, <3>11 DEF StreamInv
  <2> QED
    BY <2>9, <2>10, <2>11, <2>12
<1> QED
  BY <1>7, <1>8

\* The header and the count of the payload while it is counted.
LEMMA CountFacts ==
    ASSUME StreamInv, pc = "count"
    PROVE  \E s \in Suite :
              /\ header = HeaderOf(s) /\ s \in Nat /\ s >= 1 /\ s <= MaxName
              /\ Len(header) = s + 1 /\ reader.count \in Nat /\ reader.pos = reader.count
              /\ reader.count - (s + 1) \in 0..MaxFileBytes + TagBytes
              /\ changes = 0 =>
                    /\ reader.count <= Len(source)
                    /\ \A i \in 1..s + 1 : source[i] = <<s>>
                    /\ Acceptable => Fits(source, s)
<1>0. StreamTypes /\ Position /\ Contents /\ op.kind # "encrypt" /\ op.kind \in {"inspect", "decrypt"}
  BY DEF StreamInv, Stage
<1>1. PICK s \in Suite : header = HeaderOf(s)
  BY <1>0 DEF Position
<1>2. /\ Len(header) = s + 1 /\ s \in Nat /\ s >= 1 /\ s <= MaxName
      /\ \A i \in 1..s + 1 : header[i] = <<s>>
  BY <1>1, HeaderFacts, LimitFacts
<1>3. reader.count \in Nat /\ reader.pos = reader.count
  BY <1>0 DEF Position, StreamTypes
<1>4. reader.count - (s + 1) \in 0..MaxFileBytes + TagBytes
  BY <1>0, <1>2 DEF Position, Counted
<1>5. ASSUME changes = 0 PROVE reader.count <= Len(source) /\ \A i \in 1..s + 1 : source[i] = <<s>>
  <2>1. ReadOf(source)
    BY <1>0, <1>5 DEF Contents
  <2> QED
    BY <1>2, <1>3, <2>1 DEF ReadOf
<1>6. ASSUME changes = 0, Acceptable PROVE Fits(source, s)
  <2>1. PICK r \in Suite : Fits(source, r)
    BY <1>0, <1>6, AcceptableFits
  <2>2. r \in Nat /\ IsSeq(source)
    BY <1>0, LimitFacts, SourceFacts
  <2>3. \A i \in 1..r + 1 : source[i] = <<r>>
    BY <2>1, <2>2, FitsFacts
  <2>4. source[1] = <<r>> /\ source[1] = <<s>>
    BY <1>2, <1>5, <1>6, <2>2, <2>3
  <2> QED
    BY <2>1, <2>4
<1> QED
  BY <1>1, <1>2, <1>3, <1>4, <1>5, <1>6

\* A step of _payload_count keeps the invariant: a payload beyond the limit is of
\* nothing acceptable.
LEMMA CountKeeps ==
    ASSUME StreamInv, Count
    PROVE  StreamInv'
<1>0. /\ StreamTypes /\ Stage /\ Contents /\ Taken /\ op.kind \in {"inspect", "decrypt"}
      /\ op.kind # "encrypt" /\ sink = <<>> /\ pc = "count" /\ ~AtEnd
      /\ fed = <<>> /\ tail = <<>> /\ reader.limit = ContainerLimit
      /\ reader.of = "source"
      /\ op.kind = "decrypt" =>
           /\ Len(snapshot) = reader.count /\ snapshot[1] = header[1]
           /\ changes = 0 => \A i \in 1..Len(snapshot) : snapshot[i] = source[i]
  BY DEF StreamInv, StreamTypes, Stage, Position, Count, Taken
<1>1. PICK s \in Suite :
          /\ header = HeaderOf(s) /\ s \in Nat /\ s >= 1 /\ s <= MaxName
          /\ Len(header) = s + 1 /\ reader.count \in Nat /\ reader.pos = reader.count
          /\ reader.count - (s + 1) \in 0..MaxFileBytes + TagBytes
          /\ changes = 0 =>
                /\ reader.count <= Len(source)
                /\ \A i \in 1..s + 1 : source[i] = <<s>>
                /\ Acceptable => Fits(source, s)
  BY <1>0, CountFacts
<1>2. /\ IsSeq(source) /\ Len(source) \in Nat
      /\ \A i \in 1..Len(source) : \E c \in Containers : source[i] \in Range(c)
  BY <1>0, ReadingFacts DEF Bytes
<1>3. /\ MaxName \in Nat /\ TagBytes \in Nat /\ TagBytes >= 1 /\ MaxFileBytes \in Nat
      /\ ContainerLimit = MaxFileBytes + 1 + MaxName + TagBytes
  BY LimitFacts
<1>4. PICK data \in Chunks(ChunkBytes) :
          IF ~Within(data) \/ ~CountFits(Counted + Len(data))
            THEN Refused
            ELSE /\ reader' = After(data)
                 /\ snapshot' = IF op.kind = "decrypt" THEN snapshot \o data ELSE snapshot
                 /\ UNCHANGED <<given, pc, header, fed, tail, key, sink, result>>
  BY DEF Count
<1>5. /\ IsSeq(data) /\ Len(data) \in Nat /\ Len(data) >= 1
      /\ reader.count + Len(data) <= Len(source)
      /\ \A i \in 1..Len(data) : data[i] = source[reader.count + i]
  BY <1>0, <1>1, LimitFacts, ChunkFacts DEF Bytes
<1>6. CASE ~Within(data) \/ ~CountFits(Counted + Len(data))
  <2>1. Refused
    BY <1>4, <1>6
  <2>2. Len(source) > s + 1 + MaxFileBytes + TagBytes
    <3>1. CASE ~Within(data)
      BY <1>0, <1>1, <1>2, <1>3, <1>5, <3>1 DEF Within
    <3>2. CASE ~CountFits(Counted + Len(data))
      <4>1. ~((reader.count - (s + 1)) + Len(data) <= MaxFileBytes + TagBytes)
        BY <1>1, <3>2 DEF CountFits, Counted
      <4>2. s \in Nat /\ reader.count \in Nat /\ Len(data) \in Nat /\ Len(source) \in Nat
        BY <1>1, <1>2, <1>5
      <4>3. MaxFileBytes \in Nat /\ TagBytes \in Nat
        BY <1>3
      <4>4. reader.count + Len(data) <= Len(source)
        BY <1>5
      <4> QED
        BY <4>1, <4>2, <4>3, <4>4
    <3> QED
      BY <1>6, <3>1, <3>2
  <2>3. changes = 0 => ~Acceptable
    <3> SUFFICES ASSUME changes = 0, Acceptable PROVE FALSE
      OBVIOUS
    <3>1. Len(source) <= s + 1 + MaxFileBytes + TagBytes
      BY <1>1, <1>2, FitsFacts
    <3> QED
      BY <1>1, <1>2, <1>3, <2>2, <3>1
  <2> QED
    BY <1>0, <2>1, <2>3, RefusedKeeps
<1>7. CASE Within(data) /\ CountFits(Counted + Len(data))
  <2>1. PICK r : r = After(data)
    OBVIOUS
  <2>2. /\ reader' = r
        /\ snapshot' = IF op.kind = "decrypt" THEN snapshot \o data ELSE snapshot
        /\ UNCHANGED <<op, source, changes, pc, header, fed, tail, key, sink, result>>
    BY <1>4, <1>7, <2>1 DEF given
  <2>3. /\ r.of = "source" /\ r.pos = reader.count + Len(data) /\ r.count = reader.count + Len(data)
        /\ r.limit = ContainerLimit /\ r.total = reader.total
        /\ r \in [of : {"source", "snapshot"}, pos : Nat, count : Nat, limit : Nat, total : Int]
    BY <1>0, <1>1, <1>5, <2>1, AfterFacts
  <2>4. reader.count + Len(data) <= ContainerLimit /\ reader.count + Len(data) <= s + 1 + MaxFileBytes + TagBytes
    <3>1. reader.count + Len(data) <= ContainerLimit
      BY <1>0, <1>7 DEF Within
    <3>2. (reader.count - (s + 1)) + Len(data) <= MaxFileBytes + TagBytes
      BY <1>1, <1>7 DEF CountFits, Counted
    <3> QED
      BY <1>1, <1>3, <1>5, <3>1, <3>2
  <2>5. ASSUME op.kind = "decrypt"
        PROVE  /\ IsSeq(snapshot') /\ Len(snapshot') = reader.count + Len(data)
               /\ \A i \in 1..Len(snapshot) : snapshot'[i] = snapshot[i]
               /\ \A i \in 1..Len(data) : snapshot'[reader.count + i] = data[i]
    <3>1. IsSeq(snapshot) /\ IsSeq(data)
      BY <1>0, <1>5, SourceFacts
    <3>2. /\ IsSeq(snapshot \o data) /\ Len(snapshot \o data) = Len(snapshot) + Len(data)
          /\ \A i \in 1..Len(snapshot) : (snapshot \o data)[i] = snapshot[i]
          /\ \A i \in 1..Len(data) : (snapshot \o data)[Len(snapshot) + i] = data[i]
      BY <3>1, SeqJoined
    <3> QED
      BY <1>0, <2>2, <2>5, <3>2
  \* Every byte of it was read from the source.
  <2>6. ASSUME op.kind = "decrypt", NEW i \in 1..Len(snapshot')
        PROVE  \/ i \in 1..Len(snapshot) /\ snapshot'[i] = snapshot[i]
               \/ i \in 1..Len(source) /\ snapshot'[i] = source[i]
    <3>1. CASE i <= Len(snapshot)
      BY <1>0, <1>1, <2>5, <2>6, <3>1
    <3>2. CASE i > Len(snapshot)
      <4>1. PICK j \in 1..Len(data) : i = reader.count + j
        <5>0. /\ Len(snapshot) = reader.count /\ Len(snapshot') = reader.count + Len(data)
              /\ reader.count \in Nat /\ Len(data) \in Nat
          BY <1>0, <1>1, <1>5, <2>5, <2>6
        <5>1. i - reader.count \in 1..Len(data) /\ i = reader.count + (i - reader.count)
          BY <3>2, <5>0
        <5> QED
          BY <5>1
      <4>2. i \in 1..Len(source)
        BY <1>1, <1>2, <1>5, <4>1
      <4> QED
        BY <1>5, <2>5, <2>6, <4>1, <4>2
    <3> QED
      BY <1>0, <1>1, <2>5, <2>6, <1>5, <3>1, <3>2
  <2>7. StreamTypes'
    <3>1. IsSeq(snapshot')
      <4>1. CASE op.kind = "decrypt"
        BY <2>5, <4>1
      <4>2. CASE op.kind # "decrypt"
        BY <1>0, <2>2, <4>2, SourceFacts
      <4> QED
        BY <4>1, <4>2
    <3>2. (reader.count <= reader.limit /\ reader.total >= Unknown)'
      BY <1>0, <2>2, <2>3, <2>4 DEF StreamTypes
    <3> QED
      BY <1>0, <2>2, <2>3, <3>1, <3>2 DEF StreamTypes
  <2>8. Stage'
    BY <1>0, <2>2, <2>3 DEF Stage
  <2>9. Position'
    <3>1. Counted' \in 0..MaxFileBytes + TagBytes
      <4>1. Counted' = (reader.count + Len(data)) - (s + 1)
        BY <1>1, <2>2, <2>3 DEF Counted
      <4>2. reader.count - (s + 1) \in 0..MaxFileBytes + TagBytes /\ Len(data) \in Nat
        BY <1>1, <1>5
      <4>3. s \in Nat /\ reader.count \in Nat /\ MaxFileBytes \in Nat /\ TagBytes \in Nat
        BY <1>1, <1>3
      <4> QED
        BY <2>4, <4>1, <4>2, <4>3
    <3> QED
      BY <1>0, <1>1, <2>2, <2>3, <3>1 DEF Position
  <2>10. Contents'
    <3>1. ASSUME changes = 0 PROVE ReadOf(source)'
      <4>1. ReadOf(source)
        BY <1>0, <3>1 DEF Contents
      <4>2. reader'.pos <= Len(source)
        BY <1>5, <2>2, <2>3
      <4> QED
        BY <2>2, <4>1, <4>2 DEF ReadOf
    <3> QED
      BY <1>0, <2>2, <2>3, <3>1 DEF Contents
  <2>11. Encryption' /\ Releasing'
    BY <1>0, <2>2 DEF Encryption, Releasing
  <2>12. Taken'
    <3>1. \A i \in 1..Len(header) : \E c \in Containers : header[i] \in Range(c)
      BY <1>0 DEF Taken
    <3>2. ASSUME op.kind = "decrypt"
          PROVE  /\ Len(snapshot') = reader'.count /\ snapshot'[1] = header[1]
                 /\ \A i \in 1..Len(snapshot') : \E c \in Containers : snapshot'[i] \in Range(c)
                 /\ changes = 0 => \A i \in 1..Len(snapshot') : snapshot'[i] = source[i]
      <4>1. Len(snapshot') = reader'.count
        BY <2>2, <2>3, <2>5, <3>2
      <4>2. 1 \in 1..Len(snapshot)
        BY <1>0, <1>1, <1>3, <3>2
      <4>3. snapshot'[1] = header[1]
        BY <1>0, <2>5, <3>2, <4>2
      <4>4. \A i \in 1..Len(snapshot') : \E c \in Containers : snapshot'[i] \in Range(c)
        BY <1>0, <1>2, <2>6, <3>2 DEF Taken
      <4>5. changes = 0 => \A i \in 1..Len(snapshot') : snapshot'[i] = source[i]
        BY <1>0, <2>6, <3>2
      <4> QED
        BY <4>1, <4>3, <4>4, <4>5
    <3>3. ASSUME op.kind # "decrypt"
          PROVE  \A i \in 1..Len(snapshot') : \E c \in Containers : snapshot'[i] \in Range(c)
      BY <1>0, <2>2, <3>3 DEF Taken
    <3> QED
      BY <2>2, <3>1, <3>2, <3>3 DEF Taken
  <2>13. RoomIsBounded'
    <3>1. Len(sink') <= ContainerLimit
      BY <2>2 DEF StreamInv, RoomIsBounded
    <3>2. snapshot' # <<>> => Len(snapshot') <= 1 + snapshot'[1][1] + MaxFileBytes + TagBytes
      <4>1. CASE op.kind = "decrypt"
        <5>1. 1 \in 1..Len(snapshot)
          BY <1>0, <1>1, <1>3, <4>1
        <5>2. snapshot'[1][1] = s
          BY <1>0, <1>1, <2>5, <4>1, <5>1, HeaderFacts
        <5> QED
          BY <1>1, <1>3, <1>5, <2>4, <2>5, <4>1, <5>2
      <4>2. CASE op.kind # "decrypt"
        BY <2>2, <4>2 DEF StreamInv, RoomIsBounded
      <4> QED
        BY <4>1, <4>2
    <3> QED
      BY <3>1, <3>2 DEF RoomIsBounded
  <2>14. ReleasedIsAuthentic' /\ AcceptsExactly'
    <3>1. result' = "none" /\ sink' = <<>>
      BY <1>0, <2>2 DEF StreamTypes
    <3> QED
      BY <2>7, <3>1, AcceptsNext DEF ReleasedIsAuthentic, Accepted
  <2> QED
    BY <2>7, <2>8, <2>9, <2>10, <2>11, <2>12, <2>13, <2>14 DEF StreamInv
<1> QED
  BY <1>6, <1>7

\* The end of _payload_count keeps the invariant: a payload shorter than a tag is of
\* nothing acceptable.
LEMMA CountEndsKeeps ==
    ASSUME StreamInv, CountEnds
    PROVE  StreamInv'
<1>0. /\ StreamTypes /\ Stage /\ Contents /\ Taken /\ op.kind \in {"inspect", "decrypt"}
      /\ op.kind # "encrypt" /\ sink = <<>> /\ pc = "count" /\ AtEnd
      /\ fed = <<>> /\ tail = <<>> /\ reader.of = "source"
      /\ op.kind = "decrypt" =>
           /\ Len(snapshot) = reader.count
           /\ changes = 0 => \A i \in 1..Len(snapshot) : snapshot[i] = source[i]
  BY DEF StreamInv, StreamTypes, Stage, Position, CountEnds, Taken
<1>1. PICK s \in Suite :
          /\ header = HeaderOf(s) /\ s \in Nat /\ s >= 1 /\ s <= MaxName
          /\ Len(header) = s + 1 /\ reader.count \in Nat /\ reader.pos = reader.count
          /\ reader.count - (s + 1) \in 0..MaxFileBytes + TagBytes
          /\ changes = 0 =>
                /\ reader.count <= Len(source)
                /\ \A i \in 1..s + 1 : source[i] = <<s>>
                /\ Acceptable => Fits(source, s)
  BY <1>0, CountFacts
<1>2. IsSeq(source) /\ Len(source) \in Nat /\ IsSeq(snapshot) /\ Len(snapshot) \in Nat
  BY <1>0, SourceFacts
<1>3. /\ MaxName \in Nat /\ TagBytes \in Nat /\ TagBytes >= 1 /\ MaxFileBytes \in Nat
      /\ ContainerLimit = MaxFileBytes + 1 + MaxName + TagBytes /\ ContainerLimit \in Nat
  BY LimitFacts
<1>4. changes = 0 => reader.count = Len(source)
  BY <1>0, <1>1, <1>2 DEF AtEnd, Bytes
<1>5. Counted = reader.count - (s + 1)
  BY <1>1 DEF Counted
<1>6. CASE Counted < TagBytes
  <2>1. Refused
    BY <1>6 DEF CountEnds
  <2>2. changes = 0 => ~Acceptable
    <3> SUFFICES ASSUME changes = 0, Acceptable PROVE FALSE
      OBVIOUS
    <3>1. Len(source) >= s + 1 + TagBytes
      BY <1>1, <1>2, FitsFacts
    <3> QED
      BY <1>1, <1>2, <1>3, <1>4, <1>5, <1>6, <3>1
  <2> QED
    BY <1>0, <2>1, <2>2, RefusedKeeps
<1>7. CASE ~(Counted < TagBytes) /\ op.kind = "inspect"
  <2>1. Ends("ok") /\ sink' = sink
    BY <1>7 DEF CountEnds
  <2>2. ASSUME changes = 0 PROVE Acceptable
    <3>1. IsPrefix(header, source)
      <4>1. IsSeq(header) /\ \A i \in 1..s + 1 : header[i] = <<s>>
        BY <1>1, HeaderFacts
      <4>2. Len(header) <= Len(source) /\ \A i \in 1..Len(header) : header[i] = source[i]
        <5>1. /\ Len(header) = s + 1 /\ s \in Nat /\ reader.count \in Nat /\ TagBytes \in Nat
              /\ reader.count - (s + 1) \in 0..MaxFileBytes + TagBytes /\ MaxFileBytes \in Nat
          BY <1>1, <1>3
        <5>2. Len(source) = reader.count /\ \A i \in 1..s + 1 : source[i] = <<s>>
          BY <1>1, <1>4, <2>2
        <5>3. Len(header) <= Len(source)
          BY <5>1, <5>2
        <5>4. \A i \in 1..s + 1 : header[i] = source[i]
          BY <4>1, <5>2
        <5> QED
          BY <5>1, <5>3, <5>4
      <4> QED
        BY <1>2, <4>1, <4>2, PrefixIs
    <3>2. Len(source) - Len(header) \in TagBytes..MaxFileBytes + TagBytes
      BY <1>1, <1>2, <1>3, <1>4, <1>5, <1>7, <2>2
    <3> QED
      BY <1>1, <1>7, <3>1, <3>2 DEF Acceptable, Fits
  <2>3. IsSeq(sink') /\ Len(sink') <= ContainerLimit
    BY <1>0, <1>3, <2>1, SeqEmpty
  <2> QED
    BY <1>0, <1>7, <2>1, <2>2, <2>3, AcceptedKeeps
<1>8. CASE ~(Counted < TagBytes) /\ op.kind = "decrypt"
  <2>1. PICK r : r = NewReader("snapshot", 0, ContainerLimit)
    OBVIOUS
  <2>2. /\ reader' = r /\ pc' = "head" /\ header' = <<>>
        /\ UNCHANGED <<op, source, changes, snapshot, fed, tail, key, sink, result>>
    BY <1>8, <2>1 DEF CountEnds, given
  <2>3. /\ r.of = "snapshot" /\ r.pos = 0 /\ r.count = 0 /\ r.limit = ContainerLimit
        /\ r.total = Len(snapshot)
        /\ r \in [of : {"source", "snapshot"}, pos : Nat, count : Nat, limit : Nat, total : Int]
    <3>1. Max({0, Len(snapshot) - 0}) = Len(snapshot)
      BY <1>2, MaxOfTwo
    <3>2. /\ r.of = "snapshot" /\ r.pos = 0 /\ r.count = 0 /\ r.limit = ContainerLimit
          /\ r.total = Len(snapshot)
          /\ r = [of |-> r.of, pos |-> r.pos, count |-> r.count, limit |-> r.limit, total |-> r.total]
      BY <2>1, <3>1 DEF NewReader, Bytes
    <3> QED
      BY <1>2, <1>3, <3>2
  <2>4. IsSeq(<<>>) /\ Len(<<>>) = 0
    BY SeqEmpty
  <2>5. StreamTypes'
    <3>1. (reader.count <= reader.limit /\ reader.total >= Unknown)'
      BY <1>2, <1>3, <2>2, <2>3 DEF Unknown
    <3> QED
      BY <1>0, <2>2, <2>3, <2>4, <3>1 DEF StreamTypes
  <2>6. Stage'
    BY <1>0, <1>8, <2>2, <2>3 DEF Stage
  <2>7. Position'
    BY <1>0, <2>2, <2>3, <2>4 DEF Position
  <2>8. Contents'
    <3>1. ReadOf(Bytes(reader.of))'
      BY <1>0, <1>2, <2>2, <2>3, <2>4 DEF ReadOf, Bytes
    <3>2. changes = 0 => snapshot = source
      BY <1>0, <1>2, <1>4, <1>8, SeqSame
    <3> QED
      BY <2>2, <2>3, <3>1, <3>2 DEF Contents
  <2>9. Encryption' /\ Releasing'
    BY <2>2 DEF Encryption, Releasing
  <2>10. Taken'
    BY <1>0, <2>2, <2>4 DEF Taken
  <2>11. RoomIsBounded'
    BY <2>2 DEF StreamInv, RoomIsBounded
  <2>12. ReleasedIsAuthentic' /\ AcceptsExactly'
    <3>1. result' = "none" /\ sink' = <<>>
      BY <1>0, <2>2 DEF StreamTypes
    <3> QED
      BY <2>5, <3>1, AcceptsNext DEF ReleasedIsAuthentic, Accepted
  <2> QED
    BY <2>5, <2>6, <2>7, <2>8, <2>9, <2>10, <2>11, <2>12 DEF StreamInv
<1> QED
  BY <1>0, <1>6, <1>7, <1>8

\* The bytes _process_payload has at hand once data is read, and how many of them it passes on.
Divided(data, bytes, n, b) ==
    /\ bytes = tail \o data /\ n = Passes(bytes) /\ b = Bytes(reader.of)
    /\ IsSeq(data) /\ Len(data) \in Nat /\ Len(data) >= 1
    /\ IsSeq(bytes) /\ Len(bytes) = Len(tail) + Len(data)
    /\ n \in Nat /\ n <= Len(bytes) /\ Len(bytes) - n <= TagBytes
    /\ n > 0 => Len(bytes) - n = TagBytes
    /\ n = 0 => fed = <<>>
    /\ reader.pos + Len(data) <= Len(b)
    /\ reader.pos + Len(data) = Len(header) + Len(fed) + Len(bytes)
    /\ reader.of = "snapshot" \/ changes = 0 =>
          \A i \in 1..Len(bytes) : bytes[i] = b[Len(header) + Len(fed) + i]

\* A chunk read by _process_payload, cut into what is passed on and what is withheld.
LEMMA ProcessFacts ==
    ASSUME StreamInv, pc \in {"verify", "release"}, ~AtEnd, NEW data \in Chunks(ChunkBytes)
    PROVE  \E bytes, n, b : Divided(data, bytes, n, b)
<1> PICK bytes : bytes = tail \o data
  OBVIOUS
<1> PICK n : n = Passes(bytes)
  OBVIOUS
<1> PICK b : b = Bytes(reader.of)
  OBVIOUS
<1>0. /\ StreamTypes /\ Contents
      /\ reader.pos = Len(header) + Len(fed) + Len(tail)
      /\ Len(tail) <= TagBytes /\ (fed # <<>> => Len(tail) = TagBytes)
  BY DEF StreamInv, StreamTypes, Position
<1>1. /\ IsSeq(tail) /\ Len(tail) \in Nat /\ Len(fed) \in Nat /\ Len(header) \in Nat
  <2>1. IsSeq(tail) /\ IsSeq(fed) /\ IsSeq(header)
    BY <1>0 DEF StreamTypes
  <2> QED
    BY <2>1, SeqFacts
<1>2. /\ IsSeq(data) /\ Len(data) \in Nat /\ Len(data) >= 1
      /\ reader.pos + Len(data) <= Len(b)
      /\ \A i \in 1..Len(data) : data[i] = b[reader.pos + i]
  BY <1>0, LimitFacts, ChunkFacts
<1>3. /\ IsSeq(bytes) /\ Len(bytes) = Len(tail) + Len(data)
      /\ \A i \in 1..Len(tail) : bytes[i] = tail[i]
      /\ \A i \in 1..Len(data) : bytes[Len(tail) + i] = data[i]
  <2>1. /\ IsSeq(tail \o data) /\ Len(tail \o data) = Len(tail) + Len(data)
        /\ \A i \in 1..Len(tail) : (tail \o data)[i] = tail[i]
        /\ \A i \in 1..Len(data) : (tail \o data)[Len(tail) + i] = data[i]
    BY <1>1, <1>2, SeqJoined
  <2> QED
    BY <2>1
<1>4. TagBytes \in Nat /\ TagBytes >= 1
  BY LimitFacts
<1>5. n = IF Len(bytes) - TagBytes >= 0 THEN Len(bytes) - TagBytes ELSE 0
  <2>1. Len(bytes) - TagBytes \in Int
    BY <1>1, <1>2, <1>3, <1>4
  <2> QED
    BY <2>1, MaxOfTwo DEF Passes
<1>6. /\ n \in Nat /\ n <= Len(bytes) /\ Len(bytes) - n <= TagBytes
      /\ n > 0 => Len(bytes) - n = TagBytes
  BY <1>1, <1>2, <1>3, <1>4, <1>5
<1>7. n = 0 => fed = <<>>
  BY <1>0, <1>1, <1>2, <1>3, <1>4, <1>5
<1>8. reader.pos + Len(data) = Len(header) + Len(fed) + Len(bytes)
  BY <1>0, <1>1, <1>2, <1>3
<1>9. ASSUME reader.of = "snapshot" \/ changes = 0, NEW i \in 1..Len(bytes)
      PROVE  bytes[i] = b[Len(header) + Len(fed) + i]
  <2>1. ReadOf(b)
    BY <1>0, <1>9 DEF Contents
  <2>2. CASE i <= Len(tail)
    <3>1. i \in 1..Len(tail)
      BY <1>1, <2>2
    <3> QED
      BY <1>3, <2>1, <3>1 DEF ReadOf
  <2>3. CASE i > Len(tail)
    <3>1. PICK j \in 1..Len(data) : i = Len(tail) + j
      <4>1. i - Len(tail) \in 1..Len(data) /\ i = Len(tail) + (i - Len(tail))
        BY <1>1, <1>2, <1>3, <2>3
      <4> QED
        BY <4>1
    <3>2. Len(header) + Len(fed) + i = reader.pos + j
      BY <1>0, <1>1, <3>1
    <3> QED
      BY <1>2, <1>3, <3>1, <3>2
  <2> QED
    BY <1>1, <1>2, <1>3, <2>2, <2>3
<1>10. Divided(data, bytes, n, b)
  BY <1>2, <1>3, <1>6, <1>7, <1>8, <1>9 DEF Divided
<1> QED
  BY <1>10

\* The container that is released, and how far it was processed.
LEMMA ReleasingFacts ==
    ASSUME StreamInv, pc = "release"
    PROVE  \E p \in Plaintexts :
              /\ IsSeq(p) /\ Len(p) \in Nat /\ Len(p) <= MaxFileBytes
              /\ LaidOut(snapshot, key, op.suite, p) /\ snapshot = Sealed(key, op.suite, p)
              /\ Opens(snapshot, p)
              /\ reader.limit = Len(p) + TagBytes
              /\ Len(fed) <= Len(p) /\ \A i \in 1..Len(sink) : sink[i] = p[i]
<1>1. PICK p \in Plaintexts :
              /\ snapshot = Sealed(key, op.suite, p)
              /\ Len(p) <= MaxFileBytes /\ reader.limit = Len(p) + TagBytes
              /\ Len(fed) <= Len(p)
              /\ \A i \in 1..Len(sink) : sink[i] = p[i]
  BY DEF StreamInv, Releasing
<1>2. IsSeq(p) /\ Len(p) \in Nat
  BY LimitFacts, SeqFacts
<1>3. LaidOut(snapshot, key, op.suite, p)
  <2>1. op.suite \in Suite
    BY DEF StreamInv, StreamTypes
  <2> QED
    BY <1>1, <1>2, <2>1, SealedLaidOut
<1>4. Opens(snapshot, p)
  <2>1. \E i \in 1..Len(Keys[op.suite]) : key = Keys[op.suite][i]
    BY DEF StreamInv, Releasing
  <2> QED
    BY <1>1, <2>1 DEF Opens
<1> QED
  BY <1>1, <1>2, <1>3, <1>4

\* What is too long to be processed is too long to be accepted, and is never released.
LEMMA ProcessRefused ==
    ASSUME StreamInv, pc \in {"verify", "release"}, ~AtEnd, NEW data \in Chunks(ChunkBytes),
           ~Within(data) \/ ~ProcessFits(Len(fed) + Passes(tail \o data)), changes = 0, Acceptable
    PROVE  FALSE
<1>1. PICK bytes, n, b : Divided(data, bytes, n, b)
  BY ProcessFacts
<1>4. /\ bytes = tail \o data /\ n = Passes(bytes) /\ b = Bytes(reader.of)
      /\ IsSeq(data) /\ Len(data) \in Nat /\ Len(data) >= 1
      /\ IsSeq(bytes) /\ Len(bytes) = Len(tail) + Len(data)
      /\ n \in Nat /\ n <= Len(bytes) /\ Len(bytes) - n <= TagBytes
      /\ n > 0 => Len(bytes) - n = TagBytes
      /\ n = 0 => fed = <<>>
      /\ reader.pos + Len(data) <= Len(b)
      /\ reader.pos + Len(data) = Len(header) + Len(fed) + Len(bytes)
      /\ reader.of = "snapshot" \/ changes = 0 =>
            \A i \in 1..Len(bytes) : bytes[i] = b[Len(header) + Len(fed) + i]
  BY <1>1 DEF Divided
<1>5. /\ StreamTypes /\ header = HeaderOf(op.suite) /\ op.suite \in Suite /\ op.kind # "encrypt"
      /\ reader.pos = Len(header) + Len(fed) + Len(tail)
      /\ pc = "verify" => reader.count = reader.pos /\ reader.limit = ContainerLimit
      /\ pc = "release" => reader.count = Len(fed) + Len(tail) /\ reader.of = "snapshot"
  BY DEF StreamInv, StreamTypes, Position, Stage
<1>6. PICK s : s = op.suite
  OBVIOUS
<1>7. /\ s \in Nat /\ s <= MaxName /\ s \in Suite /\ Len(header) = s + 1
      /\ TagBytes \in Nat /\ TagBytes >= 1 /\ MaxFileBytes \in Nat /\ MaxName \in Nat
      /\ ContainerLimit = MaxFileBytes + 1 + MaxName + TagBytes
  BY <1>5, <1>6, HeaderFacts, LimitFacts
<1>8. Len(fed) \in Nat /\ Len(tail) \in Nat /\ (fed = <<>> => Len(fed) = 0)
  <2>1. IsSeq(tail) /\ IsSeq(fed)
    BY <1>5 DEF StreamTypes
  <2> QED
    BY <2>1, SeqFacts, SeqEmpty
<1>9. Len(b) \in Nat
  BY <1>4, <1>5, ReadingFacts
<1>10. ~(reader.count + Len(data) <= reader.limit) \/ ~(Len(fed) + n <= MaxFileBytes)
  BY <1>4 DEF Within, ProcessFits
<1>11. CASE pc = "verify"
  <2>1. Len(b) > s + 1 + MaxFileBytes + TagBytes
    <3>1. CASE ~(reader.count + Len(data) <= reader.limit)
      BY <1>4, <1>5, <1>7, <1>8, <1>9, <1>11, <3>1
    <3>2. CASE ~(Len(fed) + n <= MaxFileBytes)
      <4>1. n > 0
        BY <1>4, <1>7, <1>8, <3>2
      <4>2. Len(bytes) = n + TagBytes
        BY <1>4, <1>7, <1>8, <4>1
      <4>3. s + 1 + Len(fed) + Len(bytes) <= Len(b)
        BY <1>4, <1>7
      <4>4. n \in Nat
        BY <1>4
      <4> QED
        BY <1>7, <1>8, <1>9, <3>2, <4>2, <4>3, <4>4
    <3> QED
      BY <1>10, <3>1, <3>2
  <2>2. PICK r \in Suite : Fits(source, r) /\ (op.kind # "inspect" => r = op.suite)
    BY <1>5, AcceptableFits
  <2>3. op.kind # "inspect"
    BY <1>11 DEF StreamInv, Stage, StreamTypes
  <2>4. b = source /\ IsSeq(source)
    BY <1>4, <1>5, ReadingFacts, SourceFacts
  <2>5. Len(b) <= s + 1 + MaxFileBytes + TagBytes
    BY <1>6, <1>7, <2>2, <2>3, <2>4, FitsFacts
  <2> QED
    BY <1>7, <1>9, <2>1, <2>5
<1>12. CASE pc = "release"
  <2>1. PICK p \in Plaintexts :
              /\ IsSeq(p) /\ Len(p) \in Nat /\ Len(p) <= MaxFileBytes
              /\ LaidOut(snapshot, key, op.suite, p) /\ snapshot = Sealed(key, op.suite, p)
              /\ Opens(snapshot, p)
              /\ reader.limit = Len(p) + TagBytes
              /\ Len(fed) <= Len(p) /\ \A i \in 1..Len(sink) : sink[i] = p[i]
    BY <1>12, ReleasingFacts
  <2>2. Len(b) = s + 1 + Len(p) + TagBytes
    BY <1>4, <1>5, <1>6, <1>12, <2>1 DEF LaidOut, Bytes
  <2>3. CASE ~(reader.count + Len(data) <= reader.limit)
    <3>1. /\ reader.count = Len(fed) + Len(tail) /\ reader.limit = Len(p) + TagBytes
          /\ reader.pos = (s + 1) + Len(fed) + Len(tail)
          /\ reader.pos + Len(data) <= (s + 1) + Len(p) + TagBytes
      BY <1>4, <1>5, <1>7, <1>12, <2>1, <2>2
    <3>2. /\ s \in Nat /\ Len(fed) \in Nat /\ Len(tail) \in Nat /\ Len(data) \in Nat
          /\ Len(p) \in Nat /\ TagBytes \in Nat
      BY <1>4, <1>7, <1>8, <2>1
    <3> QED
      BY <2>3, <3>1, <3>2
  <2>4. CASE ~(Len(fed) + n <= MaxFileBytes)
    <3>1. n > 0
      BY <1>4, <1>7, <1>8, <2>4
    <3>2. Len(bytes) = n + TagBytes
      BY <1>4, <1>7, <1>8, <3>1
    <3>3. s + 1 + Len(fed) + Len(bytes) <= s + 1 + Len(p) + TagBytes
      BY <1>4, <1>7, <2>2
    <3>4. Len(p) \in Nat /\ Len(p) <= MaxFileBytes
      BY <2>1
    <3>5. n \in Nat
      BY <1>4
    <3> QED
      BY <1>7, <1>8, <2>4, <3>2, <3>3, <3>4, <3>5
  <2> QED
    BY <1>10, <2>3, <2>4
<1> QED
  BY <1>11, <1>12

\* A step of _process_payload keeps the invariant.
LEMMA ProcessKeeps ==
    ASSUME StreamInv, Process
    PROVE  StreamInv'
<1>0. /\ StreamTypes /\ Stage /\ Contents /\ Taken /\ pc \in {"verify", "release"} /\ ~AtEnd
      /\ op.kind # "encrypt" /\ header = HeaderOf(op.suite) /\ op.suite \in Suite
      /\ reader.pos = Len(header) + Len(fed) + Len(tail)
      /\ pc = "verify" => reader.count = reader.pos /\ reader.limit = ContainerLimit
      /\ pc = "release" => reader.count = Len(fed) + Len(tail) /\ reader.of = "snapshot"
  BY DEF StreamInv, StreamTypes, Stage, Position, Process
<1>1. PICK data \in Chunks(ChunkBytes) :
          IF ~Within(data) \/ ~ProcessFits(Len(fed) + Passes(tail \o data))
               THEN Refused
               ELSE /\ reader' = After(data)
                    /\ tail' = SubSeq(tail \o data, Passes(tail \o data) + 1, Len(tail \o data))
                    /\ fed' = fed \o SubSeq(tail \o data, 1, Passes(tail \o data))
                    /\ sink' = IF pc = "release"
                                 THEN sink \o Decrypted(key, Len(fed) + 1,
                                                        SubSeq(tail \o data, 1, Passes(tail \o data)))
                                 ELSE sink
                    /\ UNCHANGED <<given, pc, header, snapshot, key, result>>
  BY DEF Process
<1>2. CASE ~Within(data) \/ ~ProcessFits(Len(fed) + Passes(tail \o data))
  <2>1. Refused
    BY <1>1, <1>2
  <2>2. changes = 0 => ~Acceptable
    BY <1>0, <1>2, ProcessRefused
  <2> QED
    BY <1>0, <2>1, <2>2, RefusedKeeps
<1>3. CASE Within(data) /\ ProcessFits(Len(fed) + Passes(tail \o data))
  <2>6. PICK bytes, n, b : Divided(data, bytes, n, b)
    BY <1>0, ProcessFacts
  <2>7. /\ bytes = tail \o data /\ n = Passes(bytes) /\ b = Bytes(reader.of)
        /\ IsSeq(data) /\ Len(data) \in Nat /\ Len(data) >= 1
        /\ IsSeq(bytes) /\ Len(bytes) = Len(tail) + Len(data)
        /\ n \in Nat /\ n <= Len(bytes) /\ Len(bytes) - n <= TagBytes
        /\ n > 0 => Len(bytes) - n = TagBytes
        /\ n = 0 => fed = <<>>
        /\ reader.pos + Len(data) <= Len(b)
        /\ reader.pos + Len(data) = Len(header) + Len(fed) + Len(bytes)
        /\ reader.of = "snapshot" \/ changes = 0 =>
              \A i \in 1..Len(bytes) : bytes[i] = b[Len(header) + Len(fed) + i]
    BY <2>6 DEF Divided
  <2>3. PICK payload : payload = SubSeq(bytes, 1, n)
    OBVIOUS
  <2>4. PICK r : r = After(data)
    OBVIOUS
  <2>5. /\ reader' = r
        /\ tail' = SubSeq(bytes, n + 1, Len(bytes))
        /\ fed' = fed \o payload
        /\ sink' = IF pc = "release" THEN sink \o Decrypted(key, Len(fed) + 1, payload) ELSE sink
        /\ UNCHANGED <<op, source, changes, pc, header, snapshot, key, result>>
    BY <1>1, <1>3, <2>7, <2>3, <2>4 DEF given
  <2>8. /\ IsSeq(fed) /\ IsSeq(tail) /\ IsSeq(header) /\ IsSeq(sink)
        /\ Len(fed) \in Nat /\ Len(tail) \in Nat /\ Len(header) \in Nat /\ Len(sink) \in Nat
        /\ Len(bytes) \in Nat
    <3>1. IsSeq(fed) /\ IsSeq(tail) /\ IsSeq(header) /\ IsSeq(sink)
      BY <1>0 DEF StreamTypes
    <3> QED
      BY <2>7, <3>1, SeqFacts
  <2>9. /\ IsSeq(payload) /\ Len(payload) = n
        /\ \A i \in 1..n : payload[i] = bytes[i]
    <3>1. IsSeq(bytes) /\ n \in Nat /\ n <= Len(bytes)
      BY <2>7
    <3>2. /\ IsSeq(SubSeq(bytes, 1, n)) /\ Len(SubSeq(bytes, 1, n)) = n
          /\ \A i \in 1..n : SubSeq(bytes, 1, n)[i] = bytes[i]
      BY <3>1, SeqStart
    <3> QED
      BY <2>3, <3>2
  <2>10. /\ IsSeq(tail') /\ Len(tail') = Len(bytes) - n
         /\ \A i \in 1..Len(bytes) - n : tail'[i] = bytes[n + i]
    <3>1. IsSeq(bytes) /\ n \in Nat /\ Len(bytes) \in Nat /\ n <= Len(bytes) /\ Len(bytes) <= Len(bytes)
      BY <2>7, <2>8
    <3>2. /\ IsSeq(SubSeq(bytes, n + 1, Len(bytes))) /\ Len(SubSeq(bytes, n + 1, Len(bytes))) = Len(bytes) - n
          /\ \A i \in 1..Len(bytes) - n : SubSeq(bytes, n + 1, Len(bytes))[i] = bytes[n + i]
      BY <3>1, SeqCut
    <3> QED
      BY <2>5, <3>2
  <2>11. /\ IsSeq(fed') /\ Len(fed') = Len(fed) + n
         /\ \A i \in 1..Len(fed) : fed'[i] = fed[i]
         /\ \A i \in 1..n : fed'[Len(fed) + i] = bytes[i]
    <3>1. /\ IsSeq(fed \o payload) /\ Len(fed \o payload) = Len(fed) + Len(payload)
          /\ \A i \in 1..Len(fed) : (fed \o payload)[i] = fed[i]
          /\ \A i \in 1..Len(payload) : (fed \o payload)[Len(fed) + i] = payload[i]
      <4>1. IsSeq(fed) /\ IsSeq(payload)
        BY <2>8, <2>9
      <4> QED
        BY <4>1, SeqJoined
    <3> QED
      BY <2>5, <2>9, <3>1
  <2>12. /\ r.of = reader.of /\ r.pos = reader.pos + Len(data) /\ r.count = reader.count + Len(data)
         /\ r.limit = reader.limit /\ r.total = reader.total
         /\ r \in [of : {"source", "snapshot"}, pos : Nat, count : Nat, limit : Nat, total : Int]
    BY <1>0, <2>4, <2>7, AfterFacts
  <2>13. reader.count + Len(data) <= reader.limit /\ Len(fed) + n <= MaxFileBytes
    BY <1>3, <2>7 DEF Within, ProcessFits
  <2>14. /\ MaxName \in Nat /\ TagBytes \in Nat /\ TagBytes >= 1 /\ MaxFileBytes \in Nat
         /\ ContainerLimit = MaxFileBytes + 1 + MaxName + TagBytes
    BY LimitFacts
  \* What a decryption writes.
  <2>15. ASSUME pc = "release"
         PROVE  \E p \in Plaintexts :
                   /\ IsSeq(p) /\ Len(p) <= MaxFileBytes /\ snapshot = Sealed(key, op.suite, p)
                   /\ Opens(snapshot, p) /\ reader.limit = Len(p) + TagBytes
                   /\ Len(fed) + n <= Len(p)
                   /\ IsSeq(sink') /\ Len(sink') = Len(fed) + n
                   /\ \A i \in 1..Len(sink') : sink'[i] = p[i]
    <3>1. PICK p \in Plaintexts :
              /\ IsSeq(p) /\ Len(p) \in Nat /\ Len(p) <= MaxFileBytes
              /\ LaidOut(snapshot, key, op.suite, p) /\ snapshot = Sealed(key, op.suite, p)
              /\ Opens(snapshot, p)
              /\ reader.limit = Len(p) + TagBytes
              /\ Len(fed) <= Len(p) /\ \A i \in 1..Len(sink) : sink[i] = p[i]
      BY <2>15, ReleasingFacts
    <3>2. PICK s : s = op.suite
      OBVIOUS
    <3>3. s \in Nat /\ s \in Suite /\ Len(header) = s + 1
      BY <1>0, <3>2, HeaderFacts, LimitFacts
    <3>4. b = snapshot
      BY <1>0, <2>7, <2>15 DEF Bytes
    <3>5. Len(b) = s + 1 + Len(p) + TagBytes /\ \A i \in 1..Len(p) : b[s + 1 + i] = <<key, i, p[i]>>
      BY <3>1, <3>2, <3>4 DEF LaidOut
    <3>6. Len(fed) + n <= Len(p)
      <4>1. CASE n = 0
        <5>1. n \in Nat /\ Len(fed) \in Nat /\ Len(fed) <= Len(p)
          BY <2>7, <2>8, <3>1
        <5> QED
          BY <4>1, <5>1
      <4>2. CASE n # 0
        <5>1. n > 0
          BY <2>7, <4>2
        <5>2. Len(bytes) = n + TagBytes
          BY <2>7, <2>8, <2>14, <5>1
        <5>3. s + 1 + Len(fed) + Len(bytes) <= s + 1 + Len(p) + TagBytes
          BY <2>7, <3>3, <3>5
        <5>4. /\ n \in Nat /\ Len(p) \in Nat /\ s \in Nat /\ Len(fed) \in Nat
              /\ TagBytes \in Nat
          BY <2>7, <2>8, <2>14, <3>1, <3>3
        <5> QED
          BY <5>2, <5>3, <5>4
      <4> QED
        BY <4>1, <4>2
    <3>7. ASSUME NEW i \in 1..n PROVE payload[i] = <<key, Len(fed) + i, p[Len(fed) + i]>>
      <4>1. i \in 1..Len(bytes)
        BY <2>7, <2>8
      <4>2. bytes[i] = b[Len(header) + Len(fed) + i]
        BY <1>0, <2>7, <2>15, <4>1
      <4>3. Len(fed) + i \in 1..Len(p)
        <5>1. n \in Nat /\ Len(fed) \in Nat /\ Len(p) \in Nat
          BY <2>7, <2>8, <3>1
        <5> QED
          BY <3>6, <5>1
      <4>4. Len(header) + Len(fed) + i = s + 1 + (Len(fed) + i)
        BY <2>8, <3>3
      <4> QED
        BY <2>9, <3>5, <4>2, <4>3, <4>4
    <3>8. PICK d : d = Decrypted(key, Len(fed) + 1, payload)
      OBVIOUS
    <3>9. IsSeq(d) /\ Len(d) = n /\ \A i \in 1..n : d[i] = p[Len(fed) + i]
      <4>1. d = [i \in 1..n |-> d[i]] /\ n \in Nat
        BY <2>7, <2>9, <3>8 DEF Decrypted
      <4>2. ASSUME NEW i \in 1..n PROVE d[i] = p[Len(fed) + i]
        <5>1. PICK e : e = payload[i]
          OBVIOUS
        <5>2. d[i] = IF Len(e) = 3 /\ e[1] = key /\ e[2] = Len(fed) + 1 + i - 1 THEN e[3] ELSE Garbage
          BY <2>9, <3>8, <5>1 DEF Decrypted
        <5>3. e = <<key, Len(fed) + i, p[Len(fed) + i]>>
          BY <3>7, <5>1
        <5>4. Len(fed) + 1 + i - 1 = Len(fed) + i
          BY <2>7, <2>8
        <5> QED
          BY <5>2, <5>3, <5>4
      <4> QED
        BY <4>1, <4>2, SeqMade
    <3>10. Len(sink) = Len(fed)
      BY <2>15 DEF StreamInv, Releasing
    <3>11. sink' = sink \o d
      BY <2>5, <2>15, <3>8
    <3>12. /\ IsSeq(sink') /\ Len(sink') = Len(fed) + n
           /\ \A i \in 1..Len(fed) : sink'[i] = sink[i]
           /\ \A i \in 1..n : sink'[Len(fed) + i] = d[i]
      <4>1. IsSeq(sink) /\ IsSeq(d)
        BY <2>8, <3>9
      <4>2. /\ IsSeq(sink \o d) /\ Len(sink \o d) = Len(sink) + Len(d)
            /\ \A i \in 1..Len(sink) : (sink \o d)[i] = sink[i]
            /\ \A i \in 1..Len(d) : (sink \o d)[Len(sink) + i] = d[i]
        BY <4>1, SeqJoined
      <4> QED
        BY <3>9, <3>10, <3>11, <4>2
    <3>13. ASSUME NEW i \in 1..Len(sink') PROVE sink'[i] = p[i]
      <4>1. CASE i <= Len(fed)
        <5>1. i \in 1..Len(fed) /\ i \in 1..Len(sink)
          BY <2>8, <3>10, <4>1
        <5> QED
          BY <3>1, <3>12, <5>1
      <4>2. CASE i > Len(fed)
        <5>1. PICK j \in 1..n : i = Len(fed) + j
          <6>1. Len(sink') = Len(fed) + n /\ Len(fed) \in Nat /\ n \in Nat
            BY <2>7, <2>8, <3>12
          <6>2. i - Len(fed) \in 1..n /\ i = Len(fed) + (i - Len(fed))
            BY <4>2, <6>1
          <6> QED
            BY <6>2
        <5> QED
          BY <3>9, <3>12, <5>1
      <4> QED
        BY <2>7, <2>8, <3>12, <4>1, <4>2
    <3> QED
      BY <3>1, <3>6, <3>12, <3>13
  <2>16. pc = "verify" => sink' = sink
    BY <2>5
  <2>17. StreamTypes'
    <3>1. IsSeq(sink')
      BY <1>0, <2>8, <2>15, <2>16
    <3>2. (reader.count <= reader.limit /\ reader.total >= Unknown)'
      BY <1>0, <2>5, <2>12, <2>13 DEF StreamTypes
    <3>3. (Len(fed) <= MaxFileBytes /\ Len(tail) <= TagBytes)'
      BY <2>7, <2>10, <2>11, <2>13
    <3> QED
      BY <1>0, <2>5, <2>10, <2>11, <2>12, <3>1, <3>2, <3>3 DEF StreamTypes
  <2>18. Stage'
    <3>1. op.kind \in {"inspect", "verify"} \/ (op.kind = "decrypt" /\ pc = "verify") => sink' = sink
      BY <1>0, <2>16 DEF Stage
    <3> QED
      BY <1>0, <2>5, <2>12, <3>1 DEF Stage
  <2>19. Position'
    <3>1. reader'.pos = Len(header') + Len(fed') + Len(tail')
      <4>1. Len(fed') + Len(tail') = Len(fed) + Len(bytes)
        BY <2>7, <2>8, <2>10, <2>11
      <4> QED
        <5>1. reader'.pos = reader.pos + Len(data) /\ header' = header
          BY <2>5, <2>12
        <5>2. reader'.pos = Len(header) + Len(fed) + Len(bytes)
          BY <2>7, <5>1
        <5>3. Len(fed') \in Nat /\ Len(tail') \in Nat
          BY <2>7, <2>8, <2>10, <2>11
        <5> QED
          BY <2>8, <4>1, <5>1, <5>2, <5>3
    <3>2. fed' # <<>> => Len(tail') = TagBytes
      <4>1. CASE n = 0
        <5>1. Len(fed') = 0
          BY <2>7, <2>11, <4>1, SeqEmpty
        <5> QED
          BY <2>11, <5>1, SeqNone
      <4>2. CASE n # 0
        BY <2>7, <2>10, <4>2
      <4> QED
        BY <4>1, <4>2
    <3>3. pc = "release" => reader'.count = Len(fed') + Len(tail')
      <4>1. Len(fed') + Len(tail') = Len(fed) + Len(tail) + Len(data)
        BY <2>7, <2>8, <2>10, <2>11
      <4> QED
        BY <1>0, <2>5, <2>7, <2>8, <2>12, <4>1
    <3> QED
      BY <1>0, <2>5, <2>12, <3>1, <3>2, <3>3 DEF Position
  <2>20. Contents'
    <3>1. ASSUME reader.of = "snapshot" \/ changes = 0 PROVE ReadOf(Bytes(reader.of))'
      <4>1. Bytes(reader.of)' = b
        BY <2>5, <2>7, <2>12 DEF Bytes
      <4>2. reader'.pos <= Len(b)
        BY <2>5, <2>7, <2>12
      <4>3. ReadOf(b)
        BY <1>0, <2>7, <3>1 DEF Contents
      <4>4. ASSUME NEW i \in 1..Len(fed') PROVE fed'[i] = b[Len(header) + i]
        <5>1. CASE i <= Len(fed)
          <6>1. i \in 1..Len(fed)
            BY <2>8, <5>1
          <6> QED
            BY <2>11, <4>3, <6>1 DEF ReadOf
        <5>2. CASE i > Len(fed)
          <6>1. PICK j \in 1..n : i = Len(fed) + j
            <7>1. Len(fed') = Len(fed) + n /\ Len(fed) \in Nat /\ n \in Nat
              BY <2>7, <2>8, <2>11
            <7>2. i - Len(fed) \in 1..n /\ i = Len(fed) + (i - Len(fed))
              BY <5>2, <7>1
            <7> QED
              BY <7>2
          <6>2. j \in 1..Len(bytes) /\ Len(header) + i = Len(header) + Len(fed) + j
            BY <2>7, <2>8, <6>1
          <6> QED
            BY <2>7, <2>11, <3>1, <6>1, <6>2
        <5> QED
          BY <2>7, <2>8, <2>11, <5>1, <5>2
      <4>5. ASSUME NEW i \in 1..Len(tail') PROVE tail'[i] = b[Len(header) + Len(fed') + i]
        <5>1. n + i \in 1..Len(bytes) /\ Len(header) + Len(fed') + i = Len(header) + Len(fed) + (n + i)
          <6>1. i \in 1..Len(bytes) - n /\ n \in Nat /\ Len(fed') = Len(fed) + n
            BY <2>7, <2>10, <2>11
          <6> QED
            BY <2>8, <6>1
        <5> QED
          BY <2>7, <2>10, <3>1, <5>1
      <4> QED
        BY <2>5, <4>1, <4>2, <4>3, <4>4, <4>5 DEF ReadOf
    <3> QED
      BY <1>0, <2>5, <2>12, <3>1 DEF Contents
  <2>21. Encryption'
    BY <1>0, <2>5 DEF Encryption
  <2>22. Taken'
    BY <1>0, <2>5 DEF Taken
  <2>23. Releasing'
    <3>1. SUFFICES ASSUME pc = "release" PROVE Releasing'
      BY <2>5 DEF Releasing
    <3>2. PICK p \in Plaintexts :
                   /\ IsSeq(p) /\ Len(p) <= MaxFileBytes /\ snapshot = Sealed(key, op.suite, p)
                   /\ Opens(snapshot, p) /\ reader.limit = Len(p) + TagBytes
                   /\ Len(fed) + n <= Len(p)
                   /\ IsSeq(sink') /\ Len(sink') = Len(fed) + n
                   /\ \A i \in 1..Len(sink') : sink'[i] = p[i]
      BY <2>15, <3>1
    <3>3. /\ snapshot' = Sealed(key, op.suite, p)' /\ reader'.limit = Len(p) + TagBytes
          /\ Len(fed') <= Len(p) /\ Len(sink') = Len(fed')
      BY <2>5, <2>11, <2>12, <3>2
    <3>4. (\E i \in 1..Len(Keys[op.suite]) : key = Keys[op.suite][i])'
      BY <2>5, <3>1 DEF StreamInv, Releasing
    <3> QED
      BY <3>2, <3>3, <3>4 DEF Releasing
  <2>24. RoomIsBounded'
    <3>1. Len(sink') <= ContainerLimit
      <4>1. CASE pc = "release"
        <5>1. Len(sink') = Len(fed) + n
          BY <2>15, <4>1
        <5>2. Len(fed) \in Nat /\ n \in Nat /\ Len(fed) + n <= MaxFileBytes
          BY <2>7, <2>8, <2>13
        <5> QED
          BY <2>14, <5>1, <5>2
      <4>2. CASE pc = "verify"
        BY <2>16, <4>2 DEF StreamInv, RoomIsBounded
      <4> QED
        BY <1>0, <4>1, <4>2
    <3> QED
      BY <2>5, <3>1 DEF StreamInv, RoomIsBounded
  <2>25. result' = "none"
    BY <1>0, <2>5 DEF StreamTypes
  <2>26. ReleasedIsAuthentic'
    <3>1. SUFFICES ASSUME op.kind = "decrypt", sink' # <<>>
                   PROVE  \E p \in Plaintexts : Opens(snapshot, p)' /\ IsPrefix(sink', p)
      BY <2>5, <2>25 DEF ReleasedIsAuthentic
    <3>2. pc = "release"
      BY <1>0, <2>16, <3>1 DEF Stage
    <3>3. PICK p \in Plaintexts :
                   /\ IsSeq(p) /\ Len(p) <= MaxFileBytes /\ snapshot = Sealed(key, op.suite, p)
                   /\ Opens(snapshot, p) /\ reader.limit = Len(p) + TagBytes
                   /\ Len(fed) + n <= Len(p)
                   /\ IsSeq(sink') /\ Len(sink') = Len(fed) + n
                   /\ \A i \in 1..Len(sink') : sink'[i] = p[i]
      BY <2>15, <3>2
    <3>4. IsPrefix(sink', p)
      BY <3>3, PrefixIs
    <3>5. Opens(snapshot, p)'
      BY <2>5, <3>3 DEF Opens
    <3> QED
      BY <3>4, <3>5
  <2>27. AcceptsExactly'
    BY <2>17, <2>25, AcceptsNext DEF Accepted
  <2> QED
    BY <2>17, <2>18, <2>19, <2>20, <2>21, <2>22, <2>23, <2>24, <2>26, <2>27 DEF StreamInv
<1> QED
  BY <1>2, <1>3

\* At the end of what is read, what was withheld is the tag of a container of the user's.
LEMMA TailOf ==
    ASSUME StreamInv, pc \in {"verify", "release"}, AtEnd, reader.of = "snapshot" \/ changes = 0,
           NEW k, NEW p, IsSeq(p), LaidOut(Bytes(reader.of), k, op.suite, p)
    PROVE  /\ Len(fed) = Len(p) /\ fed = Encrypted(k, p)
           /\ tail = Tag(k, header, fed)
<1>0. /\ StreamTypes /\ header = HeaderOf(op.suite) /\ op.suite \in Suite
      /\ reader.pos = Len(header) + Len(fed) + Len(tail)
      /\ Len(tail) <= TagBytes /\ (fed # <<>> => Len(tail) = TagBytes)
      /\ ReadOf(Bytes(reader.of)) /\ op.kind # "encrypt"
  BY DEF StreamInv, StreamTypes, Position, Contents, Stage
<1>1. PICK b : b = Bytes(reader.of)
  OBVIOUS
<1>2. PICK s : s = op.suite
  OBVIOUS
<1>3. /\ s \in Nat /\ s \in Suite /\ Len(header) = s + 1 /\ TagBytes \in Nat
  BY <1>0, <1>2, HeaderFacts, LimitFacts
<1>4. /\ IsSeq(fed) /\ IsSeq(tail) /\ Len(fed) \in Nat /\ Len(tail) \in Nat /\ Len(p) \in Nat
      /\ Len(b) \in Nat /\ (Len(fed) = 0 <=> fed = <<>>)
  <2>1. IsSeq(fed) /\ IsSeq(tail)
    BY <1>0 DEF StreamTypes
  <2>2. Len(b) \in Nat
    BY <1>0, <1>1, ReadingFacts
  <2> QED
    BY <2>1, <2>2, SeqFacts, SeqNone
<1>5. /\ Len(b) = s + 1 + Len(p) + TagBytes
      /\ \A i \in 1..Len(p) : b[s + 1 + i] = <<k, i, p[i]>>
      /\ \A i \in 1..TagBytes : b[s + 1 + Len(p) + i] = <<k, HeaderOf(s), Encrypted(k, p), i>>
  BY <1>1, <1>2 DEF LaidOut
<1>6. Len(b) = s + 1 + Len(fed) + Len(tail)
  BY <1>0, <1>1, <1>3, <1>4 DEF AtEnd, ReadOf
<1>7. Len(fed) = Len(p) /\ Len(tail) = TagBytes
  BY <1>0, <1>3, <1>4, <1>5, <1>6
<1>8. fed = Encrypted(k, p)
  <2>1. ASSUME NEW i \in 1..Len(p) PROVE fed[i] = <<k, i, p[i]>>
    <3>1. i \in 1..Len(fed) /\ Len(header) + i = s + 1 + i
      BY <1>3, <1>7
    <3> QED
      BY <1>0, <1>1, <1>5, <3>1 DEF ReadOf
  <2> QED
    BY <1>4, <1>7, <2>1, EncryptedOf
<1>9. tail = Tag(k, header, fed)
  <2>1. PICK t : t = Tag(k, header, fed)
    OBVIOUS
  <2>2. IsSeq(t) /\ Len(t) = TagBytes /\ \A i \in 1..TagBytes : t[i] = <<k, header, fed, i>>
    BY <2>1, TagFacts
  <2>3. ASSUME NEW i \in 1..Len(tail) PROVE tail[i] = t[i]
    <3>1. i \in 1..TagBytes /\ Len(header) + Len(fed) + i = s + 1 + Len(p) + i
      BY <1>3, <1>7
    <3>2. tail[i] = b[s + 1 + Len(p) + i]
      BY <1>0, <1>1, <3>1 DEF ReadOf
    <3> QED
      BY <1>0, <1>2, <1>5, <1>8, <2>2, <3>1, <3>2
  <2> QED
    BY <1>4, <1>7, <2>1, <2>2, <2>3, SeqSame
<1> QED
  BY <1>7, <1>8, <1>9

\* What authenticates is a container of the user's, since no tag is forged.
LEMMA AuthenticIsSealed ==
    ASSUME StreamInv, pc = "verify", AtEnd, reader.of = "snapshot" \/ changes = 0,
           NEW m \in Authentic, NEW k, k = Keys[op.suite][m]
    PROVE  \E p \in Plaintexts :
              /\ Len(p) = Len(fed) /\ Len(p) <= MaxFileBytes
              /\ Bytes(reader.of) = Sealed(k, op.suite, p)
              /\ Opens(Bytes(reader.of), p)
<1>0. /\ StreamTypes /\ header = HeaderOf(op.suite) /\ op.suite \in Suite
      /\ reader.pos = Len(header) + Len(fed) + Len(tail)
      /\ Len(fed) <= MaxFileBytes
      /\ ReadOf(Bytes(reader.of)) /\ op.kind # "encrypt"
  BY DEF StreamInv, StreamTypes, Position, Contents, Stage
<1>1. m \in 1..Len(Keys[op.suite]) /\ tail = Tag(k, header, fed)
  BY DEF Authentic
<1>2. PICK b : b = Bytes(reader.of)
  OBVIOUS
<1>3. PICK s : s = op.suite
  OBVIOUS
<1>4. /\ s \in Nat /\ s \in Suite /\ Len(header) = s + 1 /\ TagBytes \in Nat /\ TagBytes >= 1
      /\ \A i \in 1..s + 1 : header[i] = <<s>>
  BY <1>0, <1>3, HeaderFacts, LimitFacts
<1>5. /\ IsSeq(b) /\ Len(b) \in Nat /\ Len(fed) \in Nat
      /\ \A i \in 1..Len(b) : \E c \in Containers : b[i] \in Range(c)
  <2>1. IsSeq(fed)
    BY <1>0 DEF StreamTypes
  <2> QED
    BY <1>0, <1>2, <2>1, ReadingFacts, SeqFacts
<1>6. Len(tail) = TagBytes /\ \A i \in 1..TagBytes : tail[i] = <<k, header, fed, i>>
  BY <1>1, TagFacts
<1>7. Len(b) = s + 1 + Len(fed) + TagBytes
  BY <1>0, <1>2, <1>4, <1>5, <1>6 DEF AtEnd, ReadOf
<1>8. PICK p \in Plaintexts : fed = Encrypted(k, p)
  <2>1. PICK e : e = <<k, header, fed, 1>>
    OBVIOUS
  <2>2. e = b[s + 1 + Len(fed) + 1] /\ s + 1 + Len(fed) + 1 \in 1..Len(b)
    <3>1. 1 \in 1..TagBytes /\ Len(header) + Len(fed) + 1 = s + 1 + Len(fed) + 1
      BY <1>4
    <3>2. tail[1] = b[s + 1 + Len(fed) + 1]
      BY <1>0, <1>2, <1>6, <3>1 DEF ReadOf
    <3>3. s + 1 + Len(fed) + 1 \in 1..Len(b)
      BY <1>4, <1>5, <1>7
    <3> QED
      BY <1>6, <2>1, <3>1, <3>2, <3>3
  <2>3. PICK c \in Containers : e \in Range(c)
    BY <1>5, <2>2
  <2>4. PICK n \in 1..Len(c) : c[n] = e
    <3>1. DOMAIN c = 1..Len(c)
      BY LimitFacts, SeqFacts
    <3> QED
      BY <2>3, <3>1 DEF Range
  <2>5. Len(c[n]) = 4 /\ c[n][1] = Keys[s][m] /\ c[n][3] = fed
    BY <1>3, <2>1, <2>4
  <2>6. \E p \in Plaintexts : c[n][3] = Encrypted(Keys[s][m], p)
    BY <1>1, <1>3, <1>4, <2>5, TagsUnforged
  <2> QED
    BY <1>3, <2>5, <2>6
<1>9. IsSeq(p) /\ Len(p) \in Nat /\ Len(p) = Len(fed) /\ \A i \in 1..Len(p) : fed[i] = <<k, i, p[i]>>
  BY <1>8, LimitFacts, SeqFacts, EncryptedFacts
<1>10. LaidOut(b, k, s, p)
  <2>1. Len(b) = s + 1 + Len(p) + TagBytes
    BY <1>7, <1>9
  <2>2. ASSUME NEW i \in 1..s + 1 PROVE b[i] = <<s>>
    <3>1. i \in 1..Len(header)
      BY <1>4
    <3> QED
      BY <1>0, <1>2, <1>4, <3>1 DEF ReadOf
  <2>3. ASSUME NEW i \in 1..Len(p) PROVE b[s + 1 + i] = <<k, i, p[i]>>
    <3>1. i \in 1..Len(fed) /\ Len(header) + i = s + 1 + i
      BY <1>4, <1>9
    <3> QED
      BY <1>0, <1>2, <1>9, <3>1 DEF ReadOf
  <2>4. ASSUME NEW i \in 1..TagBytes
        PROVE  b[s + 1 + Len(p) + i] = <<k, HeaderOf(s), Encrypted(k, p), i>>
    <3>1. i \in 1..Len(tail) /\ Len(header) + Len(fed) + i = s + 1 + Len(p) + i
      BY <1>4, <1>6, <1>9
    <3>2. tail[i] = b[s + 1 + Len(p) + i]
      BY <1>0, <1>2, <3>1 DEF ReadOf
    <3> QED
      BY <1>0, <1>3, <1>6, <1>8, <3>2
  <2> QED
    BY <1>5, <2>1, <2>2, <2>3, <2>4 DEF LaidOut
<1>11. b = Sealed(k, s, p)
  BY <1>4, <1>9, <1>10, LaidOutSealed
<1>12. Opens(b, p)
  BY <1>1, <1>3, <1>11 DEF Opens
<1> QED
  BY <1>0, <1>2, <1>3, <1>9, <1>11, <1>12

\* The end of the first pass keeps the invariant: a key that authenticates makes what
\* was read acceptable, and what is acceptable has such a key.
LEMMA VerifiedKeeps ==
    ASSUME StreamInv, Verified
    PROVE  StreamInv'
<1>0. /\ StreamTypes /\ Stage /\ Contents /\ Taken /\ pc = "verify" /\ AtEnd
      /\ op.kind \in {"verify", "decrypt"} /\ op.kind # "encrypt" /\ sink = <<>>
      /\ header = HeaderOf(op.suite) /\ op.suite \in Suite
      /\ op.kind = "decrypt" => reader.of = "snapshot"
      /\ changes = 0 => Bytes(reader.of) = source
  <2>1. /\ StreamTypes /\ Stage /\ Contents /\ Taken /\ pc = "verify" /\ AtEnd
        /\ header = HeaderOf(op.suite) /\ op.suite \in Suite
        /\ op.kind # "encrypt" /\ reader.of \in {"source", "snapshot"}
    BY DEF StreamInv, StreamTypes, Stage, Position, Verified
  <2>2. op.kind \in {"verify", "decrypt"} /\ (op.kind = "decrypt" => reader.of = "snapshot")
    BY <2>1 DEF Stage
  <2>3. sink = <<>>
    BY <2>1, <2>2 DEF Stage
  <2> QED
    BY <2>1, <2>2, <2>3, ReadingFacts
<1>1. /\ Authentic \subseteq 1..Len(Keys[op.suite]) /\ Authentic \subseteq Nat
  <2>1. Authentic \subseteq 1..Len(Keys[op.suite])
    BY DEF Authentic
  <2>2. Len(Keys[op.suite]) \in Nat
    BY <1>0, LimitFacts, SeqFacts
  <2> QED
    BY <2>1, <2>2
<1>2. CASE Authentic = {}
  <2>1. Refused
    BY <1>2 DEF Verified
  <2>2. ASSUME changes = 0, Acceptable PROVE FALSE
    <3>1. PICK p \in Plaintexts : Opens(source, p)
      BY <1>0, <2>2 DEF Acceptable
    <3>2. PICK m \in 1..Len(Keys[op.suite]) : source = Sealed(Keys[op.suite][m], op.suite, p)
      BY <3>1 DEF Opens
    <3>3. PICK k : k = Keys[op.suite][m]
      OBVIOUS
    <3>4. IsSeq(p)
      BY LimitFacts
    <3>5. LaidOut(Bytes(reader.of), k, op.suite, p)
      BY <1>0, <2>2, <3>2, <3>3, <3>4, SealedLaidOut
    <3>6. tail = Tag(k, header, fed)
      BY <1>0, <2>2, <3>4, <3>5, TailOf
    <3> QED
      BY <1>2, <3>3, <3>6 DEF Authentic
  <2> QED
    BY <1>0, <2>1, <2>2, RefusedKeeps
<1>3. CASE Authentic # {} /\ op.kind = "verify"
  <2>1. Ends("ok") /\ sink' = sink
    BY <1>3 DEF Verified
  <2>2. ASSUME changes = 0 PROVE Acceptable
    <3>1. PICK m : m \in Authentic
      BY <1>3
    <3>2. PICK k : k = Keys[op.suite][m]
      OBVIOUS
    <3>3. PICK p \in Plaintexts : Len(p) <= MaxFileBytes /\ Opens(Bytes(reader.of), p)
      BY <1>0, <2>2, <3>1, <3>2, AuthenticIsSealed
    <3>4. Opens(source, p)
      BY <1>0, <2>2, <3>3
    <3> QED
      BY <1>3, <3>3, <3>4 DEF Acceptable
  <2>3. IsSeq(sink') /\ Len(sink') <= ContainerLimit
    BY <1>0, <2>1 DEF StreamTypes, StreamInv, RoomIsBounded
  <2> QED
    BY <1>0, <1>3, <2>1, <2>2, <2>3, AcceptedKeeps
<1>4. CASE Authentic # {} /\ op.kind = "decrypt"
  <2>1. PICK m : m = Min(Authentic)
    OBVIOUS
  <2>2. m \in Authentic /\ m \in 1..Len(Keys[op.suite])
    BY <1>1, <1>4, <2>1, MinOfSome
  <2>3. PICK k : k = Keys[op.suite][m]
    OBVIOUS
  <2>4. PICK r : r = NewReader("snapshot", Len(header), Len(fed) + TagBytes)
    OBVIOUS
  <2>5. /\ key' = k /\ reader' = r /\ pc' = "release" /\ fed' = <<>> /\ tail' = <<>>
        /\ UNCHANGED <<op, source, changes, header, snapshot, sink, result>>
    BY <1>4, <2>1, <2>3, <2>4 DEF Verified, Decrypts, given
  <2>6. PICK p \in Plaintexts :
              /\ Len(p) = Len(fed) /\ Len(p) <= MaxFileBytes
              /\ Bytes(reader.of) = Sealed(k, op.suite, p)
              /\ Opens(Bytes(reader.of), p)
    BY <1>0, <1>4, <2>2, <2>3, AuthenticIsSealed
  <2>7. snapshot = Sealed(k, op.suite, p) /\ Bytes(reader.of) = snapshot
    BY <1>0, <1>4, <2>6 DEF Bytes
  <2>8. /\ Len(fed) \in Nat /\ Len(header) \in Nat /\ Len(snapshot) \in Nat /\ TagBytes \in Nat
        /\ IsSeq(<<>>) /\ Len(<<>>) = 0
    <3>1. IsSeq(fed) /\ IsSeq(header)
      BY <1>0 DEF StreamTypes
    <3> QED
      BY <1>0, <3>1, SeqFacts, SourceFacts, LimitFacts, SeqEmpty
  <2>9. /\ r.of = "snapshot" /\ r.pos = Len(header) /\ r.count = 0 /\ r.limit = Len(fed) + TagBytes
        /\ r.total \in Nat
        /\ r \in [of : {"source", "snapshot"}, pos : Nat, count : Nat, limit : Nat, total : Int]
    <3>1. PICK d : d = Len(snapshot) - Len(header)
      OBVIOUS
    <3>2. d \in Int
      BY <2>8, <3>1
    <3>3. Max({0, d}) \in Nat
      BY <3>2, MaxOfTwo
    <3>4. /\ r.of = "snapshot" /\ r.pos = Len(header) /\ r.count = 0 /\ r.limit = Len(fed) + TagBytes
          /\ r.total = Max({0, d})
          /\ r = [of |-> r.of, pos |-> r.pos, count |-> r.count, limit |-> r.limit, total |-> r.total]
      BY <2>4, <3>1 DEF NewReader, Bytes
    <3> QED
      BY <2>8, <3>3, <3>4
  <2>10. StreamTypes'
    <3>1. (reader.count <= reader.limit /\ reader.total >= Unknown)'
      BY <2>5, <2>8, <2>9 DEF Unknown
    <3>2. (Len(fed) <= MaxFileBytes /\ Len(tail) <= TagBytes)'
      BY <2>5, <2>8, LimitFacts
    <3> QED
      BY <1>0, <2>5, <2>8, <2>9, <3>1, <3>2 DEF StreamTypes
  <2>11. Stage'
    BY <1>0, <1>4, <2>5, <2>9 DEF Stage
  <2>12. Position'
    BY <1>0, <2>5, <2>8, <2>9 DEF Position
  <2>13. Contents'
    <3>1. ReadOf(snapshot)
      BY <1>0, <1>4, <2>7 DEF Contents
    <3>2. Len(header) <= Len(snapshot)
      <4>1. reader.pos >= Len(header) /\ reader.pos \in Nat
        <5>1. reader.pos = Len(header) + Len(fed) + Len(tail) /\ IsSeq(tail)
          BY <1>0 DEF StreamInv, Position, StreamTypes
        <5>2. Len(tail) \in Nat
          BY <5>1, SeqFacts
        <5> QED
          BY <2>8, <5>1, <5>2
      <4> QED
        BY <2>8, <3>1, <4>1 DEF ReadOf
    <3>3. ReadOf(Bytes(reader.of))'
      <4>1. Bytes(reader.of)' = snapshot
        BY <2>5, <2>9 DEF Bytes
      <4> QED
        BY <2>5, <2>8, <2>9, <3>1, <3>2, <4>1 DEF ReadOf
    <3>4. changes = 0 => snapshot = source
      BY <1>0, <2>7
    <3> QED
      BY <2>5, <2>9, <3>3, <3>4 DEF Contents
  <2>14. Encryption'
    BY <2>5 DEF Encryption
  <2>15. Taken'
    BY <1>0, <2>5 DEF Taken
  <2>16. Releasing'
    <3>1. /\ snapshot' = Sealed(key, op.suite, p)' /\ Len(p) <= MaxFileBytes
          /\ reader'.limit = Len(p) + TagBytes /\ Len(fed') <= Len(p)
          /\ Len(sink') = Len(fed') /\ Len(sink') = 0
      BY <1>0, <2>5, <2>6, <2>7, <2>8, <2>9
    <3>2. \A i \in 1..Len(sink') : sink'[i] = p[i]
      BY <3>1
    <3>3. (\E i \in 1..Len(Keys[op.suite]) : key = Keys[op.suite][i])'
      BY <2>2, <2>3, <2>5
    <3> QED
      BY <3>1, <3>2, <3>3 DEF Releasing
  <2>17. RoomIsBounded'
    BY <2>5 DEF StreamInv, RoomIsBounded
  <2>18. ReleasedIsAuthentic' /\ AcceptsExactly'
    <3>1. result' = "none" /\ sink' = <<>>
      BY <1>0, <2>5 DEF StreamTypes
    <3> QED
      BY <2>10, <3>1, AcceptsNext DEF ReleasedIsAuthentic, Accepted
  <2> QED
    BY <2>10, <2>11, <2>12, <2>13, <2>14, <2>15, <2>16, <2>17, <2>18 DEF StreamInv
<1> QED
  BY <1>0, <1>2, <1>3, <1>4

\* The end of the second pass keeps the invariant: it never refuses the snapshot that
\* the first pass authenticated.
LEMMA ReleasedKeeps ==
    ASSUME StreamInv, Released
    PROVE  StreamInv'
<1>0. /\ StreamTypes /\ pc = "release" /\ AtEnd /\ op.kind = "decrypt" /\ reader.of = "snapshot"
      /\ op.suite \in Suite /\ Len(sink) = Len(fed)
      /\ changes = 0 => snapshot = source
  BY DEF StreamInv, StreamTypes, Stage, Contents, Releasing, Released
<1>1. PICK p \in Plaintexts :
              /\ IsSeq(p) /\ Len(p) \in Nat /\ Len(p) <= MaxFileBytes
              /\ LaidOut(snapshot, key, op.suite, p) /\ snapshot = Sealed(key, op.suite, p)
              /\ Opens(snapshot, p)
              /\ reader.limit = Len(p) + TagBytes
              /\ Len(fed) <= Len(p) /\ \A i \in 1..Len(sink) : sink[i] = p[i]
  BY <1>0, ReleasingFacts
<1>2. LaidOut(Bytes(reader.of), key, op.suite, p)
  BY <1>0, <1>1 DEF Bytes
<1>3. Len(fed) = Len(p) /\ tail = Tag(key, header, fed)
  BY <1>0, <1>1, <1>2, TailOf
<1>4. Ends("ok") /\ sink' = sink
  BY <1>3 DEF Released
<1>5. IsSeq(sink) /\ Len(sink) <= ContainerLimit
  BY <1>0 DEF StreamTypes, StreamInv, RoomIsBounded
<1>6. sink = p
  BY <1>0, <1>1, <1>3, <1>5, SeqSame
<1>7. IsPrefix(sink, p)
  BY <1>1, <1>5, <1>6, PrefixIs
<1>8. changes = 0 => Acceptable
  BY <1>0, <1>1 DEF Acceptable
<1>9. IsSeq(sink') /\ Len(sink') <= ContainerLimit
  BY <1>4, <1>5
<1>10. \E q \in Plaintexts : Opens(snapshot, q) /\ IsPrefix(sink, q) /\ sink = q
  BY <1>1, <1>6, <1>7
<1> QED
  BY <1>0, <1>4, <1>8, <1>9, <1>10, AcceptedKeeps

-----------------------------------------------------------------------------
\* A step that changes nothing keeps the invariant.
LEMMA StutterKeeps ==
    ASSUME StreamInv, UNCHANGED streamVars
    PROVE  StreamInv'
<1>1. UNCHANGED <<op, source, changes, pc, reader, header, snapshot, fed, tail, key, sink, result>>
  BY DEF streamVars
<1>2. StreamTypes'
  BY <1>1 DEF StreamInv, StreamTypes
<1>3. Stage'
  BY <1>1 DEF StreamInv, Stage
<1>4. Position'
  BY <1>1 DEF StreamInv, Position, Counted
<1>5. Contents'
  BY <1>1 DEF StreamInv, Contents, ReadOf, Bytes
<1>6. Encryption'
  BY <1>1 DEF StreamInv, Encryption
<1>7. Releasing'
  BY <1>1 DEF StreamInv, Releasing
<1>8. Taken'
  BY <1>1 DEF StreamInv, Taken
<1>9. RoomIsBounded'
  BY <1>1 DEF StreamInv, RoomIsBounded
<1>10. ReleasedIsAuthentic'
  BY <1>1 DEF StreamInv, ReleasedIsAuthentic, Opens
<1>11. AcceptsExactly'
  <2>1. Accepted
    BY AcceptsIs DEF StreamInv
  <2>2. Acceptable' <=> Acceptable
    BY <1>1, AcceptableSame
  <2>3. Accepted'
    BY <1>1, <2>1, <2>2 DEF Accepted
  <2> QED
    BY <1>2, <2>3, AcceptsNext
<1> QED
  BY <1>2, <1>3, <1>4, <1>5, <1>6, <1>7, <1>8, <1>9, <1>10, <1>11 DEF StreamInv

\* StreamInv holds in every reachable state of encrypt_stream, inspect_stream,
\* verify_stream and decrypt_stream.
THEOREM StreamInvariant == StreamSpec => []StreamInv
<1>1. StreamInit => StreamInv
  <2> SUFFICES ASSUME StreamInit PROVE StreamInv
    OBVIOUS
  <2>1. /\ op \in [kind : {"encrypt", "inspect", "verify", "decrypt"}, seekable : BOOLEAN, suite : Suite]
        /\ source \in IF op.kind = "encrypt" THEN Plaintexts ELSE Containers
        /\ changes = 0 /\ pc = "begin" /\ result = "none"
        /\ reader = [of |-> "source", pos |-> 0, count |-> 0, limit |-> 0, total |-> Unknown]
        /\ header = <<>> /\ snapshot = <<>> /\ fed = <<>> /\ tail = <<>> /\ sink = <<>>
    BY DEF StreamInit
  <2>2. /\ reader.of = "source" /\ reader.pos = 0 /\ reader.count = 0 /\ reader.limit = 0
        /\ reader.total = Unknown /\ Unknown \in Int
        /\ reader \in [of : {"source", "snapshot"}, pos : Nat, count : Nat, limit : Nat, total : Int]
    BY <2>1 DEF Unknown
  <2>3. StreamTypes
    BY <2>1, <2>2, LimitFacts, SeqEmpty DEF StreamTypes, Unknown
  <2>4. Stage /\ Position /\ Contents /\ Encryption /\ Releasing
    BY <2>1, <2>2 DEF Stage, Position, Contents, Encryption, Releasing
  <2>5. Taken
    BY <2>1, SeqEmpty DEF Taken
  <2>6. RoomIsBounded
    BY <2>1, SeqEmpty, LimitFacts DEF RoomIsBounded
  <2>7. ReleasedIsAuthentic
    BY <2>1 DEF ReleasedIsAuthentic
  <2>8. AcceptsExactly
    BY <2>1, <2>3, AcceptsIs DEF Accepted
  <2> QED
    BY <2>3, <2>4, <2>5, <2>6, <2>7, <2>8 DEF StreamInv
<1>2. StreamInv /\ [StreamNext]_streamVars => StreamInv'
  <2> SUFFICES ASSUME StreamInv, [StreamNext]_streamVars PROVE StreamInv'
    OBVIOUS
  <2>1. CASE Begin
    BY <2>1, BeginKeeps
  <2>2. CASE Copy
    BY <2>2, CopyKeeps
  <2>3. CASE Copied
    BY <2>3, CopiedKeeps
  <2>4. CASE ReadHeader
    BY <2>4, ReadHeaderKeeps
  <2>5. CASE Count
    BY <2>5, CountKeeps
  <2>6. CASE CountEnds
    BY <2>6, CountEndsKeeps
  <2>7. CASE Process
    BY <2>7, ProcessKeeps
  <2>8. CASE Verified
    BY <2>8, VerifiedKeeps
  <2>9. CASE Released
    BY <2>9, ReleasedKeeps
  <2>10. CASE Interrupted
    BY <2>10, InterruptedKeeps
  <2>11. CASE Changed
    BY <2>11, ChangedKeeps
  <2>12. CASE UNCHANGED streamVars
    BY <2>12, StutterKeeps
  <2> QED
    BY <2>1, <2>2, <2>3, <2>4, <2>5, <2>6, <2>7, <2>8, <2>9, <2>10, <2>11, <2>12 DEF StreamNext
<1> QED
  BY <1>1, <1>2, PTL DEF StreamSpec

\* The state of the streaming operations has its types: the AEAD context takes no more
\* than the file limit and no more than a tag is withheld.
THEOREM StreamTypeCorrect == StreamSpec => []StreamTypeOK
<1>1. StreamInv => StreamTypeOK
  BY LimitFacts DEF StreamInv, StreamTypes, StreamTypeOK
<1> QED
  BY <1>1, StreamInvariant, PTL

\* decrypt_stream writes no byte to the caller's sink that is not of a plaintext whose
\* container was authenticated from beginning to end, even when the source is changed
\* between the passes.
THEOREM StreamReleasedIsAuthentic == StreamSpec => []ReleasedIsAuthentic
<1>1. StreamInv => ReleasedIsAuthentic
  BY DEF StreamInv
<1> QED
  BY <1>1, StreamInvariant, PTL

\* Of a source that is left alone, each operation accepts exactly what it documents:
\* encrypt_stream what is within the limit, inspect_stream what has a header and a
\* length, verify_stream and decrypt_stream the containers of the private key.
THEOREM StreamAcceptsExactly == StreamSpec => []AcceptsExactly
<1>1. StreamInv => AcceptsExactly
  BY DEF StreamInv
<1> QED
  BY <1>1, StreamInvariant, PTL

\* However the source behaves, no operation takes more room in the snapshot or in the
\* sink than the limits allow.
THEOREM StreamRoomIsBounded == StreamSpec => []RoomIsBounded
<1>1. StreamInv => RoomIsBounded
  BY DEF StreamInv
<1> QED
  BY <1>1, StreamInvariant, PTL
=============================================================================
