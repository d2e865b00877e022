----------------------------- MODULE CacheProofs -----------------------------
(***************************************************************************)
(* What holds of the store, the pool and the drain for every size of       *)
(* object and chunk, every number of workers, retries and faults.          *)
(***************************************************************************)
EXTENDS Cache, FiniteSetTheorems, TLAPS

----------------------------------------------------------------------------
(* The inductive invariants. *)

Pieces == [at : Nat, bytes : Nat]

UploadTyped ==
    /\ left \in Nat /\ attempt \in Nat /\ totalPt \in Nat
    /\ sealed \in Seq(Pieces) /\ body \in Seq(Pieces)

\* What the store holds at each request of the upload, and for good when it ended.
UploadInv ==
    /\ uPc = "create" => sealed = <<>> /\ body = <<>>
    /\ uPc = "blob" => sealed = body
    /\ uPc \in {"create", "blob"} => stored = NoManifest /\ ~committed
    /\ uPc \in {"manifest", "commit"} => left = 0 /\ blob = sealed
    /\ uPc = "manifest" => ~committed
    /\ uPc = "commit" => stored = Manifest
    /\ stored # NoManifest => left = 0 /\ stored = Manifest
    /\ CommittedIsWhole

\* Nothing has come of the download.
Untouched ==
    /\ slots = {} /\ nextToDrain = 0 /\ draining = "no"
    /\ hashed = <<>> /\ written = <<>> /\ threw = {}
    /\ doneP = "pending" /\ ~failing
    /\ worker = [i \in Seqs |-> At("none")]

Refused == result \in {"none", "NC_BAD_MANIFEST"}

Hashed == {hashed[n] : n \in 1 .. Len(hashed)}

\* The drain is at the chunk that is due, and the sink has taken more chunks than the
\* drain is past once onProgress threw.
SinkInv ==
    /\ written \in Seq(Nat) /\ threw \in SUBSET (1 .. Len(written))
    /\ SinkInOrder /\ nextToDrain = Due(Len(written))
    /\ nextToDrain <= Len(written)
    /\ threw # {} => nextToDrain < Len(written)
    /\ threw = {} => written = UpTo(0, nextToDrain)

\* The drain has hashed what it awaits, and as many chunks as the sink has taken.
DrainInv ==
    /\ Total \in Nat /\ nextToDrain \in 0 .. Total
    /\ slots \in SUBSET (0 .. Total - 1)
    /\ SinkInv
    /\ hashed \in Seq(0 .. Total - 1)
    /\ 0 .. nextToDrain - 1 \subseteq Hashed
    /\ Len(written) <= Len(hashed)
    /\ Busy => /\ nextToDrain \in slots /\ nextToDrain \in Hashed
               /\ Len(written) < Len(hashed)

Workers ==
    [Seqs -> [at : {"none", "fetch", "open", "ended", "gone"}, attempt : Nat,
              error : DownloadCodes \cup {"none"}]]

\* Chunks are fetched once the object is committed, and only those there are.
PoolInv ==
    /\ worker \in Workers /\ nextSeq \in Int /\ active \in Int /\ parallel \in Int
    /\ \A i \in Seqs : worker[i].at \in {"fetch", "open"} => i < Total
    /\ (\E i \in Seqs : worker[i].at = "open") \/ slots # {} \/ nextToDrain > 0 => committed

\* The manifest is that of the source.
ManifestInv ==
    result # "none" => left = 0 /\ manifest = Manifest /\ uPc \notin {"create", "blob"}

\* A verdict is reached when everything is written and nothing is on its way.
VerdictInv ==
    result = "ok" =>
        /\ nextToDrain = Total /\ ~Busy
        /\ hashed = written /\ Len(sealed) = Total
        /\ written = UpTo(0, Total)

IInv ==
    /\ UploadTyped /\ UploadInv
    /\ Refused => Untouched
    /\ ~Refused => DrainInv /\ PoolInv
    /\ ManifestInv /\ VerdictInv

----------------------------------------------------------------------------
(* Runs of chunks. *)

LEMMA UpToIs ==
  ASSUME NEW from \in Nat, NEW to \in Nat, from <= to
  PROVE  /\ UpTo(from, to) \in Seq(Nat)
         /\ Len(UpTo(from, to)) = to - from
         /\ \A j \in 1 .. to - from : UpTo(from, to)[j] = from + j - 1
         /\ \A m \in Nat : to <= m => UpTo(from, to) \in Seq(0 .. m - 1)
  BY DEF UpTo

LEMMA OneUpTo ==
  ASSUME NEW a \in Nat PROVE UpTo(a, a + 1) = <<a>>
BY DEF UpTo

LEMMA UpToGrows ==
  ASSUME NEW a \in Nat, NEW b \in Nat, a <= b
  PROVE  /\ UpTo(0, a) \o UpTo(a, b) = UpTo(0, b)
         /\ Append(UpTo(0, a), a) = UpTo(0, a + 1)
<1>1. UpTo(0, a) \o UpTo(a, b) = UpTo(0, b)
  BY DEF UpTo
<1>2. Append(UpTo(0, a), a) = UpTo(0, a + 1)
  BY DEF UpTo
<1>3. QED
  BY <1>1, <1>2

\* Where the elements of two sequences are in their concatenation.
LEMMA CatAt ==
  ASSUME NEW p \in Seq(Nat), NEW q \in Seq(Nat)
  PROVE  /\ p \o q \in Seq(Nat) /\ Len(p \o q) = Len(p) + Len(q)
         /\ \A k \in 1 .. Len(p) : (p \o q)[k] = p[k]
         /\ \A k \in 1 .. Len(q) : (p \o q)[Len(p) + k] = q[k]
<1>1. p \o q \in Seq(Nat) /\ Len(p \o q) = Len(p) + Len(q)
  OBVIOUS
<1>2. ASSUME NEW k \in 1 .. Len(p) PROVE (p \o q)[k] = p[k]
  OBVIOUS
<1>3. ASSUME NEW k \in 1 .. Len(q) PROVE (p \o q)[Len(p) + k] = q[k]
  <2>1. /\ Len(p) \in Nat /\ Len(q) \in Nat
        /\ Len(p) + k \in 1 .. Len(p) + Len(q) /\ Len(p) + k > Len(p) /\ Len(p) + k - Len(p) = k
    OBVIOUS
  <2>2. QED
    BY <2>1
<1>4. QED
  BY <1>1, <1>2, <1>3

\* What is hashed more is in the hash, and what was in it stays.
LEMMA HashGrows ==
  ASSUME NEW m \in Nat, hashed \in Seq(0 .. m - 1),
         NEW a \in Nat, NEW b \in Nat, a <= b, b <= m,
         hashed' = hashed \o UpTo(a, b)
  PROVE  /\ hashed' \in Seq(0 .. m - 1) /\ Len(hashed') = Len(hashed) + b - a
         /\ Hashed \subseteq Hashed' /\ a .. b - 1 \subseteq Hashed'
<1> DEFINE s == UpTo(a, b)
<1>1. /\ s \in Seq(0 .. m - 1) /\ Len(s) = b - a
      /\ \A j \in 1 .. b - a : s[j] = a + j - 1
  BY UpToIs
<1> HIDE DEF s
<1>2. hashed' = hashed \o s
  BY DEF s
<1>3. /\ hashed' \in Seq(0 .. m - 1) /\ Len(hashed') = Len(hashed) + Len(s)
      /\ \A k \in 1 .. Len(hashed) : hashed'[k] = hashed[k]
      /\ \A k \in 1 .. Len(s) : hashed'[Len(hashed) + k] = s[k]
  <2>1. hashed \o s \in Seq(0 .. m - 1) /\ hashed \in Seq(Nat) /\ s \in Seq(Nat)
    BY <1>1
  <2>2. /\ hashed \o s \in Seq(0 .. m - 1) /\ Len(hashed \o s) = Len(hashed) + Len(s)
        /\ \A k \in 1 .. Len(hashed) : (hashed \o s)[k] = hashed[k]
        /\ \A k \in 1 .. Len(s) : (hashed \o s)[Len(hashed) + k] = s[k]
    BY <2>1, CatAt, Zenon
  <2>3. QED
    BY <1>2, <2>2, Zenon
<1>4. Len(hashed) \in Nat /\ Len(s) \in Nat
  BY <1>1
<1>5. hashed' \in Seq(0 .. m - 1)
  BY <1>3
<1>6. ASSUME NEW x \in Hashed PROVE x \in Hashed'
  <2>1. PICK n \in 1 .. Len(hashed) : hashed[n] = x
    BY DEF Hashed
  <2>2. n \in 1 .. Len(hashed') /\ hashed'[n] = x
    BY <1>3, <1>4, <2>1
  <2>3. QED
    BY <1>5, <2>2 DEF Hashed
<1>7. ASSUME NEW x \in a .. b - 1 PROVE x \in Hashed'
  <2> DEFINE n == Len(hashed) + (x - a + 1)
  <2>1. n \in 1 .. Len(hashed') /\ hashed'[n] = s[x - a + 1]
    <3>1. x - a + 1 \in 1 .. Len(s)
      BY <1>1
    <3>2. n \in 1 .. Len(hashed) + Len(s)
      BY <1>4, <3>1
    <3>3. QED
      BY <1>3, <3>1, <3>2, Zenon
  <2>2. s[x - a + 1] = x
    BY <1>1
  <2>3. QED
    BY <1>5, <2>1, <2>2 DEF Hashed
<1>8. QED
  BY <1>1, <1>5, <1>6, <1>7, <1>4, <1>3

LEMMA HashAppends ==
  ASSUME NEW m \in Nat, hashed \in Seq(0 .. m - 1), NEW a \in 0 .. m - 1,
         hashed' = Append(hashed, a)
  PROVE  /\ hashed' \in Seq(0 .. m - 1) /\ Len(hashed') = Len(hashed) + 1
         /\ Hashed \subseteq Hashed' /\ a \in Hashed'
<1>1. hashed' \in Seq(0 .. m - 1) /\ Len(hashed') = Len(hashed) + 1
  OBVIOUS
<1>2. ASSUME NEW x \in Hashed PROVE x \in Hashed'
  <2>1. PICK n \in 1 .. Len(hashed) : hashed[n] = x
    BY DEF Hashed
  <2>2. n \in 1 .. Len(hashed') /\ hashed'[n] = x
    BY <2>1
  <2>3. QED
    BY <1>1, <2>2 DEF Hashed
<1>3. Len(hashed) + 1 \in 1 .. Len(hashed') /\ hashed'[Len(hashed) + 1] = a
  OBVIOUS
<1>4. QED
  BY <1>1, <1>2, <1>3 DEF Hashed

----------------------------------------------------------------------------
(* The sink. *)

LEMMA SinkStays ==
  ASSUME SinkInv, UNCHANGED <<written, threw, nextToDrain>> PROVE SinkInv'
BY DEF SinkInv, SinkInOrder, Due

\* What is due after n writes, if there is one behind the n-th.
LEMMA DueIsNat ==
  ASSUME SinkInv, NEW n \in 0 .. Len(written) PROVE Due(n) \in Nat
BY DEF SinkInv, Due

\* The sink takes the chunks from the one that is due: the next is due, or the last
\* of them again when onProgress threw behind it.
LEMMA SinkGrows ==
  ASSUME SinkInv, NEW b \in Nat, nextToDrain <= b, Takes(b), nextToDrain' \in Nat,
         \/ nextToDrain' = b /\ UNCHANGED threw
         \/ nextToDrain < b /\ nextToDrain' = b - 1 /\ Threw
  PROVE  SinkInv' /\ Len(written') = Len(written) + b - nextToDrain
<1>1. Len(written) \in Nat /\ Len(written) \in 0 .. Len(written)
  BY DEF SinkInv
<1>2. nextToDrain \in Nat
  BY <1>1, DueIsNat DEF SinkInv
<1>3. PICK old \in Nat, new \in Nat : old = Len(written) /\ new = b - nextToDrain
  BY <1>1, <1>2
<1>4. /\ written \in Seq(Nat) /\ old = Len(written) /\ threw \in SUBSET (1 .. old)
      /\ nextToDrain \in Nat /\ nextToDrain <= old /\ nextToDrain = Due(old)
      /\ new = b - nextToDrain
  BY <1>2, <1>3 DEF SinkInv
<1>5. /\ UpTo(nextToDrain, b) \in Seq(Nat) /\ Len(UpTo(nextToDrain, b)) = new
      /\ \A j \in 1 .. new : UpTo(nextToDrain, b)[j] = nextToDrain + j - 1
  BY <1>2, <1>3, UpToIs, Zenon
<1>6. /\ written' \in Seq(Nat) /\ Len(written') = old + new
      /\ \A n \in 1 .. old : written'[n] = written[n]
      /\ \A j \in 1 .. new : written'[old + j] = nextToDrain + j - 1
  <2> DEFINE s == UpTo(nextToDrain, b)
  <2>1. written' = written \o s /\ s \in Seq(Nat) /\ Len(s) = new
    BY <1>5 DEF Takes
  <2>2. \A j \in 1 .. new : s[j] = nextToDrain + j - 1
    BY <1>5
  <2> HIDE DEF s
  <2>3. written \in Seq(Nat) /\ old = Len(written)
    BY <1>4
  <2>4. /\ written \o s \in Seq(Nat) /\ Len(written \o s) = old + new
        /\ \A n \in 1 .. old : (written \o s)[n] = written[n]
        /\ \A j \in 1 .. new : (written \o s)[old + j] = s[j]
    BY <2>1, <2>3, CatAt, Zenon
  <2>5. QED
    BY <2>1, <2>2, <2>4, Zenon
<1>7. /\ Len(written') = old + new /\ nextToDrain \in Nat /\ nextToDrain <= old
      /\ b = nextToDrain + new
  BY <1>4, <1>6
<1>8. ASSUME NEW n \in 1 .. old PROVE written'[n] = written[n]
  BY <1>6
<1>9. ASSUME NEW j \in 1 .. new PROVE written'[old + j] = nextToDrain + j - 1
  BY <1>6
<1>10. ASSUME NEW n \in threw PROVE n \in 1 .. old
  BY <1>4
<1>11. \/ threw' = threw /\ nextToDrain' = b
       \/ new > 0 /\ threw' = threw \cup {old + new} /\ nextToDrain' = b - 1
  BY <1>4, <1>6 DEF Threw
<1>12. threw' \in SUBSET (1 .. old + new)
  <2>1. 1 .. old \subseteq 1 .. old + new /\ (new > 0 => old + new \in 1 .. old + new)
    OBVIOUS
  <2>2. QED
    BY <1>10, <1>11, <2>1
<1>13. ASSUME NEW n \in 0 .. old, n < old + new PROVE Due(n)' = Due(n)
  <2>1. n \in threw' <=> n \in threw
    BY <1>11, <1>13
  <2>2. n > 0 => n \in 1 .. old
    OBVIOUS
  <2>3. n > 0 => written'[n] = written[n]
    BY <1>8, <2>2
  <2>4. QED
    BY <1>13, <2>1, <2>3 DEF Due
<1>14. ASSUME NEW j \in 1 .. new, j < new PROVE Due(old + j)' = nextToDrain + j
  <2>1. old + j \notin 1 .. old /\ old + j # 0 /\ old + j # old + new
    BY <1>14
  <2>2. old + j \notin threw'
    BY <1>10, <1>11, <2>1
  <2>3. old + j \notin threw' /\ old + j # 0 /\ written'[old + j] = nextToDrain + j - 1
    BY <1>9, <2>1, <2>2
  <2>4. QED
    <3>1. Due(old + j)' = written'[old + j] + 1
      BY <2>3 DEF Due
    <3>2. QED
      BY <1>7, <2>3, <3>1
<1>15. SinkInOrder'
  <2> SUFFICES ASSUME NEW n \in 1 .. old + new PROVE written'[n] = Due(n - 1)'
    BY <1>6 DEF SinkInOrder, Due
  <2>1. CASE n <= old
    <3>1. n - 1 \in 0 .. old /\ n - 1 < old + new /\ n \in 1 .. old
      BY <2>1
    <3>2. Due(n - 1)' = Due(n - 1) /\ written'[n] = written[n]
      BY <1>8, <1>13, <3>1
    <3>3. written[n] = Due(n - 1)
      BY <1>4, <3>1 DEF SinkInv, SinkInOrder
    <3>4. QED
      BY <3>2, <3>3
  <2>2. CASE n = old + 1
    <3>1. 1 \in 1 .. new
      BY <2>2
    <3>2. written'[n] = nextToDrain
      BY <1>7, <1>9, <2>2, <3>1
    <3>3. old \in 0 .. old /\ old < old + new /\ n - 1 = old
      BY <2>2
    <3>4. Due(old)' = Due(old)
      BY <1>13, <3>3
    <3>5. QED
      BY <1>4, <3>2, <3>3, <3>4
  <2>3. CASE n > old + 1
    <3> DEFINE j == n - old - 1
    <3>1. j \in 1 .. new /\ j < new /\ j + 1 \in 1 .. new /\ n = old + (j + 1) /\ n - 1 = old + j
      BY <2>3
    <3> HIDE DEF j
    <3>2. Due(old + j)' = nextToDrain + j
      BY <1>14, <3>1
    <3>3. written'[old + (j + 1)] = nextToDrain + (j + 1) - 1
      BY <1>9, <3>1
    <3>4. QED
      BY <1>7, <3>1, <3>2, <3>3
  <2>4. QED
    BY <2>1, <2>2, <2>3
<1>16. nextToDrain' = Due(Len(written))'
  <2>1. CASE new = 0
    <3>1. b = nextToDrain /\ threw' = threw /\ nextToDrain' = nextToDrain /\ Len(written') = old
      BY <1>11, <1>7, <2>1
    <3>2. old > 0 => written'[old] = written[old]
      <4>1. old > 0 => old \in 1 .. old
        OBVIOUS
      <4>2. QED
        BY <1>8, <4>1
    <3>3. QED
      BY <1>4, <3>1, <3>2 DEF Due
  <2>2. CASE new > 0
    <3>1. new \in 1 .. new
      BY <2>2
    <3>2. written'[old + new] = b - 1 /\ old + new # 0 /\ Len(written') = old + new
      BY <1>7, <1>9, <2>2, <3>1
    <3>3. \/ old + new \in threw' /\ nextToDrain' = b - 1
          \/ old + new \notin threw' /\ nextToDrain' = b
      BY <1>11, <1>10, <2>2
    <3>4. QED
      BY <3>2, <3>3 DEF Due
  <2>3. QED
    BY <1>4, <2>1, <2>2
<1>17. nextToDrain' <= Len(written') /\ (threw' # {} => nextToDrain' < Len(written'))
  <2>1. nextToDrain <= old /\ (threw # {} => nextToDrain < old) /\ b = nextToDrain + new
    BY <1>4 DEF SinkInv
  <2>2. QED
    BY <1>11, <1>7, <2>1
<1>18. ASSUME threw' = {} PROVE written' = UpTo(0, nextToDrain')
  <2>1. threw = {} /\ nextToDrain' = b
    BY <1>11, <1>18
  <2>2. written' = UpTo(0, nextToDrain) \o UpTo(nextToDrain, b)
    BY <2>1 DEF SinkInv, Takes
  <2>3. nextToDrain <= b
    BY <1>7
  <2>4. QED
    BY <1>7, <2>1, <2>2, <2>3, UpToGrows
<1>19. QED
  BY <1>4, <1>6, <1>12, <1>15, <1>16, <1>17, <1>18 DEF SinkInv

----------------------------------------------------------------------------
(* The upload. *)

LEMMA CodesEnd ==
  ASSUME NEW a \in Answers, a # "ok"
  PROVE  /\ Code(a) \in Codes
         /\ Code(a) \notin {"create", "blob", "manifest", "commit"}
  BY DEF Answers, Code, Codes

\* What an answer makes of the request.
LEMMA AnsweredEffect ==
  ASSUME UploadTyped, NEW request \in {"create", "blob", "manifest", "commit"},
         uPc = request, NEW a \in Answers, Answered(request, a)
  PROVE  /\ attempt' \in Nat /\ body' \in Seq(Pieces)
         /\ \/ a = "ok" /\ uPc' = Following[request] /\ body' = body
            \/ a # "ok" /\ uPc' = request /\ request # "blob" /\ body' = <<>>
            \/ a # "ok" /\ uPc' \notin {"create", "blob", "manifest", "commit"} /\ body' = body
<1>1. CASE a = "ok"
  BY <1>1 DEF Answered, UploadTyped
<1>2. CASE a # "ok" /\ Retried(a, attempt, RetriesOf(request))
  <2>1. attempt' = attempt + 1 /\ body' = <<>> /\ uPc' = request
    BY <1>2 DEF Answered, Retried
  <2>2. request # "blob"
    BY <1>2 DEF Retried, RetriesOf, BlobRetries, UploadTyped
  <2>3. attempt' \in Nat /\ body' \in Seq(Pieces)
    BY <2>1 DEF UploadTyped
  <2>4. QED
    BY <1>2, <2>1, <2>2, <2>3
<1>3. CASE a # "ok" /\ ~Retried(a, attempt, RetriesOf(request))
  BY <1>3, CodesEnd DEF Answered, UploadTyped
<1>4. QED
  BY <1>1, <1>2, <1>3

\* A piece is put behind the pieces before it.
LEMMA PieceFollows ==
  ASSUME NEW pieces \in Seq(Pieces), NEW n \in Nat
  PROVE  EndOf(pieces) \in Nat /\ Piece(pieces, n) \in Pieces
<1>1. EndOf(pieces) \in Nat
  <2>1. CASE pieces = <<>>
    BY <2>1 DEF EndOf
  <2>2. CASE pieces # <<>>
    <3>1. pieces[Len(pieces)] \in Pieces
      BY <2>2
    <3>2. QED
      BY <2>2, <3>1, SizesArePositive DEF EndOf, Pieces
  <2>3. QED
    BY <2>1, <2>2
<1>2. QED
  BY <1>1 DEF Piece, Pieces

LEMMA UploadTypedNext ==
  ASSUME UploadTyped, UploadNext PROVE UploadTyped'
<1> USE SizesArePositive, BoundsAreNat
<1>1. CASE Create
  BY <1>1, AnsweredEffect DEF Create, UploadTyped, Answers
<1>2. CASE SealChunk
  <2>1. PICK n \in NextPiece :
           /\ left' = left - n /\ totalPt' = totalPt + n
           /\ sealed' = Append(sealed, Piece(sealed, n)) /\ body' = Append(body, Piece(body, n))
    BY <1>2 DEF SealChunk
  <2>2. left \in Nat /\ left > 0 /\ n \in Nat /\ left - n \in Nat
    BY <1>2, <2>1 DEF SealChunk, NextPiece, UploadTyped
  <2>3. Piece(sealed, n) \in Pieces /\ Piece(body, n) \in Pieces
    BY <2>2, PieceFollows DEF UploadTyped
  <2>4. QED
    BY <1>2, <2>1, <2>2, <2>3 DEF SealChunk, UploadTyped
<1>3. CASE SealFails
  BY <1>3 DEF SealFails, UploadTyped
<1>4. CASE PutBlob
  BY <1>4, AnsweredEffect DEF PutBlob, UploadTyped, Answers
<1>5. CASE SignFails
  BY <1>5 DEF SignFails, UploadTyped
<1>6. CASE PutManifest
  BY <1>6, AnsweredEffect DEF PutManifest, UploadTyped, Answers
<1>7. CASE Commit
  BY <1>7, AnsweredEffect DEF Commit, UploadTyped, Answers
<1>8. CASE UploadAborts
  BY <1>8 DEF UploadAborts, UploadTyped
<1>9. QED
  BY <1>1, <1>2, <1>3, <1>4, <1>5, <1>6, <1>7, <1>8 DEF UploadNext

\* Each request finds the store as the requests before it left it.
LEMMA UploadInvNext ==
  ASSUME UploadTyped, UploadInv, UploadNext PROVE UploadInv'
<1> USE DEF store, Manifest, CommittedIsWhole
<1>1. CASE Create
  <2>1. PICK a \in Answers : Answered("create", a)
    BY <1>1 DEF Create, Answers
  <2>2. UNCHANGED <<store, left, sealed, totalPt>> /\ uPc = "create"
    BY <1>1 DEF Create
  <2>3. body' = <<>> /\ uPc' \notin {"manifest", "commit"}
    BY <2>1, <2>2, AnsweredEffect DEF UploadInv, Following
  <2>4. QED
    BY <2>2, <2>3 DEF UploadInv
<1>2. CASE SealChunk
  BY <1>2 DEF SealChunk, UploadInv
<1>3. CASE SealFails
  BY <1>3 DEF SealFails, UploadInv
<1>4. CASE PutBlob
  <2>1. PICK a \in Answers :
           /\ a = "ok" => left = 0
           /\ Answered("blob", a)
           /\ Effect(a, left = 0 /\ blob' = body /\ UNCHANGED <<stored, committed>>)
    BY <1>4 DEF PutBlob
  <2>2. uPc = "blob" /\ UNCHANGED <<left, sealed, totalPt, stored, committed>>
    BY <1>4, <2>1 DEF PutBlob, Effect
  <2>3. ~committed /\ stored = NoManifest /\ sealed = body
    BY <2>2 DEF UploadInv
  <2>4. \/ uPc' \notin {"create", "blob", "manifest", "commit"}
        \/ uPc' = "manifest" /\ left = 0 /\ blob' = body
    BY <2>1, <2>2, AnsweredEffect DEF Following, Effect
  <2>5. QED
    BY <2>2, <2>3, <2>4 DEF UploadInv
<1>5. CASE SignFails
  BY <1>5 DEF SignFails, UploadInv
<1>6. CASE PutManifest
  <2>1. PICK a \in Answers :
           /\ Answered("manifest", a)
           /\ Effect(a, stored' = Manifest /\ UNCHANGED <<blob, committed>>)
    BY <1>6 DEF PutManifest
  <2>2. uPc = "manifest" /\ UNCHANGED <<left, sealed, totalPt, blob, committed>>
    BY <1>6, <2>1 DEF PutManifest, Effect
  <2>3. ~committed /\ left = 0 /\ blob = sealed
    BY <2>2 DEF UploadInv
  <2>4. stored' = Manifest \/ stored' = stored
    BY <2>1 DEF Effect
  <2>5. \/ uPc' \notin {"create", "blob", "manifest", "commit"}
        \/ uPc' = "manifest"
        \/ uPc' = "commit" /\ stored' = Manifest
    BY <2>1, <2>2, AnsweredEffect DEF Following, Effect
  <2>6. QED
    BY <2>2, <2>3, <2>4, <2>5 DEF UploadInv
<1>7. CASE Commit
  <2>1. PICK a \in Answers :
           /\ Answered("commit", a)
           /\ Effect(a, committed' = TRUE /\ UNCHANGED <<blob, stored>>)
    BY <1>7 DEF Commit
  <2>2. uPc = "commit" /\ UNCHANGED <<left, sealed, totalPt, blob, stored>>
    BY <1>7, <2>1 DEF Commit, Effect
  <2>3. uPc' \notin {"create", "blob", "manifest"}
    BY <2>1, <2>2, AnsweredEffect DEF Following
  <2>4. QED
    BY <2>2, <2>3 DEF UploadInv
<1>8. CASE UploadAborts
  BY <1>8 DEF UploadAborts, UploadInv
<1>9. QED
  BY <1>1, <1>2, <1>3, <1>4, <1>5, <1>6, <1>7, <1>8 DEF UploadNext

\* An upload does nothing to what a download has seen of the object.
LEMMA UploadKeeps ==
  ASSUME IInv, UploadNext, UNCHANGED download PROVE IInv'
<1>1. UploadTyped' /\ UploadInv'
  BY UploadTypedNext, UploadInvNext DEF IInv
<1>2. committed => committed'
  BY DEF UploadNext, Create, SealChunk, SealFails, PutBlob, SignFails, PutManifest, Commit,
         UploadAborts, Effect, store
<1>3. uPc \notin {"create", "blob"} =>
         UNCHANGED <<left, sealed, totalPt>> /\ uPc' \notin {"create", "blob"}
  BY AnsweredEffect
     DEF UploadNext, Create, SealChunk, SealFails, PutBlob, SignFails, PutManifest, Commit,
         UploadAborts, Following, IInv
<1>4. ManifestInv'
  BY <1>3 DEF ManifestInv, Manifest, IInv, download, options
<1>5. VerdictInv'
  BY <1>3 DEF VerdictInv, ManifestInv, IInv, download, drainer, options, Total, Busy
<1>6. Refused' => Untouched'
  BY DEF IInv, Refused, Untouched, download, drainer, pool
<1>7. ~Refused' => DrainInv' /\ PoolInv'
  BY <1>2, SinkStays
     DEF IInv, Refused, DrainInv, PoolInv, Total, Busy, Hashed, download, drainer, pool, options
<1>8. QED
  BY <1>1, <1>4, <1>5, <1>6, <1>7 DEF IInv

----------------------------------------------------------------------------
(* The pool. *)

LEMMA WorkerFields ==
  ASSUME worker \in Workers, NEW i \in Seqs
  PROVE  /\ worker[i].attempt \in Nat /\ worker[i].error \in DownloadCodes \cup {"none"}
         /\ [worker EXCEPT ![i].at = "open"] \in Workers
         /\ [worker EXCEPT ![i].at = "gone"] \in Workers
         /\ [worker EXCEPT ![i].attempt = @ + 1] \in Workers
         /\ \A e \in DownloadCodes \cup {"none"} :
               [worker EXCEPT ![i] = [At("ended") EXCEPT !.error = e]] \in Workers
  BY DEF Workers, At

\* schedule() starts only chunks there are.
LEMMA StartedEffect ==
  ASSUME Total \in Nat, nextSeq \in Int, active \in Int, parallel \in Int,
         NEW ws \in Workers, \A i \in Seqs : ws[i].at \in {"fetch", "open"} => i < Total,
         Started(ws, Total)
  PROVE  /\ worker' \in Workers /\ nextSeq' \in Int /\ active' \in Int
         /\ \A i \in Seqs : worker'[i].at \in {"fetch", "open"} => i < Total
         /\ \A i \in Seqs : worker'[i].at = "open" => ws[i].at = "open"
<1> DEFINE k == IF aborted THEN 0 ELSE Starting(Total)
<1>1. k \in Int /\ k <= (IF aborted THEN 0 ELSE Total - nextSeq)
  BY DEF Starting, Room
<1>2. /\ worker' = [i \in Seqs |-> IF i \in nextSeq .. nextSeq + k - 1 THEN At("fetch") ELSE ws[i]]
      /\ nextSeq' = nextSeq + k /\ active' = active + k
  BY DEF Started
<1> HIDE DEF k
<1>3. At("fetch") \in [at : {"none", "fetch", "open", "ended", "gone"}, attempt : Nat,
                        error : DownloadCodes \cup {"none"}]
      /\ At("fetch").at = "fetch"
  BY DEF At
<1>4. worker' \in Workers
  BY <1>2, <1>3 DEF Workers
<1>5. ASSUME NEW i \in Seqs, i \in nextSeq .. nextSeq + k - 1 PROVE i < Total
  BY <1>1, <1>5 DEF Seqs
<1>6. QED
  BY <1>1, <1>2, <1>3, <1>4, <1>5

\* A worker that ends leaves the pool in order, whatever it starts in its place.
LEMMA EndsEffect ==
  ASSUME Total \in Nat, nextSeq \in Int, active \in Int, parallel \in Int,
         worker \in Workers, \A i \in Seqs : worker[i].at \in {"fetch", "open"} => i < Total,
         NEW j \in Seqs, NEW e \in DownloadCodes \cup {"none"}, Ends(j, e)
  PROVE  /\ worker' \in Workers /\ nextSeq' \in Int /\ active' \in Int
         /\ \A i \in Seqs : worker'[i].at \in {"fetch", "open"} => i < Total
         /\ \A i \in Seqs : worker'[i].at = "open" => worker[i].at = "open"
<1> DEFINE ws == [worker EXCEPT ![j] = [At("ended") EXCEPT !.error = e]]
<1>1. ws \in Workers
  BY WorkerFields
<1>2. \A i \in Seqs : ws[i].at = worker[i].at \/ ws[i].at = "ended"
  BY DEF At, Workers
<1>3. Started(ws, Total)
  BY DEF Ends
<1> HIDE DEF ws
<1>4. \A i \in Seqs : ws[i].at \in {"fetch", "open"} => i < Total
  BY <1>2
<1>5. QED
  BY <1>1, <1>2, <1>3, <1>4, StartedEffect

\* A rejection neither passes for a verdict nor undoes the call.
LEMMA RejectEffect ==
  ASSUME NEW code \in DownloadCodes, Reject(code)
  PROVE  /\ ~Refused => ~Refused'
         /\ result' = "ok" => result = "ok"
         /\ result # "none" => result' # "none"
  BY DEF Reject, DownloadCodes, Codes, Refused

\* What is to be shown of a step of the pool that drains nothing.
LEMMA PoolKeeps ==
  ASSUME IInv, ~Refused, UNCHANGED <<upload, store, options, drainer>>,
         PoolInv', ~Refused', result' = "ok" => result = "ok"
  PROVE  IInv'
<1> USE DEF upload, store, options, drainer
<1>1. UploadTyped' /\ UploadInv'
  BY DEF IInv, UploadTyped, UploadInv, CommittedIsWhole, Manifest
<1>2. DrainInv'
  BY SinkStays DEF IInv, DrainInv, Total, Busy, Hashed
<1>3. ManifestInv'
  BY DEF IInv, ManifestInv, Manifest, Refused
<1>4. VerdictInv'
  BY DEF IInv, VerdictInv, Total, Busy
<1>5. QED
  BY <1>1, <1>2, <1>3, <1>4 DEF IInv

LEMMA FetchKeeps ==
  ASSUME IInv, UNCHANGED upload, NEW i \in Seqs, Fetch(i) PROVE IInv'
<1>1. ~Refused
  BY DEF IInv, Untouched, Fetch, Fetching, At
<1>2. Total \in Nat /\ PoolInv
  BY <1>1 DEF IInv, DrainInv
<1>3. PICK a \in Answers :
         /\ a = RangeAnswer(i, manifest) \/ a \in {"busy", "lost", "missing", "refused"}
         /\ \/ /\ a = "ok" /\ ~RangeIsShort(i, manifest)
               /\ worker' = [worker EXCEPT ![i].at = "open"]
               /\ UNCHANGED <<nextSeq, active, doneP, result>>
            \/ /\ Retried(a, worker[i].attempt, Retries)
               /\ worker' = [worker EXCEPT ![i].attempt = @ + 1]
               /\ UNCHANGED <<nextSeq, active, doneP, result>>
            \/ /\ a = "ok" /\ RangeIsShort(i, manifest)
               /\ Ends(i, "NC_RANGE_SIZE")
               /\ IF aborted THEN Reject("AbortError") ELSE UNCHANGED <<doneP, result>>
            \/ /\ a # "ok" /\ ~Retried(a, worker[i].attempt, Retries)
               /\ Ends(i, Code(a))
               /\ IF aborted THEN Reject("AbortError") ELSE UNCHANGED <<doneP, result>>
  BY Zenon DEF Fetch
<1>4. UNCHANGED <<options, drainer, store, aborted>> /\ worker[i].at = "fetch" /\ Total' = Total
  BY DEF Fetch, Fetching, options, Total
<1>5. a = "ok" => committed
  BY <1>3 DEF RangeAnswer
<1>6. Ends(i, "NC_RANGE_SIZE") \/ (a # "ok" /\ Ends(i, Code(a))) => PoolInv'
  <2>1. a # "ok" => Code(a) \in DownloadCodes
    BY CodesEnd DEF DownloadCodes
  <2>2. "NC_RANGE_SIZE" \in DownloadCodes
    BY DEF DownloadCodes
  <2>3. QED
    BY <1>2, <1>4, <2>1, <2>2, EndsEffect DEF PoolInv, options, drainer, store
<1>7. PoolInv'
  <2>1. CASE worker' = [worker EXCEPT ![i].at = "open"] /\ a = "ok" /\ UNCHANGED <<nextSeq, active>>
    BY <1>2, <1>4, <1>5, <2>1, WorkerFields DEF PoolInv, options, drainer, store, Workers
  <2>2. CASE worker' = [worker EXCEPT ![i].attempt = @ + 1] /\ UNCHANGED <<nextSeq, active>>
    BY <1>2, <1>4, <2>2, WorkerFields DEF PoolInv, options, drainer, store, Workers
  <2>3. QED
    BY <1>3, <1>6, <2>1, <2>2
<1>8. ~Refused' /\ (result' = "ok" => result = "ok")
  BY <1>1, <1>3, RejectEffect DEF DownloadCodes, Codes, Refused
<1>9. QED
  BY <1>1, <1>4, <1>7, <1>8, PoolKeeps

LEMMA FetchBreaksKeeps ==
  ASSUME IInv, UNCHANGED upload, NEW i \in Seqs, FetchBreaks(i) PROVE IInv'
<1>1. ~Refused
  BY DEF IInv, Untouched, FetchBreaks, Fetching, At
<1>2. Total \in Nat /\ PoolInv
  BY <1>1 DEF IInv, DrainInv
<1>3. UNCHANGED <<options, drainer, store>> /\ Total' = Total
  BY DEF FetchBreaks, options, Total
<1>4. PICK e \in {"NC_ABORTED", "TypeError"} : Ends(i, e)
  BY DEF FetchBreaks
<1>5. PoolInv'
  BY <1>2, <1>3, <1>4, EndsEffect DEF PoolInv, options, drainer, store, DownloadCodes, Codes
<1>6. ~Refused' /\ (result' = "ok" => result = "ok")
  BY <1>1, RejectEffect DEF FetchBreaks, DownloadCodes, Codes, Refused
<1>7. QED
  BY <1>1, <1>3, <1>5, <1>6, PoolKeeps

LEMMA OpenFailsKeeps ==
  ASSUME IInv, UNCHANGED upload, NEW i \in Seqs, OpenFails(i) PROVE IInv'
<1>1. ~Refused
  BY DEF IInv, Untouched, OpenFails, At
<1>2. Total \in Nat /\ PoolInv
  BY <1>1 DEF IInv, DrainInv
<1>3. UNCHANGED <<options, drainer, store>> /\ Total' = Total
  BY DEF OpenFails, options, Total
<1>4. Ends(i, "NC_DECRYPT_FAILED")
  BY DEF OpenFails
<1>5. PoolInv'
  BY <1>2, <1>3, <1>4, EndsEffect DEF PoolInv, options, drainer, store, DownloadCodes
<1>6. ~Refused' /\ (result' = "ok" => result = "ok")
  BY <1>1, RejectEffect DEF OpenFails, DownloadCodes, Codes, Refused
<1>7. QED
  BY <1>1, <1>3, <1>5, <1>6, PoolKeeps

LEMMA SettledKeeps ==
  ASSUME IInv, UNCHANGED upload, NEW i \in Seqs, Settled(i) PROVE IInv'
<1>1. ~Refused
  BY DEF IInv, Untouched, Settled, At
<1>2. Total \in Nat /\ PoolInv
  BY <1>1 DEF IInv, DrainInv
<1>3. UNCHANGED <<options, drainer, store, nextSeq>> /\ Total' = Total
  BY DEF Settled, options, Total
<1>4. worker' = [worker EXCEPT ![i].at = "gone"] /\ active' = active - 1
  BY DEF Settled
<1>5. PoolInv'
  BY <1>2, <1>3, <1>4, WorkerFields DEF PoolInv, options, drainer, store, Workers
<1>6. worker[i].error # "none" => worker[i].error \in DownloadCodes
  BY <1>2, WorkerFields DEF PoolInv
<1>7. ~Refused' /\ (result' = "ok" => result = "ok")
  BY <1>1, <1>6, RejectEffect DEF Settled, Refused
<1>8. QED
  BY <1>1, <1>3, <1>5, <1>7, PoolKeeps

LEMMA DrainRejectsKeeps ==
  ASSUME IInv, UNCHANGED upload, DrainRejects PROVE IInv'
<1>1. ~Refused
  BY DEF IInv, Untouched, DrainRejects
<1>2. ~Refused' /\ (result' = "ok" => result = "ok")
  BY <1>1, RejectEffect DEF DrainRejects, DownloadCodes
<1>3. UNCHANGED <<store, options, slots, nextToDrain, draining, hashed, written, threw, pool>>
  BY DEF DrainRejects
<1> USE DEF upload, store, options, pool
<1>4. UploadTyped' /\ UploadInv' /\ ManifestInv'
  BY <1>1, <1>3 DEF IInv, UploadTyped, UploadInv, CommittedIsWhole, Manifest, ManifestInv, Refused
<1>5. DrainInv' /\ PoolInv'
  BY <1>1, <1>3, SinkStays DEF IInv, DrainInv, PoolInv, Total, Busy, Hashed
<1>6. VerdictInv'
  BY <1>2, <1>3 DEF IInv, VerdictInv, Total, Busy
<1>7. QED
  BY <1>2, <1>4, <1>5, <1>6 DEF IInv

----------------------------------------------------------------------------
(* The drain. *)

\* One turn of a drain that waits for nothing.
LEMMA DrainNowKeeps ==
  ASSUME DrainInv, ~Busy, NEW i \in 0 .. Total - 1, DrainNow(slots \cup {i}), UNCHANGED manifest
  PROVE  /\ DrainInv' /\ ~Busy'
         /\ nextToDrain = Total => UNCHANGED <<nextToDrain, written, threw, hashed>>
<1> DEFINE ready == slots \cup {i}
<1>1. PICK k \in nextToDrain .. Total :
         /\ nextToDrain .. k - 1 \subseteq ready
         /\ slots' = ready \ (nextToDrain .. k - 1)
         /\ nextToDrain' = k
         /\ \/ /\ k \notin ready /\ hashed' = hashed \o UpTo(nextToDrain, k)
               /\ Takes(k) /\ UNCHANGED threw
            \/ /\ k \in ready /\ hashed' = hashed \o UpTo(nextToDrain, k + 1)
               /\ (Takes(k) /\ UNCHANGED threw) \/ (Takes(k + 1) /\ Threw)
  BY Zenon DEF DrainNow
<1>2. Total \in Nat /\ nextToDrain \in 0 .. Total /\ Total' = Total /\ ~Busy'
  BY DEF DrainInv, DrainNow, Busy, Total
<1>3. k \in ready => k < Total
  BY <1>2 DEF DrainInv
<1>4. /\ SinkInv' /\ Len(written') \in Nat
      /\ \/ Len(written') = Len(written) + k - nextToDrain
         \/ k \in ready /\ Len(written') = Len(written) + (k + 1) - nextToDrain
  <2>1. k \in Nat /\ k + 1 \in Nat /\ nextToDrain' \in Nat /\ nextToDrain <= k /\ SinkInv
    BY <1>1, <1>2 DEF DrainInv
  <2>2. CASE Takes(k) /\ UNCHANGED threw
    <3>1. SinkInv' /\ Len(written') = Len(written) + k - nextToDrain
      BY <1>1, <2>1, <2>2, SinkGrows
    <3>2. QED
      BY <3>1 DEF SinkInv
  <2>3. CASE k \in ready /\ Takes(k + 1) /\ Threw
    <3>1. nextToDrain <= k + 1 /\ nextToDrain < k + 1 /\ nextToDrain' = (k + 1) - 1
      BY <1>1, <1>2, <2>1
    <3>2. SinkInv' /\ Len(written') = Len(written) + (k + 1) - nextToDrain
      BY <2>1, <2>3, <3>1, SinkGrows
    <3>3. QED
      BY <2>3, <3>2 DEF SinkInv
  <2>4. QED
    BY <1>1, <2>2, <2>3
<1>5. PICK b \in {k, k + 1} : /\ b <= Total /\ hashed' = hashed \o UpTo(nextToDrain, b)
                              /\ k \in ready => b = k + 1
  BY <1>1, <1>2, <1>3
<1>6. /\ hashed' \in Seq(0 .. Total - 1) /\ Len(hashed') = Len(hashed) + b - nextToDrain
      /\ Hashed \subseteq Hashed' /\ nextToDrain .. b - 1 \subseteq Hashed'
  <2>1. nextToDrain \in Nat /\ b \in Nat /\ nextToDrain <= b /\ hashed \in Seq(0 .. Total - 1)
    BY <1>2, <1>5 DEF DrainInv
  <2>2. QED
    BY <1>2, <1>5, <2>1, HashGrows
<1>7. 0 .. k - 1 \subseteq Hashed'
  BY <1>2, <1>5, <1>6 DEF DrainInv
<1>8. DrainInv'
  <2>1. Total' \in Nat /\ nextToDrain' \in 0 .. Total'
    BY <1>1, <1>2
  <2>2. Len(written') <= Len(hashed')
    <3>1. /\ Len(written) <= Len(hashed) /\ Len(written) \in Nat /\ Len(hashed) \in Nat
      BY DEF DrainInv, SinkInv
    <3>2. QED
      BY <1>2, <1>4, <1>5, <1>6, <3>1
  <2>3. slots' \in SUBSET (0 .. Total' - 1)
    BY <1>1, <1>2 DEF DrainInv
  <2>4. hashed' \in Seq(0 .. Total' - 1) /\ 0 .. nextToDrain' - 1 \subseteq Hashed'
    BY <1>1, <1>2, <1>6, <1>7
  <2>5. QED
    BY <1>2, <1>4, <2>1, <2>3, <2>4, <2>2 DEF DrainInv
<1>9. ASSUME nextToDrain = Total PROVE UNCHANGED <<nextToDrain, written, threw, hashed>>
  <2>1. k = Total /\ k \notin ready
    BY <1>2, <1>3, <1>9
  <2>2. UpTo(Total, Total) = <<>>
    BY <1>2 DEF UpTo
  <2>3. hashed' = hashed /\ written' = written
    BY <1>1, <1>9, <2>1, <2>2 DEF DrainInv, SinkInv, Takes
  <2>4. QED
    BY <1>1, <1>9, <2>1, <2>3
<1>10. QED
  BY <1>2, <1>8, <1>9

\* What a drain that awaits its writes does before it awaits the first.
LEMMA DrainLaterKeeps ==
  ASSUME DrainInv, NEW ready \in SUBSET (0 .. Total - 1), slots \subseteq ready,
         NEW owner \in {"worker", "main"}, DrainLater(ready, owner), UNCHANGED manifest
  PROVE  /\ DrainInv' /\ UNCHANGED <<nextToDrain, written, threw>>
         /\ nextToDrain = Total => UNCHANGED <<hashed, draining>>
<1>1. Total' = Total /\ slots' = ready /\ UNCHANGED <<nextToDrain, written, threw>>
  BY DEF DrainLater, Total
<1>2. SinkInv'
  BY <1>1, SinkStays DEF DrainInv
<1>3. CASE ~Busy /\ nextToDrain \in ready
  <2>1. hashed' = Append(hashed, nextToDrain)
    BY <1>3 DEF DrainLater
  <2>2. /\ hashed' \in Seq(0 .. Total - 1) /\ Hashed \subseteq Hashed' /\ nextToDrain \in Hashed'
        /\ Len(hashed') = Len(hashed) + 1
    BY <1>3, <2>1, HashAppends DEF DrainInv
  <2>3. Len(written') < Len(hashed')
    BY <1>1, <2>2 DEF DrainInv, SinkInv
  <2>4. Len(written') <= Len(hashed')
    BY <1>1, <2>2 DEF DrainInv, SinkInv
  <2>5. DrainInv'
    BY <1>1, <1>3, <1>2, <2>2, <2>3, <2>4 DEF DrainInv
  <2>6. QED
    BY <1>1, <1>3, <2>5 DEF DrainInv
<1>4. CASE ~(~Busy /\ nextToDrain \in ready)
  BY <1>1, <1>4, <1>2 DEF DrainLater, DrainInv, Busy, Hashed
<1>5. QED
  BY <1>3, <1>4

\* Keeps what concerns neither pool nor drain.
LEMMA StoreKeeps ==
  ASSUME IInv, ~Refused, UNCHANGED <<upload, store, manifest>>
  PROVE  UploadTyped' /\ UploadInv' /\ ManifestInv' /\ Total' = Total
  BY DEF IInv, UploadTyped, UploadInv, CommittedIsWhole, Manifest, ManifestInv, Refused, upload,
         store, Total

LEMMA OpenKeeps ==
  ASSUME IInv, UNCHANGED upload, NEW i \in Seqs, Open(i) PROVE IInv'
<1>1. ~Refused
  BY DEF IInv, Untouched, Open, At
<1>2. DrainInv /\ PoolInv /\ VerdictInv
  BY <1>1 DEF IInv
<1>3. i \in 0 .. Total - 1 /\ committed
  BY <1>2 DEF Open, PoolInv, Seqs, DrainInv
<1>4. UNCHANGED <<manifest, parallel, store>> /\ Total' = Total
  BY DEF Open, options, Total
<1>5. /\ DrainInv'
      /\ nextToDrain = Total /\ ~Busy => UNCHANGED <<nextToDrain, written, hashed>> /\ ~Busy'
  <2>1. CASE sink = "sync" /\ ~Busy
    BY <1>2, <1>3, <1>4, <2>1, DrainNowKeeps DEF Open
  <2>2. CASE ~(sink = "sync" /\ ~Busy)
    <3>1. DrainLater(slots \cup {i}, "worker")
      BY <2>2 DEF Open
    <3>2. slots \cup {i} \in SUBSET (0 .. Total - 1)
      BY <1>2, <1>3 DEF DrainInv
    <3>3. QED
      BY <1>2, <1>4, <3>1, <3>2, DrainLaterKeeps DEF Busy
  <2>3. QED
    BY <2>1, <2>2
<1>6. Ends(i, "none")
  BY DEF Open
<1>7. PoolInv'
  BY <1>2, <1>3, <1>4, <1>6, EndsEffect DEF PoolInv, DrainInv, store
<1>8. ~Refused' /\ (result' = "ok" => result = "ok")
  BY <1>1, RejectEffect DEF Open, DownloadCodes, Codes, Refused
<1>9. VerdictInv'
  BY <1>2, <1>4, <1>5, <1>8 DEF VerdictInv, upload
<1>10. QED
  BY <1>1, <1>4, <1>5, <1>7, <1>8, <1>9, StoreKeeps DEF IInv

\* A verdict "ok" on a drain at rest: what is hashed without a gap or a repetition
\* is as long as the manifest says, and was made of as many pieces.
LEMMA VerdictKeeps ==
  ASSUME IInv, ~Refused, UNCHANGED <<upload, manifest>>, DrainInv', ~Busy',
         Verdict(slots', nextToDrain', hashed') = "ok"
  PROVE  /\ nextToDrain' = Total' /\ hashed' = written' /\ Len(sealed') = Total'
         /\ written' = UpTo(0, Total')
<1>1. /\ Total' = Total /\ Total \in Nat
      /\ nextToDrain' = Total /\ hashed' = UpTo(0, Len(manifest.digest))
  BY DEF Verdict, Total, IInv, DrainInv
<1>2. manifest.digest = sealed /\ sealed \in Seq(Pieces)
  BY DEF IInv, ManifestInv, Refused, Manifest, MakeManifest, UploadTyped
<1>3. hashed' \in Seq(0 .. Total - 1) /\ 0 .. Total - 1 \subseteq Hashed'
  BY <1>1 DEF DrainInv
<1>4. Len(sealed) = Total
  <2>1. /\ Len(hashed') = Len(sealed)
        /\ \A j \in 1 .. Len(sealed) : hashed'[j] = j - 1
    <3>1. Len(sealed) \in Nat /\ hashed' = UpTo(0, Len(sealed))
      BY <1>1, <1>2
    <3>2. QED
      BY <3>1 DEF UpTo
  <2>2. Len(sealed) <= Total
    <3> SUFFICES ASSUME Len(sealed) > Total PROVE FALSE
      BY <1>1, <1>2
    <3>1. Total + 1 \in 1 .. Len(sealed) /\ hashed'[Total + 1] \in 0 .. Total - 1
      BY <1>1, <1>2, <1>3, <2>1
    <3>2. QED
      BY <1>1, <2>1, <3>1
  <2>3. Total <= Len(sealed)
    <3> SUFFICES ASSUME Len(sealed) < Total PROVE FALSE
      BY <1>1, <1>2
    <3>1. Total - 1 \in Hashed'
      BY <1>1, <1>2, <1>3
    <3>2. PICK j \in 1 .. Len(hashed') : hashed'[j] = Total - 1
      BY <3>1 DEF Hashed
    <3>3. QED
      BY <1>1, <1>2, <2>1, <3>2
  <2>4. QED
    BY <1>1, <1>2, <2>2, <2>3
<1>5. written' = UpTo(0, Total)
  <2>1. Len(hashed') = Total
    BY <1>1, <1>2, <1>4, UpToIs
  <2>2. SinkInv' /\ Len(written') <= Total
    BY <2>1 DEF DrainInv
  <2>3. threw' = {} /\ nextToDrain' = Total
    BY <1>1, <2>2 DEF SinkInv
  <2>4. QED
    BY <2>2, <2>3 DEF SinkInv
<1>6. QED
  BY <1>1, <1>2, <1>4, <1>5 DEF upload

LEMMA FinishKeeps ==
  ASSUME IInv, UNCHANGED upload, Finish PROVE IInv'
<1>1. ~Refused /\ result # "ok"
  BY DEF Finish, Pending, Refused
<1>2. DrainInv /\ PoolInv
  BY <1>1 DEF IInv
<1>3. UNCHANGED <<manifest, parallel, pool, store>> /\ Total' = Total
  BY DEF Finish, options, Total
<1>4. CASE ~Busy /\ nextToDrain \in slots
  <2>1. DrainLater(slots, "main") /\ result' = result
    BY <1>4 DEF Finish
  <2>2. DrainInv' /\ UNCHANGED <<slots, nextToDrain>>
    BY <1>2, <1>3, <2>1, DrainLaterKeeps DEF DrainInv, DrainLater
  <2>3. PoolInv'
    BY <1>2, <1>3, <2>2 DEF PoolInv, pool, store
  <2>4. QED
    BY <1>1, <1>3, <2>1, <2>2, <2>3, StoreKeeps DEF IInv, Refused, VerdictInv
<1>5. CASE ~(~Busy /\ nextToDrain \in slots)
  <2>1. result' = Verdict(slots, nextToDrain, hashed) /\ UNCHANGED drainer
    BY <1>5 DEF Finish
  <2>2. DrainInv' /\ PoolInv'
    BY <1>2, <1>3, <2>1, SinkStays DEF DrainInv, PoolInv, drainer, pool, store, Busy, Hashed
  <2>3. ~Refused'
    BY <2>1 DEF Verdict, Refused
  <2>4. VerdictInv'
    <3> SUFFICES ASSUME result' = "ok"
                 PROVE  /\ nextToDrain' = Total' /\ ~Busy'
                        /\ hashed' = written' /\ Len(sealed') = Total'
                        /\ written' = UpTo(0, Total')
      BY DEF VerdictInv
    <3>1. slots = {}
      BY <2>1 DEF Verdict
    <3>2. ~Busy'
      BY <1>2, <2>1, <3>1 DEF DrainInv, drainer, Busy
    <3>3. Verdict(slots', nextToDrain', hashed') = "ok"
      BY <1>3, <2>1 DEF Verdict, drainer
    <3>4. QED
      BY <1>1, <1>3, <2>2, <3>2, <3>3, VerdictKeeps
  <2>5. QED
    BY <1>1, <1>3, <2>2, <2>3, <2>4, StoreKeeps DEF IInv
<1>6. QED
  BY <1>4, <1>5

LEMMA WriteDoneKeeps ==
  ASSUME IInv, UNCHANGED upload, WriteDone PROVE IInv'
<1>1. ~Refused /\ Busy
  BY DEF IInv, Untouched, WriteDone, Busy
<1>2. DrainInv /\ PoolInv /\ VerdictInv
  BY <1>1 DEF IInv
<1>3. UNCHANGED <<manifest, parallel, pool, store>> /\ Total' = Total
  BY DEF WriteDone, options, Total
<1>4. /\ nextToDrain \in slots /\ nextToDrain \in Nat /\ nextToDrain < Total /\ Total \in Nat
      /\ nextToDrain \in Hashed /\ result # "ok"
  BY <1>1, <1>2 DEF DrainInv, VerdictInv
<1> DEFINE next == nextToDrain + 1
           goesOn == next \in slots
<1>5. /\ written' = Append(written, nextToDrain) /\ slots' = slots \ {nextToDrain}
      /\ nextToDrain' = next
      /\ hashed' = (IF goesOn THEN Append(hashed, next) ELSE hashed)
      /\ draining' = (IF goesOn THEN draining ELSE "no")
      /\ result' = (IF draining = "main" /\ ~goesOn
                      THEN Verdict(slots', next, hashed') ELSE result)
  BY Zenon DEF WriteDone
<1>6. SinkInv' /\ Len(written') = Len(written) + 1
  <2>1. Takes(next)
    <3>1. UpTo(nextToDrain, next) = <<nextToDrain>>
      BY <1>4, OneUpTo
    <3>2. written \in Seq(Nat) /\ written' = Append(written, nextToDrain)
      BY <1>2, <1>5 DEF DrainInv, SinkInv
    <3>3. written \o <<nextToDrain>> = Append(written, nextToDrain)
      BY <1>4, <3>2
    <3>4. QED
      BY <3>1, <3>2, <3>3 DEF Takes
  <2>2. next \in Nat /\ nextToDrain <= next /\ next - nextToDrain = 1
    BY <1>4
  <2>3. SinkInv' /\ Len(written') = Len(written) + next - nextToDrain
    BY <1>2, <1>5, <2>1, <2>2, SinkGrows DEF DrainInv, WriteDone
  <2>4. Len(written) \in Nat
    BY <1>2 DEF DrainInv, SinkInv
  <2>5. QED
    BY <1>4, <2>3, <2>4
<1>7. /\ hashed' \in Seq(0 .. Total - 1) /\ Hashed \subseteq Hashed'
      /\ Len(hashed') = (IF goesOn THEN Len(hashed) + 1 ELSE Len(hashed))
      /\ goesOn => next \in Hashed'
  <2>1. CASE goesOn
    <3>1. next \in 0 .. Total - 1
      BY <1>2, <1>4, <2>1 DEF DrainInv
    <3>2. QED
      BY <1>2, <1>4, <1>5, <2>1, <3>1, HashAppends DEF DrainInv
  <2>2. CASE ~goesOn
    BY <1>2, <1>5, <2>2 DEF DrainInv, Hashed
  <2>3. QED
    BY <2>1, <2>2
<1>8. Busy' <=> goesOn
  BY <1>1, <1>5 DEF Busy
<1>9. DrainInv'
  <2>1. Total' \in Nat /\ nextToDrain' \in 0 .. Total' /\ SinkInv'
    BY <1>3, <1>4, <1>5, <1>6
  <2>2. Len(written') <= Len(hashed') /\ (Busy' => Len(written') < Len(hashed'))
    <3>1. Len(written) < Len(hashed) /\ Len(written) \in Nat /\ Len(hashed) \in Nat
      BY <1>1, <1>2 DEF DrainInv, SinkInv
    <3>2. QED
      BY <1>6, <1>7, <1>8, <3>1
  <2>3. slots' \in SUBSET (0 .. Total' - 1)
    BY <1>2, <1>3, <1>5 DEF DrainInv
  <2>4. hashed' \in Seq(0 .. Total' - 1) /\ 0 .. nextToDrain' - 1 \subseteq Hashed'
    BY <1>2, <1>3, <1>4, <1>5, <1>7 DEF DrainInv
  <2>5. Busy' => nextToDrain' \in slots' /\ nextToDrain' \in Hashed'
    BY <1>4, <1>5, <1>7, <1>8
  <2>6. QED
    BY <2>1, <2>3, <2>4, <2>5, <2>2 DEF DrainInv
<1>10. PoolInv'
  BY <1>2, <1>3, <1>4, <1>5 DEF PoolInv, pool, store
<1>11. ~Refused'
  BY <1>1, <1>5 DEF Verdict, Refused
<1>12. VerdictInv'
  <2> SUFFICES ASSUME result' = "ok"
               PROVE  /\ nextToDrain' = Total' /\ ~Busy'
                      /\ hashed' = written' /\ Len(sealed') = Total'
                      /\ written' = UpTo(0, Total')
    BY DEF VerdictInv
  <2>1. ~goesOn /\ Verdict(slots', nextToDrain', hashed') = "ok"
    <3>1. draining = "main" /\ ~goesOn
      BY <1>4, <1>5
    <3>2. Verdict(slots', next, hashed') = "ok"
      BY <1>5, <3>1
    <3>3. QED
      BY <1>5, <3>1, <3>2
  <2>2. QED
    BY <1>1, <1>3, <1>8, <1>9, <2>1, VerdictKeeps
<1>13. QED
  BY <1>1, <1>3, <1>9, <1>10, <1>11, <1>12, StoreKeeps DEF IInv

\* A drain that ends in failure leaves its chunk hashed and in its slot, whether the
\* sink has taken it or not.
LEMMA DrainFailsKeeps ==
  ASSUME IInv, UNCHANGED upload, DrainFails, UNCHANGED <<slots, nextToDrain>>,
         SinkInv => SinkInv' /\ Len(written') \in {Len(written), Len(written) + 1}
  PROVE  IInv'
<1>1. ~Refused /\ Busy
  BY DEF IInv, Untouched, DrainFails, Busy
<1>2. DrainInv /\ PoolInv /\ result # "ok"
  BY <1>1 DEF IInv, VerdictInv
<1>3. /\ UNCHANGED <<manifest, parallel, pool, store, slots, nextToDrain, hashed>>
      /\ ~Busy' /\ Total' = Total
  BY DEF DrainFails, options, Total, Busy
<1>4. ~Refused' /\ result' # "ok"
  BY <1>1, <1>2 DEF DrainFails, Refused
<1>5. SinkInv' /\ Len(written') <= Len(hashed')
  <2>1. /\ SinkInv /\ Len(written) < Len(hashed) /\ Len(written) \in Nat /\ Len(hashed) \in Nat
    BY <1>1, <1>2 DEF DrainInv, SinkInv
  <2>2. QED
    BY <1>3, <2>1
<1>6. DrainInv' /\ PoolInv'
  BY <1>2, <1>3, <1>5 DEF DrainInv, PoolInv, Hashed, pool, store
<1>7. QED
  BY <1>1, <1>3, <1>4, <1>6, StoreKeeps DEF IInv, VerdictInv

LEMMA WriteFailsKeeps ==
  ASSUME IInv, UNCHANGED upload, WriteFails PROVE IInv'
BY DrainFailsKeeps, SinkStays DEF WriteFails

LEMMA ProgressThrowsKeeps ==
  ASSUME IInv, UNCHANGED upload, ProgressThrows PROVE IInv'
<1>1. UNCHANGED <<slots, nextToDrain>> /\ Takes(nextToDrain + 1) /\ Threw /\ DrainFails
  BY DEF ProgressThrows
<1>2. ASSUME SinkInv PROVE SinkInv' /\ Len(written') = Len(written) + 1
  <2> DEFINE next == nextToDrain + 1
  <2>1. nextToDrain \in Nat /\ Len(written) \in Nat
    BY <1>2, DueIsNat DEF SinkInv
  <2>2. /\ next \in Nat /\ nextToDrain <= next /\ nextToDrain < next
        /\ nextToDrain' \in Nat /\ nextToDrain' = next - 1
    BY <1>1, <2>1
  <2>3. SinkInv' /\ Len(written') = Len(written) + next - nextToDrain
    BY <1>1, <1>2, <2>2, SinkGrows
  <2>4. QED
    BY <2>1, <2>3
<1>3. QED
  BY <1>1, <1>2, DrainFailsKeeps

LEMMA AbortKeeps ==
  ASSUME IInv, UNCHANGED upload, Abort PROVE IInv'
<1>1. ~Refused
  BY DEF Abort, Pending, Refused
<1>2. UNCHANGED <<options, store, drainer, pool, result>>
  BY DEF Abort
<1>3. PoolInv' /\ ~Refused'
  BY <1>1, <1>2 DEF IInv, PoolInv, Refused, Total, options, store, drainer, pool
<1>4. QED
  BY <1>1, <1>2, <1>3, PoolKeeps

----------------------------------------------------------------------------
(* The call. *)

LEMMA DownloadKeeps ==
  ASSUME IInv, UNCHANGED upload, Download PROVE IInv'
<1>1. Untouched /\ result = "none" /\ stored # NoManifest
  BY DEF IInv, Refused, Download
<1>2. left = 0 /\ stored = Manifest /\ uPc \notin {"create", "blob"}
  BY <1>1 DEF IInv, UploadInv
<1>3. UNCHANGED <<drainer, store>> /\ manifest' = stored /\ parallel' \in Nat
  BY ParallelsArePositive DEF Download
<1>4. UploadTyped' /\ UploadInv'
  BY <1>3 DEF IInv, UploadTyped, UploadInv, CommittedIsWhole, Manifest, upload, store
<1>5. ManifestInv'
  BY <1>2, <1>3 DEF ManifestInv, Manifest, upload
<1>6. CASE ValidManifest(stored)
  <2> DEFINE m == stored.totalChunks
             k == IF parallel' < m THEN parallel' ELSE m
  <2>1. m \in Nat /\ k \in 0 .. m
    BY <1>3, <1>6 DEF ValidManifest
  <2>2. /\ result' = "pending" /\ nextSeq' = k /\ active' = k
        /\ worker' = [i \in Seqs |-> IF i < k THEN At("fetch") ELSE worker[i]]
    BY <1>6 DEF Download
  <2>3. Total' = m
    BY <1>3 DEF Total
  <2>4. DrainInv'
    <3>1. slots' = {} /\ nextToDrain' = 0 /\ ~Busy' /\ hashed' = <<>> /\ written' = <<>>
      BY <1>1, <1>3 DEF Untouched, drainer, Busy
    <3>2. UpTo(0, 0) = <<>>
      BY DEF UpTo
    <3>3. SinkInv'
      <4>1. threw' = {} /\ written' = <<>> /\ nextToDrain' = 0
        BY <1>1, <1>3 DEF Untouched, drainer
      <4>2. QED
        BY <3>2, <4>1 DEF SinkInv, SinkInOrder, Due
    <3>4. QED
      BY <2>1, <2>3, <3>1, <3>3 DEF DrainInv
  <2>5. PoolInv'
    <3> HIDE DEF k, m
    <3>1. \A i \in Seqs : worker[i] = At("none")
      BY <1>1 DEF Untouched
    <3>2. \A where \in {"none", "fetch"} : At(where) \in
             [at : {"none", "fetch", "open", "ended", "gone"}, attempt : Nat,
              error : DownloadCodes \cup {"none"}] /\ At(where).at = where
      BY DEF At
    <3>3. worker' = [i \in Seqs |-> IF i < k THEN At("fetch") ELSE At("none")]
      BY <2>2, <3>1
    <3>4. worker' \in Workers
      BY <3>2, <3>3 DEF Workers
    <3>5. \A i \in Seqs :
             worker'[i].at \in {"fetch", "none"} /\ (worker'[i].at = "fetch" => i < k)
      BY <3>2, <3>3
    <3>6. slots' = {} /\ nextToDrain' = 0
      BY <1>1, <1>3 DEF Untouched, drainer
    <3>7. \A i \in Seqs : i < k => i < m
      BY <2>1 DEF Seqs
    <3>8. nextSeq' \in Int /\ active' \in Int /\ parallel' \in Int
      BY <1>3, <2>1, <2>2
    <3>9. ASSUME NEW i \in Seqs
          PROVE  worker'[i].at # "open" /\ (worker'[i].at = "fetch" => i < Total')
      BY <2>3, <3>5, <3>7
    <3>10. ~(slots' # {} \/ nextToDrain' > 0)
      BY <3>6
    <3>11. QED
      BY <3>4, <3>8, <3>9, <3>10, Zenon DEF PoolInv
  <2>6. QED
    BY <1>4, <1>5, <2>2, <2>4, <2>5 DEF IInv, Refused, VerdictInv
<1>7. CASE ~ValidManifest(stored)
  <2>1. result' = "NC_BAD_MANIFEST" /\ UNCHANGED <<pool, doneP>>
    BY <1>7 DEF Download
  <2>2. Untouched'
    BY <1>1, <1>3, <2>1 DEF Untouched, drainer, pool
  <2>3. QED
    BY <1>4, <1>5, <2>1, <2>2 DEF IInv, Refused, VerdictInv
<1>8. QED
  BY <1>6, <1>7

----------------------------------------------------------------------------

\* The inductive invariant of an upload and a download of one object.
THEOREM CacheInvariant == Spec => []IInv
<1>1. Init => IInv
  <2> SUFFICES ASSUME Init PROVE IInv
    OBVIOUS
  <2>1. UploadTyped /\ UploadInv
    BY SourcesAreKnown
       DEF Init, UploadInit, StoreInit, UploadTyped, UploadInv, CommittedIsWhole
  <2>2. Untouched /\ result = "none"
    BY DEF Init, DownloadInit, Untouched
  <2>3. QED
    BY <2>1, <2>2 DEF IInv, Refused, ManifestInv, VerdictInv
<1>2. IInv /\ [Next]_vars => IInv'
  <2> SUFFICES ASSUME IInv, [Next]_vars PROVE IInv'
    OBVIOUS
  <2>1. CASE UploadNext /\ UNCHANGED download
    BY <2>1, UploadKeeps
  <2>2. CASE DownloadNext /\ UNCHANGED upload
    BY <2>2, FetchKeeps, FetchBreaksKeeps, OpenKeeps, OpenFailsKeeps, SettledKeeps,
       DrainRejectsKeeps, FinishKeeps, WriteDoneKeeps, WriteFailsKeeps, ProgressThrowsKeeps,
       AbortKeeps, DownloadKeeps
       DEF DownloadNext, Working
  <2>3. CASE UNCHANGED vars
    <3>1. UNCHANGED <<store, upload, options, drainer, pool, result>>
      BY <2>3 DEF vars, download
    <3>2. CASE Refused
      <4>1. UploadTyped' /\ UploadInv' /\ ManifestInv'
        BY <3>1 DEF IInv, UploadTyped, UploadInv, CommittedIsWhole, Manifest, ManifestInv, store,
                    upload, options
      <4>2. Untouched'
        BY <2>3, <3>2 DEF IInv, Untouched, vars, download, drainer, pool
      <4>3. Refused' /\ result' # "ok"
        BY <3>1, <3>2 DEF Refused
      <4>4. QED
        BY <4>1, <4>2, <4>3 DEF IInv, VerdictInv
    <3>3. CASE ~Refused
      <4>1. PoolInv' /\ ~Refused' /\ (result' = "ok" => result = "ok")
        BY <3>1, <3>3 DEF IInv, PoolInv, Refused, Total, store, options, drainer, pool
      <4>2. QED
        BY <3>1, <3>3, <4>1, PoolKeeps
    <3>4. QED
      BY <3>2, <3>3
  <2>4. QED
    BY <2>1, <2>2, <2>3 DEF Next
<1>3. QED
  BY <1>1, <1>2, PTL DEF Spec

\* What is committed is the source, all of it, whatever was retried, lost or refused
\* while uploadCiphertext made its four requests.
THEOREM CommitIsWhole == Spec => []CommittedIsWhole
<1>1. IInv => CommittedIsWhole
  BY DEF IInv, UploadInv
<1>2. QED
  BY <1>1, CacheInvariant, PTL

\* The sink of downloadAndDecrypt takes the object from its beginning, without a gap, and
\* a chunk again only when onProgress threw behind its write, in whatever order the
\* workers finish, write by write or promise by promise.
THEOREM WritesInOrder == Spec => []SinkInOrder
<1>1. IInv => SinkInOrder
  <2> SUFFICES ASSUME IInv PROVE SinkInOrder
    OBVIOUS
  <2>1. CASE Refused
    BY <2>1 DEF IInv, Untouched, SinkInOrder
  <2>2. CASE ~Refused
    BY <2>2 DEF IInv, DrainInv, SinkInv
  <2>3. QED
    BY <2>1, <2>2
<1>2. QED
  BY <1>1, CacheInvariant, PTL

\* downloadAndDecrypt returns "verified" only when every piece of a committed object
\* was written and hashed once.
THEOREM VerifiedMeansWhole == Spec => []VerifiedIsWhole
<1>1. IInv => VerifiedIsWhole
  <2> SUFFICES ASSUME IInv, result = "ok"
               PROVE  /\ committed \/ Total = 0
                      /\ written = UpTo(0, Len(sealed)) /\ hashed = written
    BY DEF VerifiedIsWhole
  <2>1. DrainInv /\ PoolInv /\ VerdictInv
    BY DEF IInv, Refused
  <2>2. QED
    BY <2>1 DEF DrainInv, PoolInv, VerdictInv
<1>2. QED
  BY <1>1, CacheInvariant, PTL

----------------------------------------------------------------------------
(* The workers counted, and the chunks where the uploader cut them: a second *)
(* invariant, on top of the first.                                           *)

\* What was read of the source and what is left of it are the source.
SizeInv == totalPt + left \in Sizes

\* toAsyncIter cuts a Uint8Array into full chunks, and a last one.
CutInv ==
    source = "bytes" =>
        /\ \A j \in 1 .. Len(sealed) : sealed[j].at = CtOffset(j - 1)
        /\ \A j \in 1 .. Len(sealed) :
              /\ sealed[j].bytes \in 1 .. ChunkBytes
              /\ j < Len(sealed) \/ left > 0 => sealed[j].bytes = ChunkBytes
        /\ totalPt = IF sealed = <<>> THEN 0
                     ELSE (Len(sealed) - 1) * ChunkBytes + sealed[Len(sealed)].bytes

\* Every request and every promise ends in one of the ways there are.
EndsInv ==
    /\ uPc \in {"create", "blob", "manifest", "commit"} \cup UploadCodes
    /\ attempt \in 0 .. Retries
    /\ committed \in BOOLEAN /\ faults \in 0 .. MaxFaults
    /\ draining \in {"no", "worker", "main"}
    /\ doneP \in {"pending", "resolved"} \cup DownloadCodes
    /\ result \in {"none", "pending", "ok", "NC_BAD_MANIFEST", "NC_INTERNAL_ORDER",
                   "NC_HASH_MISMATCH"} \cup DownloadCodes

\* Workers that count as active, of those given.
Living(ws) == {i \in Seqs : ws[i].at \in {"fetch", "open", "ended"}}

\* active is the number of workers whose promise has not settled, never more than
\* the option parallel, and chunks are started in order, each once.
PoolCount ==
    /\ parallel \in Nat /\ nextSeq \in Nat
    /\ active = Cardinality(Living(worker)) /\ active <= parallel
    /\ \A i \in Seqs : i < nextSeq <=> worker[i].at # "none"
    /\ \A i \in Seqs : worker[i].attempt \in 0 .. Retries

CountInv ==
    /\ PoolCount
    /\ Refused => nextSeq = 0
    /\ ~Refused => nextSeq <= Total
    /\ doneP = "resolved" => active = 0 /\ nextSeq = Total

\* Nothing has disturbed an object cut by its uploader, nor the sink that takes it.
Calm == faults = 0 /\ source = "bytes" /\ sink = "sync"

\* Where a chunk may be: not written or kept before it ended well, and after that
\* written or waiting for one before it.  Only one that is not committed failed.
ChunkInv(i) ==
    /\ worker[i].error \in {"none", "NC_NOT_COMMITTED"}
    /\ worker[i].at \in {"none", "fetch", "open"} =>
          i >= nextToDrain /\ i \notin slots /\ worker[i].error = "none"
    /\ worker[i].at \in {"ended", "gone"} /\ worker[i].error = "none" =>
          i < nextToDrain \/ i \in slots
    /\ worker[i].at = "gone" /\ worker[i].error # "none" => doneP = "NC_NOT_COMMITTED"

QuietInv ==
    /\ ~aborted /\ ~failing /\ ~Busy
    /\ result \in {"none", "pending", "ok", "NC_NOT_COMMITTED"}
    /\ doneP \in {"pending", "resolved", "NC_NOT_COMMITTED"}
    /\ \A i \in Seqs : ChunkInv(i)
    /\ \A i \in slots : i > nextToDrain
    /\ hashed = UpTo(0, nextToDrain)

CalmInv ==
    /\ source = "bytes" => result # "NC_BAD_MANIFEST"
    /\ Refused => ~aborted
    /\ Calm => QuietInv

PoolHolds == SizeInv /\ CutInv /\ EndsInv /\ CountInv /\ CalmInv

\* Where the chunks of a manifest begin in the blob.
LEMMA OffsetsGrow ==
  /\ \A i \in Nat : CtOffset(i) \in Nat /\ CtOffset(i + 1) = CtOffset(i) + ChunkBytes + TagBytes
  /\ \A i, j \in Nat : i <= j => CtOffset(i) <= CtOffset(j)
<1> DEFINE W == ChunkBytes + TagBytes
<1>1. W \in Nat
  BY SizesArePositive
<1>2. \A i : CtOffset(i) = i * W
  BY DEF CtOffset
<1> HIDE DEF W
<1>3. \A i \in Nat : i * W \in Nat /\ (i + 1) * W = i * W + W
  BY <1>1
<1>4. \A i, j \in Nat : i <= j => i * W <= j * W
  <2> SUFFICES ASSUME NEW i \in Nat, NEW j \in Nat, i <= j PROVE i * W <= j * W
    OBVIOUS
  <2>1. (j - i) * W \in Nat
    BY <1>1
  <2>2. j * W = i * W + (j - i) * W
    BY <1>1
  <2>3. QED
    BY <1>1, <1>3, <2>1, <2>2
<1>5. \A i \in Nat : CtOffset(i) \in Nat /\ CtOffset(i + 1) = CtOffset(i) + W
  BY <1>2, <1>3
<1>6. \A i, j \in Nat : i <= j => CtOffset(i) <= CtOffset(j)
  BY <1>2, <1>4
<1>7. \A i \in Nat : CtOffset(i) + W = CtOffset(i) + ChunkBytes + TagBytes
  BY <1>5, SizesArePositive DEF W
<1>8. QED
  BY <1>5, <1>6, <1>7

\* k full chunks and a last one are k + 1 chunks.
LEMMA ChunksCounted ==
  /\ \A n \in Nat : Chunks(n) \in Nat
  /\ Chunks(0) = 0
  /\ \A k \in Nat, b \in 1 .. ChunkBytes : Chunks(k * ChunkBytes + b) = k + 1
<1> DEFINE C == ChunkBytes
<1>1. C \in Nat /\ C > 0
  BY SizesArePositive
<1>2. \A n : Chunks(n) = (n + C - 1) \div C
  BY DEF Chunks
<1> HIDE DEF C
<1>3. \A n \in Nat : (n + C - 1) \div C \in Nat
  BY <1>1
<1>4. (0 + C - 1) \div C = 0
  BY <1>1
<1>5. ASSUME NEW k \in Nat, NEW b \in 1 .. C PROVE (k * C + b + C - 1) \div C = k + 1
  <2>1. k * C \in Nat
    BY <1>1
  <2>2. k * C + b + C - 1 = (k + 1) * C + (b - 1) /\ b - 1 \in 0 .. C - 1
    BY <1>1
  <2>3. \A q \in Nat, r \in 0 .. C - 1 : (q * C + r) \div C = q
    BY <1>1
  <2>4. QED
    BY <1>1, <2>1, <2>2, <2>3
<1>6. QED
  BY <1>2, <1>3, <1>4, <1>5 DEF C

\* Each piece is cut behind the one before, and what was read stays counted.
LEMMA CutNext ==
  ASSUME UploadTyped, SizeInv, CutInv, UploadNext PROVE SizeInv' /\ CutInv'
<1>1. CASE SealChunk
  <2>1. PICK n \in NextPiece :
           /\ left' = left - n /\ totalPt' = totalPt + n
           /\ sealed' = Append(sealed, Piece(sealed, n))
    BY <1>1 DEF SealChunk
  <2>2. left \in Nat /\ left > 0 /\ n \in Nat /\ totalPt \in Nat /\ source' = source
        /\ sealed \in Seq(Pieces)
    BY <1>1, <2>1, SizesArePositive DEF SealChunk, NextPiece, UploadTyped
  <2>3. SizeInv'
    BY <2>1, <2>2 DEF SizeInv
  <2>4. ASSUME source = "bytes" PROVE CutInv'
    <3> DEFINE k == Len(sealed)
               p == Piece(sealed, n)
    <3>1. n \in 1 .. ChunkBytes /\ (left' > 0 => n = ChunkBytes)
      BY <2>1, <2>2, <2>4, SizesArePositive DEF NextPiece
    <3>2. k \in Nat /\ (sealed = <<>> <=> k = 0)
          /\ \A j \in 1 .. k : sealed[j] \in Pieces /\ sealed[j].bytes = ChunkBytes
      BY <2>2, <2>4 DEF CutInv
    <3>3. EndOf(sealed) = CtOffset(k)
      <4>1. CASE k = 0
        BY <3>2, <4>1, SizesArePositive DEF EndOf, CtOffset
      <4>2. CASE k # 0
        <5>1. k - 1 \in Nat /\ (k - 1) + 1 = k /\ k \in 1 .. k
          BY <3>2, <4>2
        <5>2. sealed[k].at = CtOffset(k - 1) /\ sealed[k].bytes = ChunkBytes
          BY <2>4, <3>2, <5>1 DEF CutInv
        <5>3. EndOf(sealed) = CtOffset(k - 1) + ChunkBytes + TagBytes
          BY <3>2, <4>2, <5>2 DEF EndOf
        <5>4. QED
          BY <5>1, <5>3, OffsetsGrow
      <4>3. QED
        BY <4>1, <4>2
    <3>4. totalPt = k * ChunkBytes
      <4>1. CASE k = 0
        BY <2>4, <3>2, <4>1, SizesArePositive DEF CutInv
      <4>2. CASE k # 0
        <5>1. totalPt = (k - 1) * ChunkBytes + ChunkBytes
          BY <2>4, <3>2, <4>2 DEF CutInv
        <5>2. QED
          BY <3>2, <5>1, SizesArePositive
      <4>3. QED
        BY <4>1, <4>2
    <3>5. p.at = CtOffset(k) /\ p.bytes = n
      BY <3>3 DEF Piece
    <3> HIDE DEF p
    <3>6. /\ Len(sealed') = k + 1 /\ sealed' # <<>> /\ sealed'[k + 1] = p
          /\ \A j \in 1 .. k : sealed'[j] = sealed[j]
      BY <2>1, <2>2 DEF p
    <3>7. ASSUME NEW j \in 1 .. k + 1
          PROVE  /\ sealed'[j].at = CtOffset(j - 1)
                 /\ sealed'[j].bytes \in 1 .. ChunkBytes
                 /\ j < k + 1 \/ left' > 0 => sealed'[j].bytes = ChunkBytes
      <4>1. CASE j = k + 1
        BY <3>1, <3>2, <3>5, <3>6, <4>1
      <4>2. CASE j # k + 1
        <5>1. j \in 1 .. k
          BY <3>2, <4>2
        <5>2. sealed[j].at = CtOffset(j - 1) /\ sealed[j].bytes = ChunkBytes
          BY <2>4, <3>2, <5>1 DEF CutInv
        <5>3. QED
          BY <3>6, <5>1, <5>2, SizesArePositive
      <4>3. QED
        BY <4>1, <4>2
    <3>8. totalPt' = (k + 1 - 1) * ChunkBytes + sealed'[k + 1].bytes
      <4>1. totalPt' = k * ChunkBytes + n /\ k + 1 - 1 = k
        BY <2>1, <3>2, <3>4
      <4>2. QED
        BY <3>5, <3>6, <4>1
    <3>9. QED
      BY <3>6, <3>7, <3>8 DEF CutInv
  <2>5. QED
    BY <2>2, <2>3, <2>4 DEF CutInv
<1>2. CASE ~SealChunk
  <2>1. UNCHANGED <<source, left, sealed, totalPt>>
    BY <1>2 DEF UploadNext, Create, SealFails, PutBlob, SignFails, PutManifest, Commit,
                UploadAborts
  <2>2. QED
    BY <2>1 DEF SizeInv, CutInv
<1>3. QED
  BY <1>1, <1>2

\* What the manifest of a source cut into chunks says of it.
LEMMA ManifestOfChunks ==
  ASSUME UploadTyped, CutInv, source = "bytes", left = 0
  PROVE  /\ ValidManifest(Manifest) /\ Manifest.totalChunks = Len(sealed)
         /\ \A i \in 0 .. Len(sealed) - 1 :
               sealed[i + 1] = [at |-> CtOffset(i), bytes |-> PtLen(i, Manifest)]
         /\ sealed # <<>> => EndOf(sealed) = CtOffset(Len(sealed) - 1)
                                              + PtLen(Len(sealed) - 1, Manifest) + TagBytes
<1> DEFINE n == Len(sealed)
<1>1. n \in Nat /\ (sealed = <<>> <=> n = 0) /\ totalPt \in Nat /\ sealed \in Seq(Pieces)
  BY DEF UploadTyped
<1>2. Manifest.totalChunks = Chunks(totalPt) /\ Manifest.totalBytes = totalPt
      /\ Manifest.last = IF totalPt = 0 THEN 0
                         ELSE totalPt - (Chunks(totalPt) - 1) * ChunkBytes
  BY DEF Manifest, MakeManifest
<1>3. CASE n = 0
  <2>1. totalPt = 0 /\ Chunks(totalPt) = 0
    BY <1>1, <1>3, ChunksCounted DEF CutInv
  <2>2. QED
    BY <1>1, <1>2, <1>3, <2>1 DEF ValidManifest
<1>4. CASE n # 0
  <2> DEFINE b == sealed[n].bytes
  <2>1. n \in 1 .. n /\ n - 1 \in Nat
    BY <1>1, <1>4
  <2>2. b \in 1 .. ChunkBytes /\ totalPt = (n - 1) * ChunkBytes + b
    BY <1>1, <1>4, <2>1 DEF CutInv
  <2>3. Chunks(totalPt) = n
    <3>1. Chunks((n - 1) * ChunkBytes + b) = n - 1 + 1
      BY <2>1, <2>2, ChunksCounted
    <3>2. QED
      BY <1>1, <2>2, <3>1
  <2> DEFINE full == (n - 1) * ChunkBytes
  <2>4. full \in Nat
    BY <2>1, SizesArePositive
  <2>5. totalPt = full + b /\ Manifest.last = IF totalPt = 0 THEN 0 ELSE totalPt - full
    BY <1>2, <2>2, <2>3
  <2> HIDE DEF full, b
  <2>6. Manifest.last = b /\ b \in Nat /\ b > 0 /\ b <= ChunkBytes
    BY <2>2, <2>4, <2>5, SizesArePositive
  <2>7. ValidManifest(Manifest)
    BY <1>1, <1>2, <1>4, <2>3, <2>6 DEF ValidManifest
  <2>8. ASSUME NEW i \in 0 .. n - 1
        PROVE  sealed[i + 1] = [at |-> CtOffset(i), bytes |-> PtLen(i, Manifest)]
    <3>1. i + 1 \in 1 .. n /\ i + 1 - 1 = i /\ sealed[i + 1] \in Pieces
      BY <1>1, <2>8
    <3>2. sealed[i + 1].at = CtOffset(i)
      BY <3>1 DEF CutInv
    <3>3. sealed[i + 1].bytes = PtLen(i, Manifest)
      <4>1. CASE i = n - 1
        BY <1>1, <1>2, <2>3, <2>6, <4>1 DEF PtLen, b
      <4>2. CASE i # n - 1
        <5>1. i < n - 1 /\ i + 1 < n
          BY <1>1, <4>2
        <5>2. sealed[i + 1].bytes = ChunkBytes
          BY <3>1, <5>1 DEF CutInv
        <5>3. QED
          BY <1>2, <2>3, <5>1, <5>2 DEF PtLen
      <4>3. QED
        BY <4>1, <4>2
    <3>4. QED
      BY <3>1, <3>2, <3>3 DEF Pieces
  <2>9. EndOf(sealed) = CtOffset(n - 1) + PtLen(n - 1, Manifest) + TagBytes
    <3>1. n - 1 \in 0 .. n - 1 /\ n - 1 + 1 = n
      BY <1>1, <2>1
    <3>2. sealed[n] = [at |-> CtOffset(n - 1), bytes |-> PtLen(n - 1, Manifest)]
      BY <2>8, <3>1
    <3>3. sealed[n].at = CtOffset(n - 1) /\ sealed[n].bytes = PtLen(n - 1, Manifest)
      BY <3>2
    <3>4. QED
      BY <1>1, <1>4, <3>3 DEF EndOf
  <2>10. QED
    BY <1>2, <2>3, <2>7, <2>8, <2>9
<1>5. QED
  BY <1>3, <1>4

\* Uploader and downloader agree on where each chunk lies.
LEMMA RangesAgree ==
  ASSUME IInv, CutInv, source = "bytes", ~Refused, committed, NEW i \in 0 .. Total - 1
  PROVE  /\ RangeAnswer(i, manifest) = "ok" /\ ~RangeIsShort(i, manifest)
         /\ RangeIsPiece(i, manifest)
<1> DEFINE n == Len(sealed)
           end == PtLen(n - 1, Manifest)
<1>1. manifest = Manifest /\ left = 0 /\ blob = sealed /\ UploadTyped
  BY DEF IInv, ManifestInv, Refused, UploadInv, CommittedIsWhole
<1>2. Total = n /\ n \in Nat /\ i \in 0 .. n - 1 /\ i \in Nat /\ sealed # <<>>
  BY <1>1, ManifestOfChunks DEF Total, UploadTyped
<1>3. /\ sealed[i + 1] = [at |-> CtOffset(i), bytes |-> PtLen(i, manifest)]
      /\ EndOf(blob) = CtOffset(n - 1) + end + TagBytes
      /\ sealed[n] = [at |-> CtOffset(n - 1), bytes |-> end]
  <2>1. n - 1 \in 0 .. n - 1 /\ n - 1 + 1 = n
    BY <1>2
  <2>2. QED
    BY <1>1, <1>2, <2>1, ManifestOfChunks
<1>4. end \in Nat
  <2>1. sealed[n] \in Pieces /\ sealed[n].bytes = end
    BY <1>1, <1>2, <1>3 DEF UploadTyped
  <2>2. QED
    BY <2>1 DEF Pieces
<1>5. RangeIsPiece(i, manifest)
  BY <1>1, <1>2, <1>3 DEF RangeIsPiece
<1>6. CtOffset(i) + CtLen(i, manifest) <= EndOf(blob) /\ CtLen(i, manifest) \in Nat
      /\ CtLen(i, manifest) > 0 /\ CtOffset(i) \in Nat
  <2>1. manifest.totalChunks = n /\ n # 0
    BY <1>1, <1>2 DEF Total
  <2>2. n - 1 \in Nat /\ CtOffset(i) \in Nat /\ CtOffset(n - 1) \in Nat
    <3>1. n - 1 \in Nat /\ i \in Nat
      BY <1>2
    <3>2. QED
      BY <3>1, OffsetsGrow, Zenon
  <2>3. CASE i = n - 1
    BY <1>1, <1>3, <1>4, <2>1, <2>2, <2>3, SizesArePositive DEF CtLen
  <2>4. CASE i # n - 1
    <3>1. i < n - 1 /\ i + 1 \in Nat /\ i + 1 <= n - 1
      BY <1>2, <2>4
    <3>2. CtLen(i, manifest) = ChunkBytes + TagBytes
      BY <2>1, <3>1 DEF CtLen, PtLen
    <3>3. CtOffset(i + 1) = CtOffset(i) + ChunkBytes + TagBytes
          /\ CtOffset(i + 1) <= CtOffset(n - 1)
      BY <1>2, <2>2, <3>1, OffsetsGrow
    <3>4. QED
      BY <1>3, <1>4, <2>2, <3>2, <3>3, SizesArePositive
  <2>5. QED
    BY <2>3, <2>4
<1>7. EndOf(blob) \in Nat
  <2>1. n - 1 \in Nat
    BY <1>2
  <2>2. CtOffset(n - 1) \in Nat
    BY <2>1, OffsetsGrow, Zenon
  <2>3. QED
    BY <1>3, <1>4, <2>2, SizesArePositive
<1>8. ~RangeIsShort(i, manifest)
  BY <1>6, <1>7 DEF RangeIsShort
<1>9. RangeAnswer(i, manifest) = "ok"
  BY <1>6, <1>7 DEF RangeAnswer
<1>10. QED
  BY <1>5, <1>8, <1>9

----------------------------------------------------------------------------
(* How requests and promises end. *)

LEMMA FaultCounts ==
  ASSUME faults \in 0 .. MaxFaults, Fault PROVE faults' \in 0 .. MaxFaults /\ faults' # 0
  BY BoundsAreNat DEF Fault

LEMMA AnsweredEnds ==
  ASSUME EndsInv, NEW request \in {"create", "blob", "manifest", "commit"},
         uPc = request, NEW a \in Answers, Answered(request, a)
  PROVE  /\ uPc' \in {"create", "blob", "manifest", "commit"} \cup UploadCodes
         /\ attempt' \in 0 .. Retries
<1>1. CASE a = "ok"
  BY <1>1, BoundsAreNat DEF Answered, Following, UploadCodes
<1>2. CASE a # "ok" /\ Retried(a, attempt, RetriesOf(request))
  <2>1. attempt' = attempt + 1 /\ uPc' = request /\ attempt < RetriesOf(request)
    BY <1>2 DEF Answered, Retried
  <2>2. RetriesOf(request) \in {0, Retries}
    BY DEF RetriesOf, BlobRetries
  <2>3. attempt' \in 0 .. Retries
    BY <2>1, <2>2, BoundsAreNat DEF EndsInv
  <2>4. QED
    BY <2>1, <2>3
<1>3. CASE a # "ok" /\ ~Retried(a, attempt, RetriesOf(request))
  BY <1>3, CodesEnd DEF Answered, EndsInv, UploadCodes
<1>4. QED
  BY <1>1, <1>2, <1>3

LEMMA DisturbedCounts ==
  ASSUME faults \in 0 .. MaxFaults, NEW a, Disturbed(a) PROVE faults' \in 0 .. MaxFaults
  BY FaultCounts DEF Disturbed

LEMMA UploadEnds ==
  ASSUME EndsInv, UploadNext, UNCHANGED download PROVE EndsInv'
<1>1. UNCHANGED <<draining, doneP, result>>
  BY DEF download, drainer
<1>2. faults \in 0 .. MaxFaults
  BY DEF EndsInv
<1>3. faults' \in 0 .. MaxFaults
  BY <1>2, FaultCounts, DisturbedCounts
     DEF UploadNext, Create, SealChunk, SealFails, PutBlob, SignFails, PutManifest, Commit,
         UploadAborts
<1>4. committed' \in BOOLEAN
  <2>1. committed' = committed \/ committed' = TRUE
    BY DEF UploadNext, Create, SealChunk, SealFails, PutBlob, SignFails, PutManifest, Commit,
           UploadAborts, Effect, store
  <2>2. QED
    BY <2>1 DEF EndsInv
<1>5. /\ uPc' \in {"create", "blob", "manifest", "commit"} \cup UploadCodes
      /\ attempt' \in 0 .. Retries
  <2>1. CASE Create
    BY <2>1, AnsweredEnds DEF Create
  <2>2. CASE SealChunk
    BY <2>2 DEF SealChunk, EndsInv
  <2>3. CASE SealFails
    BY <2>3 DEF SealFails, EndsInv, UploadCodes, Codes
  <2>4. CASE PutBlob
    BY <2>4, AnsweredEnds DEF PutBlob
  <2>5. CASE SignFails
    BY <2>5 DEF SignFails, EndsInv, UploadCodes
  <2>6. CASE PutManifest
    BY <2>6, AnsweredEnds DEF PutManifest
  <2>7. CASE Commit
    BY <2>7, AnsweredEnds DEF Commit
  <2>8. CASE UploadAborts
    BY <2>8 DEF UploadAborts, EndsInv, UploadCodes, Codes
  <2>9. QED
    BY <2>1, <2>2, <2>3, <2>4, <2>5, <2>6, <2>7, <2>8 DEF UploadNext
<1>6. QED
  BY <1>1, <1>3, <1>4, <1>5 DEF EndsInv

----------------------------------------------------------------------------
(* The pool counted. *)

LEMMA SeqsAreFinite ==
  /\ IsFiniteSet(Seqs) /\ Cardinality(Seqs) = MaxChunks
  /\ \A S \in SUBSET Seqs : /\ IsFiniteSet(S) /\ Cardinality(S) \in Nat
                            /\ Cardinality(S) <= MaxChunks
<1>1. IsFiniteSet(0 .. MaxChunks - 1)
      /\ Cardinality(0 .. MaxChunks - 1) = IF 0 > MaxChunks - 1 THEN 0 ELSE MaxChunks - 1 - 0 + 1
  BY MaxChunksIsNat, FS_Interval
<1>2. IsFiniteSet(Seqs) /\ Cardinality(Seqs) = MaxChunks
  BY <1>1, MaxChunksIsNat DEF Seqs
<1>3. QED
  BY <1>2, FS_Subset, FS_CardinalityType

\* Of an object that fits, no chunk is without a worker.
LEMMA ObjectFits ==
  ASSUME IInv, SizeInv, ~Refused
  PROVE  Total \in Nat /\ Total <= MaxChunks
<1>1. Total \in Nat
  BY DEF IInv, DrainInv
<1>2. Total = Chunks(totalPt) /\ left = 0 /\ totalPt \in Nat
  BY DEF IInv, ManifestInv, Refused, Manifest, MakeManifest, Total, UploadTyped
<1>3. totalPt \in Sizes
  BY <1>2 DEF SizeInv
<1>4. QED
  BY <1>1, <1>2, <1>3, ObjectsFit

\* A worker that lives counts.
LEMMA LivingCount ==
  ASSUME CountInv, NEW j \in Living(worker)
  PROVE  active \in Nat /\ active >= 1 /\ doneP # "resolved"
         /\ (active = 1 => Living(worker) = {j})
<1>1. Living(worker) \in SUBSET Seqs
  BY DEF Living
<1>2. IsFiniteSet(Living(worker)) /\ active = Cardinality(Living(worker)) /\ active \in Nat
  BY <1>1, SeqsAreFinite DEF CountInv, PoolCount
<1>3. active # 0
  BY <1>2, FS_EmptySet
<1>4. active = 1 => Living(worker) = {j}
  <2> SUFFICES ASSUME active = 1 PROVE Living(worker) = {j}
    OBVIOUS
  <2>1. PICK x : Living(worker) = {x}
    BY <1>2, FS_Singleton
  <2>2. QED
    BY <2>1
<1>5. QED
  BY <1>2, <1>3, <1>4 DEF CountInv

\* schedule() counts what it starts, in the order of the chunks.
LEMMA StartedCounts ==
  ASSUME Total \in Nat, Total <= MaxChunks, parallel \in Nat, nextSeq \in Nat, nextSeq <= Total,
         NEW ws, active = Cardinality(Living(ws)), active <= parallel,
         \A i \in Seqs : i < nextSeq <=> ws[i].at # "none",
         \A i \in Seqs : ws[i].attempt \in 0 .. Retries,
         Started(ws, Total), parallel' = parallel
  PROVE  /\ PoolCount' /\ nextSeq' <= Total
         /\ \A i \in Seqs : \/ worker'[i] = ws[i]
                            \/ ws[i].at = "none" /\ worker'[i] = At("fetch")
<1> DEFINE k == IF aborted THEN 0 ELSE Starting(Total)
           more == nextSeq .. nextSeq + k - 1
<1>1. Living(ws) \in SUBSET Seqs
  BY DEF Living
<1>2. IsFiniteSet(Living(ws)) /\ active \in Nat
  BY <1>1, SeqsAreFinite
<1>3. k \in Nat /\ nextSeq + k <= Total /\ active + k <= parallel
  BY <1>2 DEF Starting, Room
<1>4. /\ worker' = [i \in Seqs |-> IF i \in more THEN At("fetch") ELSE ws[i]]
      /\ nextSeq' = nextSeq + k /\ active' = active + k
  BY DEF Started
<1> HIDE DEF k
<1>5. nextSeq + k \in Nat /\ \A i \in Seqs : i \in Nat
  BY <1>3 DEF Seqs
<1>6. \A i \in more : i \in Seqs /\ ws[i].at = "none"
  BY <1>3, <1>5, MaxChunksIsNat DEF Seqs
<1>7. At("fetch").at = "fetch" /\ At("fetch").attempt = 0
  BY DEF At
<1>8. \A i \in Seqs : worker'[i] = IF i \in more THEN At("fetch") ELSE ws[i]
  BY <1>4
<1> HIDE DEF more
<1>9. Living(worker)' = Living(ws) \cup more
  <2>1. \A i : i \in Living(worker)' <=> i \in Seqs /\ worker'[i].at \in {"fetch", "open", "ended"}
    BY DEF Living
  <2>2. \A i : i \in Living(ws) <=> i \in Seqs /\ ws[i].at \in {"fetch", "open", "ended"}
    BY DEF Living
  <2>3. \A i : i \in Living(worker)' <=> i \in Living(ws) \/ i \in more
    BY <1>6, <1>7, <1>8, <2>1, <2>2
  <2>4. QED
    BY <2>3
<1>10. Living(ws) \cap more = {}
  BY <1>6 DEF Living
<1>11. IsFiniteSet(more) /\ Cardinality(more) = k
  <2> DEFINE b == nextSeq + k - 1
  <2>1. nextSeq \in Int /\ b \in Int /\ b - nextSeq + 1 = k /\ (nextSeq > b <=> k = 0)
    BY <1>3
  <2>2. more = nextSeq .. b
    BY DEF more
  <2> HIDE DEF b
  <2>3. /\ IsFiniteSet(nextSeq .. b)
        /\ Cardinality(nextSeq .. b) = IF nextSeq > b THEN 0 ELSE b - nextSeq + 1
    BY <2>1, FS_Interval
  <2>4. QED
    BY <2>1, <2>2, <2>3
<1>12. active' = Cardinality(Living(worker)')
  <2>1. Cardinality(Living(ws) \cup more)
          = Cardinality(Living(ws)) + Cardinality(more) - Cardinality(Living(ws) \cap more)
    BY <1>2, <1>11, FS_Union
  <2>2. Cardinality({}) = 0
    BY FS_EmptySet
  <2>3. Cardinality(Living(ws) \cap more) = 0
    BY <1>10, <2>2
  <2>4. Cardinality(Living(ws) \cup more) = active + k - 0
    BY <1>11, <2>1, <2>3
  <2>5. active + k - 0 = active + k
    BY <1>2, <1>3
  <2>6. QED
    BY <1>4, <1>9, <2>4, <2>5, Zenon
<1>13. \A i \in Seqs : i < nextSeq' <=> worker'[i].at # "none"
  <2> SUFFICES ASSUME NEW i \in Seqs PROVE i < nextSeq' <=> worker'[i].at # "none"
    OBVIOUS
  <2>1. CASE i \in more
    BY <1>3, <1>4, <1>5, <1>7, <1>8, <2>1 DEF more
  <2>2. CASE i \notin more
    BY <1>3, <1>4, <1>5, <1>8, <2>2 DEF more
  <2>3. QED
    BY <2>1, <2>2
<1>14. \A i \in Seqs : worker'[i].attempt \in 0 .. Retries
  BY <1>7, <1>8, BoundsAreNat
<1>15. PoolCount'
  <2>1. active' <= parallel' /\ nextSeq' \in Nat /\ parallel' \in Nat
    BY <1>3, <1>4, <1>5
  <2>2. QED
    BY <1>12, <1>13, <1>14, <2>1 DEF PoolCount
<1>16. QED
  BY <1>3, <1>4, <1>6, <1>8, <1>15

\* A worker that ends counts until its promise has settled.
LEMMA EndsCounts ==
  ASSUME Total \in Nat, Total <= MaxChunks, CountInv, ~Refused, worker \in Workers,
         NEW j \in Seqs, worker[j].at \in {"fetch", "open"},
         NEW e \in DownloadCodes \cup {"none"}, Ends(j, e), parallel' = parallel
  PROVE  /\ PoolCount' /\ nextSeq' <= Total /\ doneP # "resolved"
         /\ worker'[j] = [At("ended") EXCEPT !.error = e]
         /\ \A i \in Seqs \ {j} : \/ worker'[i] = worker[i]
                                  \/ worker[i].at = "none" /\ worker'[i] = At("fetch")
<1> DEFINE rec == [At("ended") EXCEPT !.error = e]
           ws == [worker EXCEPT ![j] = rec]
<1>1. rec.at = "ended" /\ rec.attempt = 0 /\ rec.error = e
  BY DEF At
<1>2. ws[j] = rec /\ \A i \in Seqs \ {j} : ws[i] = worker[i]
  BY DEF Workers
<1>3. Started(ws, Total)
  BY DEF Ends
<1> HIDE DEF rec, ws
<1>4. Living(ws) = Living(worker) /\ j \in Living(worker)
  BY <1>1, <1>2 DEF Living
<1>5. \A i \in Seqs : i < nextSeq <=> ws[i].at # "none"
  BY <1>1, <1>2 DEF CountInv, PoolCount
<1>6. \A i \in Seqs : ws[i].attempt \in 0 .. Retries
  BY <1>1, <1>2, BoundsAreNat DEF CountInv, PoolCount
<1>7. /\ parallel \in Nat /\ nextSeq \in Nat /\ nextSeq <= Total
      /\ active = Cardinality(Living(ws)) /\ active <= parallel
  BY <1>4 DEF CountInv, PoolCount
<1>8. /\ PoolCount' /\ nextSeq' <= Total
      /\ \A i \in Seqs : \/ worker'[i] = ws[i]
                         \/ ws[i].at = "none" /\ worker'[i] = At("fetch")
  BY <1>3, <1>5, <1>6, <1>7, StartedCounts
<1>9. worker'[j] = rec
  BY <1>1, <1>2, <1>8
<1>10. doneP # "resolved"
  BY <1>4, LivingCount
<1>11. QED
  BY <1>2, <1>8, <1>9, <1>10 DEF rec

\* Once the manifest was accepted the call goes on, however it ends.
LEMMA PoolGoesOn ==
  ASSUME IInv, Working \/ WriteFails \/ ProgressThrows \/ Abort PROVE ~Refused /\ ~Refused'
<1>1. ASSUME NEW i \in Seqs, Fetch(i) \/ FetchBreaks(i) \/ Open(i) \/ OpenFails(i) \/ Settled(i)
      PROVE  ~Refused /\ ~Refused'
  <2>1. ~Refused
    BY <1>1 DEF IInv, Untouched, Fetch, FetchBreaks, Fetching, Open, OpenFails, Settled, At
  <2>2. PoolInv
    BY <2>1 DEF IInv
  <2>3. \/ UNCHANGED result \/ Reject("AbortError")
        \/ worker[i].error # "none" /\ Reject(worker[i].error)
    BY <1>1 DEF Fetch, FetchBreaks, Open, OpenFails, Settled
  <2>4. worker[i].error # "none" => worker[i].error \in DownloadCodes
    BY <2>2, WorkerFields DEF PoolInv
  <2>5. "AbortError" \in DownloadCodes
    BY DEF DownloadCodes, Codes
  <2>6. QED
    BY <2>1, <2>3, <2>4, <2>5, RejectEffect DEF Refused
<1>2. CASE DrainRejects
  <2>1. ~Refused
    BY <1>2 DEF IInv, Untouched, DrainRejects
  <2>2. Reject("caller") /\ "caller" \in DownloadCodes
    BY <1>2 DEF DrainRejects, DownloadCodes
  <2>3. QED
    BY <2>1, <2>2, RejectEffect
<1>3. CASE Finish
  BY <1>3 DEF Finish, Pending, Refused, Verdict
<1>4. CASE WriteDone
  <2>1. ~Refused
    BY <1>4 DEF IInv, Untouched, WriteDone
  <2>2. \/ result' = result
        \/ result' \in {"NC_INTERNAL_ORDER", "NC_HASH_MISMATCH", "ok"}
    BY <1>4 DEF WriteDone, Verdict
  <2>3. QED
    BY <2>1, <2>2 DEF Refused
<1>5. CASE WriteFails \/ ProgressThrows
  <2>1. ~Refused
    BY <1>5 DEF IInv, Untouched, WriteFails, ProgressThrows, DrainFails, Busy
  <2>2. QED
    BY <1>5, <2>1 DEF WriteFails, ProgressThrows, DrainFails, Refused
<1>6. CASE Abort
  BY <1>6 DEF Abort, Pending, Refused
<1>7. QED
  BY <1>1, <1>2, <1>3, <1>4, <1>5, <1>6 DEF Working

\* The pool settles with a code of its own, and so does the caller.
LEMMA RejectEnds ==
  ASSUME EndsInv, NEW code \in DownloadCodes, Reject(code)
  PROVE  /\ doneP' \in {"pending", "resolved"} \cup DownloadCodes
         /\ result' \in {"none", "pending", "ok", "NC_BAD_MANIFEST", "NC_INTERNAL_ORDER",
                         "NC_HASH_MISMATCH"} \cup DownloadCodes
  BY DEF EndsInv, Reject

LEMMA DownloadEnds ==
  ASSUME IInv, EndsInv, DownloadNext, UNCHANGED upload PROVE EndsInv'
<1> DEFINE Results == {"none", "pending", "ok", "NC_BAD_MANIFEST", "NC_INTERNAL_ORDER",
                       "NC_HASH_MISMATCH"} \cup DownloadCodes
           Dones == {"pending", "resolved"} \cup DownloadCodes
<1>1. UNCHANGED <<uPc, attempt, committed>>
  BY DEF DownloadNext, Working, Download, DrainRejects, Finish, WriteDone, Fetch, FetchBreaks, Open,
         OpenFails, Settled, WriteFails, ProgressThrows, DrainFails, Abort, upload, store
<1>2. faults' = faults \/ Fault
  BY DEF DownloadNext, Working, Download, DrainRejects, Finish, WriteDone, Fetch, FetchBreaks, Open,
         OpenFails, Settled, WriteFails, ProgressThrows, DrainFails, Abort, DrainNow, DrainLater
<1>3. faults' \in 0 .. MaxFaults
  BY <1>2, FaultCounts DEF EndsInv
<1>4. draining' \in {"no", "worker", "main"}
  <2>1. draining' = draining \/ draining' \in {"no", "worker", "main"}
    BY DEF DownloadNext, Working, Download, DrainRejects, Finish, WriteDone, Fetch, FetchBreaks,
           Open, OpenFails, Settled, WriteFails, ProgressThrows, DrainFails, Abort, DrainNow, DrainLater, drainer
  <2>2. QED
    BY <2>1 DEF EndsInv
<1>5. doneP \in Dones /\ result \in Results
  BY DEF EndsInv
<1>6. "AbortError" \in DownloadCodes /\ "caller" \in DownloadCodes
  BY DEF DownloadCodes, Codes
<1>7. ASSUME NEW code \in DownloadCodes, Reject(code) PROVE doneP' \in Dones /\ result' \in Results
  BY <1>7, RejectEnds
<1>8. doneP' \in Dones /\ result' \in Results
  <2>1. ASSUME NEW i \in Seqs, Fetch(i) \/ FetchBreaks(i) \/ Open(i) \/ OpenFails(i)
        PROVE  doneP' \in Dones /\ result' \in Results
    <3>1. UNCHANGED <<doneP, result>> \/ Reject("AbortError")
      BY <2>1 DEF Fetch, FetchBreaks, Open, OpenFails
    <3>2. QED
      BY <1>5, <1>6, <1>7, <3>1
  <2>2. ASSUME NEW i \in Seqs, Settled(i) PROVE doneP' \in Dones /\ result' \in Results
    <3>1. worker[i].error # "none" => worker[i].error \in DownloadCodes
      <4>1. ~Refused
        BY <2>2, PoolGoesOn DEF Working
      <4>2. QED
        BY <4>1, WorkerFields DEF IInv, PoolInv
    <3>2. CASE worker[i].error # "none"
      BY <1>7, <2>2, <3>1, <3>2 DEF Settled
    <3>3. CASE worker[i].error = "none"
      BY <1>5, <2>2, <3>3 DEF Settled
    <3>4. QED
      BY <3>2, <3>3
  <2>3. CASE DrainRejects
    BY <1>6, <1>7, <2>3 DEF DrainRejects
  <2>4. CASE Finish
    BY <1>5, <2>4 DEF Finish, Verdict
  <2>5. CASE WriteDone
    <3>1. doneP' = doneP /\ \/ result' = result
                            \/ result' \in {"NC_INTERNAL_ORDER", "NC_HASH_MISMATCH", "ok"}
      BY <2>5 DEF WriteDone, Verdict
    <3>2. QED
      BY <1>5, <3>1
  <2>6. CASE WriteFails \/ ProgressThrows
    BY <1>5, <1>6, <2>6 DEF WriteFails, ProgressThrows, DrainFails
  <2>7. CASE Abort
    BY <1>5, <2>7 DEF Abort
  <2>8. CASE Download
    BY <1>5, <2>8 DEF Download
  <2>9. QED
    BY <2>1, <2>2, <2>3, <2>4, <2>5, <2>6, <2>7, <2>8 DEF DownloadNext, Working
<1>9. QED
  BY <1>1, <1>3, <1>4, <1>8 DEF EndsInv

\* What is left to show of a step that ends the worker of a chunk.
LEMMA EndsKeepsCount ==
  ASSUME IInv, SizeInv, CountInv, ~Refused, ~Refused', UNCHANGED options,
         NEW i \in Seqs, worker[i].at \in {"fetch", "open"},
         NEW e \in DownloadCodes \cup {"none"}, Ends(i, e),
         Reject("AbortError") \/ UNCHANGED doneP
  PROVE  CountInv'
<1>1. Total \in Nat /\ Total <= MaxChunks /\ worker \in Workers /\ Total' = Total
      /\ parallel' = parallel
  BY ObjectFits DEF IInv, PoolInv, options, Total
<1>2. PoolCount' /\ nextSeq' <= Total' /\ doneP # "resolved"
  BY <1>1, EndsCounts
<1>3. doneP' # "resolved"
  BY <1>2 DEF Reject
<1>4. QED
  BY <1>2, <1>3 DEF CountInv

LEMMA DownloadCounts ==
  ASSUME IInv, SizeInv, CountInv, DownloadNext PROVE CountInv'
<1>1. ASSUME NEW i \in Seqs, Fetch(i) PROVE CountInv'
  <2>1. ~Refused /\ ~Refused' /\ worker \in Workers /\ worker[i].at = "fetch" /\ UNCHANGED options
    BY <1>1, PoolGoesOn DEF Working, IInv, PoolInv, Fetch, Fetching
  <2>2. PICK a \in Answers :
           \/ /\ worker' = [worker EXCEPT ![i].at = "open"]
              /\ UNCHANGED <<nextSeq, active, doneP, result>>
           \/ /\ Retried(a, worker[i].attempt, Retries)
              /\ worker' = [worker EXCEPT ![i].attempt = @ + 1]
              /\ UNCHANGED <<nextSeq, active, doneP, result>>
           \/ /\ Ends(i, "NC_RANGE_SIZE")
              /\ Reject("AbortError") \/ UNCHANGED doneP
           \/ /\ a # "ok" /\ Ends(i, Code(a))
              /\ Reject("AbortError") \/ UNCHANGED doneP
    BY <1>1 DEF Fetch
  <2>3. ASSUME worker'[i].at \in {"fetch", "open"}, worker'[i].attempt \in 0 .. Retries,
               \A j \in Seqs \ {i} : worker'[j] = worker[j],
               UNCHANGED <<nextSeq, active, doneP>>
        PROVE  CountInv'
    <3>1. \A j : j \in Living(worker)' <=> j \in Living(worker)
      BY <2>1, <2>3 DEF Living
    <3>2. Living(worker)' = Living(worker)
      BY <3>1
    <3>3. \A j \in Seqs : worker'[j].at # "none" <=> worker[j].at # "none"
      BY <2>1, <2>3
    <3>4. \A j \in Seqs : worker'[j].attempt \in 0 .. Retries
      BY <2>3 DEF CountInv, PoolCount
    <3>5. parallel' = parallel /\ Total' = Total
      BY <2>1 DEF options, Total
    <3>6. PoolCount'
      BY <2>3, <3>2, <3>3, <3>4, <3>5 DEF CountInv, PoolCount
    <3>7. QED
      BY <2>1, <2>3, <3>5, <3>6 DEF CountInv
  <2>4. worker[i].attempt \in 0 .. Retries /\ worker[i].attempt \in Nat
    BY <2>1, WorkerFields DEF CountInv, PoolCount
  <2>5. CASE worker' = [worker EXCEPT ![i].at = "open"] /\ UNCHANGED <<nextSeq, active, doneP>>
    <3>1. /\ worker'[i].at = "open" /\ worker'[i].attempt = worker[i].attempt
          /\ \A j \in Seqs \ {i} : worker'[j] = worker[j]
      BY <2>1, <2>5 DEF Workers
    <3>2. QED
      BY <2>3, <2>4, <2>5, <3>1
  <2>6. CASE /\ Retried(a, worker[i].attempt, Retries)
             /\ worker' = [worker EXCEPT ![i].attempt = @ + 1]
             /\ UNCHANGED <<nextSeq, active, doneP>>
    <3>1. /\ worker'[i].at = "fetch" /\ worker'[i].attempt = worker[i].attempt + 1
          /\ \A j \in Seqs \ {i} : worker'[j] = worker[j]
      BY <2>1, <2>6 DEF Workers
    <3>2. worker[i].attempt + 1 \in 0 .. Retries
      BY <2>4, <2>6, BoundsAreNat DEF Retried
    <3>3. QED
      BY <2>3, <2>6, <3>1, <3>2
  <2>7. "NC_RANGE_SIZE" \in DownloadCodes /\ (a # "ok" => Code(a) \in DownloadCodes)
    BY CodesEnd DEF DownloadCodes
  <2>8. QED
    BY <2>1, <2>2, <2>5, <2>6, <2>7, EndsKeepsCount
<1>2. ASSUME NEW i \in Seqs, FetchBreaks(i) \/ Open(i) \/ OpenFails(i) PROVE CountInv'
  <2>1. ~Refused /\ ~Refused' /\ UNCHANGED options /\ worker[i].at \in {"fetch", "open"}
    BY <1>2, PoolGoesOn DEF Working, FetchBreaks, Fetching, Open, OpenFails
  <2>2. PICK e \in {"NC_ABORTED", "TypeError", "none", "NC_DECRYPT_FAILED"} : Ends(i, e)
    BY <1>2 DEF FetchBreaks, Open, OpenFails
  <2>3. e \in DownloadCodes \cup {"none"}
    BY DEF DownloadCodes, Codes
  <2>4. Reject("AbortError") \/ UNCHANGED doneP
    BY <1>2 DEF FetchBreaks, Open, OpenFails
  <2>5. QED
    BY <2>1, <2>2, <2>3, <2>4, EndsKeepsCount
<1>3. ASSUME NEW i \in Seqs, Settled(i) PROVE CountInv'
  <2>1. ~Refused /\ ~Refused' /\ worker \in Workers /\ worker[i].at = "ended"
    BY <1>3, PoolGoesOn DEF Working, IInv, PoolInv, Settled
  <2>2. UNCHANGED <<options, nextSeq>> /\ Total' = Total /\ parallel' = parallel
    BY <1>3 DEF Settled, options, Total
  <2>3. worker' = [worker EXCEPT ![i].at = "gone"] /\ active' = active - 1
    BY <1>3 DEF Settled
  <2>4. /\ worker'[i].at = "gone" /\ worker'[i].attempt = worker[i].attempt
        /\ \A j \in Seqs \ {i} : worker'[j] = worker[j]
    BY <2>1, <2>3 DEF Workers
  <2>5. i \in Living(worker) /\ Living(worker) \in SUBSET Seqs
    BY <2>1 DEF Living
  <2>6. Living(worker)' = Living(worker) \ {i}
    <3>1. \A j : j \in Living(worker)' <=> j \in Living(worker) \ {i}
      BY <2>4 DEF Living
    <3>2. QED
      BY <3>1
  <2>7. active \in Nat /\ active >= 1 /\ doneP # "resolved"
    BY <2>5, LivingCount
  <2>8. active' = Cardinality(Living(worker)') /\ active' <= parallel'
    <3>1. IsFiniteSet(Living(worker)) /\ active = Cardinality(Living(worker))
      BY <2>5, SeqsAreFinite DEF CountInv, PoolCount
    <3>2. Cardinality(Living(worker) \ {i}) = Cardinality(Living(worker)) - 1
      BY <2>5, <3>1, FS_RemoveElement
    <3>3. active' = Cardinality(Living(worker)')
      BY <2>3, <2>6, <3>1, <3>2
    <3>4. active <= parallel /\ parallel \in Nat
      BY DEF CountInv, PoolCount
    <3>5. active' <= parallel'
      BY <2>2, <2>3, <2>7, <3>4
    <3>6. QED
      BY <3>3, <3>5
  <2>9. /\ \A j \in Seqs : worker'[j].at # "none" <=> worker[j].at # "none"
        /\ \A j \in Seqs : worker'[j].attempt \in 0 .. Retries
    BY <2>1, <2>4 DEF CountInv, PoolCount
  <2>10. PoolCount'
    BY <2>2, <2>8, <2>9 DEF CountInv, PoolCount
  <2>11. nextSeq' <= Total'
    BY <2>1, <2>2 DEF CountInv
  <2>12. ASSUME doneP' = "resolved" PROVE active' = 0 /\ nextSeq' = Total'
    <3>1. worker[i].error # "resolved"
      BY <2>1, WorkerFields DEF IInv, PoolInv, DownloadCodes, Codes
    <3>2. Last
      BY <1>3, <2>7, <2>12, <3>1 DEF Settled, Reject
    <3>3. Total \in Nat /\ nextSeq \in Nat /\ nextSeq <= Total
      BY <2>1, ObjectFits DEF CountInv, PoolCount
    <3>4. QED
      BY <2>2, <2>3, <3>2, <3>3 DEF Last
  <2>13. QED
    BY <2>1, <2>10, <2>11, <2>12 DEF CountInv
<1>4. CASE DrainRejects \/ Finish \/ WriteDone \/ WriteFails \/ ProgressThrows \/ Abort
  <2>1. ~Refused /\ ~Refused'
    BY <1>4, PoolGoesOn DEF Working
  <2>2. UNCHANGED <<options, pool>> /\ (doneP' = "resolved" => doneP = "resolved")
    BY <1>4 DEF DrainRejects, Finish, WriteDone, WriteFails, ProgressThrows, DrainFails, Abort, Reject
  <2>3. QED
    BY <2>1, <2>2 DEF CountInv, PoolCount, Living, options, pool, Total
<1>5. CASE Download
  <2>1. Refused /\ Untouched /\ nextSeq = 0
    BY <1>5 DEF Download, IInv, Refused, CountInv
  <2>2. /\ doneP = "pending" /\ \A i \in Seqs : worker[i] = At("none")
    BY <2>1 DEF Untouched
  <2>3. parallel' \in Nat /\ parallel' >= 1 /\ manifest' = stored /\ Total' = stored.totalChunks
    BY <1>5, ParallelsArePositive DEF Download, Total
  <2>4. At("none").at = "none" /\ At("none").attempt = 0
        /\ At("fetch").at = "fetch" /\ At("fetch").attempt = 0
    BY DEF At
  <2>5. Living(worker) = {} /\ active = 0
    <3>1. Living(worker) = {}
      BY <2>2, <2>4 DEF Living
    <3>2. QED
      BY <3>1, FS_EmptySet DEF CountInv, PoolCount
  <2>6. CASE ValidManifest(stored)
    <3> DEFINE m == stored.totalChunks
               k == IF parallel' < m THEN parallel' ELSE m
    <3>1. m \in Nat /\ k \in Nat /\ k <= m /\ k <= parallel' /\ (k = 0 <=> m = 0)
      BY <2>3, <2>6 DEF ValidManifest
    <3>2. /\ result' = "pending" /\ nextSeq' = k /\ active' = k
          /\ worker' = [i \in Seqs |-> IF i < k THEN At("fetch") ELSE worker[i]]
          /\ doneP' = IF k = 0 THEN "resolved" ELSE doneP
      BY <1>5, <2>6 DEF Download
    <3>3. m <= MaxChunks
      <4>1. left = 0 /\ stored = Manifest /\ totalPt \in Nat
        BY <1>5 DEF Download, IInv, UploadInv, UploadTyped
      <4>2. m = Chunks(totalPt) /\ totalPt \in Sizes
        BY <4>1 DEF SizeInv, Manifest, MakeManifest
      <4>3. QED
        BY <4>2, ObjectsFit
    <3> HIDE DEF k, m
    <3>4. \A i \in Seqs : worker'[i] = IF i < k THEN At("fetch") ELSE At("none")
      BY <2>2, <3>2
    <3>5. Living(worker)' = 0 .. k - 1
      <4>1. \A i : i \in 0 .. k - 1 <=> i \in Seqs /\ i < k
        BY <3>1, <3>3, MaxChunksIsNat DEF Seqs
      <4>2. \A i : i \in Living(worker)' <=> i \in Seqs /\ i < k
        BY <2>4, <3>4 DEF Living
      <4>3. QED
        BY <4>1, <4>2
    <3>6. Cardinality(0 .. k - 1) = k
      <4>1. Cardinality(0 .. k - 1) = IF 0 > k - 1 THEN 0 ELSE k - 1 - 0 + 1
        BY <3>1, FS_Interval
      <4>2. QED
        BY <3>1, <4>1
    <3>7. PoolCount'
      <4>1. \A i \in Seqs : i < nextSeq' <=> worker'[i].at # "none"
        BY <2>4, <3>2, <3>4
      <4>2. \A i \in Seqs : worker'[i].attempt \in 0 .. Retries
        BY <2>4, <3>4, BoundsAreNat
      <4>3. QED
        BY <2>3, <3>1, <3>2, <3>5, <3>6, <4>1, <4>2 DEF PoolCount
    <3>8. ~Refused' /\ Total' = m
      BY <2>3, <3>2 DEF Refused, m
    <3>9. QED
      BY <2>2, <3>1, <3>2, <3>7, <3>8 DEF CountInv
  <2>7. CASE ~ValidManifest(stored)
    <3>1. UNCHANGED <<worker, nextSeq, active, doneP>> /\ result' = "NC_BAD_MANIFEST"
      BY <1>5, <2>7 DEF Download, pool
    <3>2. PoolCount'
      BY <2>3, <2>5, <3>1 DEF CountInv, PoolCount, Living
    <3>3. QED
      BY <2>1, <2>2, <3>1, <3>2 DEF CountInv, Refused
  <2>8. QED
    BY <2>6, <2>7
<1>6. QED
  BY <1>1, <1>2, <1>3, <1>4, <1>5 DEF DownloadNext, Working

----------------------------------------------------------------------------
(* The calm. *)

LEMMA UploadCalm ==
  ASSUME EndsInv, CalmInv, UploadNext, UNCHANGED download PROVE CalmInv'
<1>1. faults' = faults \/ Fault
  BY DEF UploadNext, Create, SealChunk, SealFails, PutBlob, SignFails, PutManifest, Commit,
         UploadAborts, Disturbed
<1>2. source' = source
  BY DEF UploadNext, Create, SealChunk, SealFails, PutBlob, SignFails, PutManifest, Commit,
         UploadAborts
<1>3. faults' = 0 => faults = 0
  BY <1>1, FaultCounts DEF EndsInv
<1>4. UNCHANGED <<sink, worker, slots, nextToDrain, draining, failing, hashed, doneP, result, aborted>>
  BY DEF download, options, pool, drainer
<1>5. QED
  BY <1>2, <1>3, <1>4 DEF CalmInv, Calm, QuietInv, ChunkInv, Busy, Refused

\* A worker that ends in the calm: well, its chunk kept or written by then, or with
\* the answer that the object is not committed.
LEMMA EndsCalm ==
  ASSUME IInv, SizeInv, CountInv, ~Refused, QuietInv, UNCHANGED options,
         NEW i \in Seqs, worker[i].at \in {"fetch", "open"},
         NEW e \in {"none", "NC_NOT_COMMITTED"}, Ends(i, e),
         UNCHANGED <<aborted, failing, draining, doneP, result>>,
         e = "none" => i < nextToDrain' \/ i \in slots',
         \A j \in Seqs \ {i} : /\ worker[j].at \in {"none", "fetch", "open"} =>
                                     j >= nextToDrain' /\ j \notin slots'
                               /\ j < nextToDrain \/ j \in slots =>
                                     j < nextToDrain' \/ j \in slots',
         \A j \in slots' : j > nextToDrain',
         hashed' = UpTo(0, nextToDrain')
  PROVE  QuietInv'
<1>1. /\ worker'[i] = [At("ended") EXCEPT !.error = e]
      /\ \A j \in Seqs \ {i} : \/ worker'[j] = worker[j]
                               \/ worker[j].at = "none" /\ worker'[j] = At("fetch")
  <2>1. Total \in Nat /\ Total <= MaxChunks /\ worker \in Workers /\ parallel' = parallel
    BY ObjectFits DEF IInv, PoolInv, options
  <2>2. e \in DownloadCodes \cup {"none"}
    BY DEF DownloadCodes, Codes
  <2>3. QED
    BY <2>1, <2>2, EndsCounts
<1>2. worker'[i].at = "ended" /\ worker'[i].error = e
  BY <1>1 DEF At
<1>3. At("fetch").at = "fetch" /\ At("fetch").error = "none"
  BY DEF At
<1>4. ASSUME NEW j \in Seqs PROVE ChunkInv(j)'
  <2>1. CASE j = i
    BY <1>2, <2>1 DEF ChunkInv
  <2>2. CASE j # i /\ worker'[j] = worker[j]
    BY <2>2 DEF QuietInv, ChunkInv
  <2>3. CASE j # i /\ worker[j].at = "none" /\ worker'[j] = At("fetch")
    BY <1>3, <2>3 DEF ChunkInv
  <2>4. QED
    BY <1>1, <2>1, <2>2, <2>3
<1>5. QED
  BY <1>4 DEF QuietInv, Busy

\* A request in the calm is answered as the store stands: with the chunk, or with the
\* answer that the object is not committed.
LEMMA FetchCalm ==
  ASSUME IInv, SizeInv, CutInv, EndsInv, CountInv, Calm, QuietInv,
         NEW i \in Seqs, Fetch(i), faults' = 0
  PROVE  QuietInv'
<1>1. ~Refused /\ worker \in Workers /\ worker[i].at = "fetch" /\ i \in 0 .. Total - 1
  BY PoolGoesOn DEF Working, IInv, PoolInv, DrainInv, Fetch, Fetching, Seqs
<1>2. UNCHANGED <<options, drainer, aborted>> /\ ~aborted
  BY DEF Fetch, QuietInv
<1>3. RangeAnswer(i, manifest) \in {"ok", "uncommitted"}
      /\ (RangeAnswer(i, manifest) = "ok" => ~RangeIsShort(i, manifest))
  <2>1. CASE committed
    BY <1>1, <2>1, RangesAgree DEF Calm
  <2>2. CASE ~committed
    BY <2>2 DEF RangeAnswer
  <2>3. QED
    BY <2>1, <2>2
<1> DEFINE a == RangeAnswer(i, manifest)
<1>4. \/ /\ a = "ok" /\ worker' = [worker EXCEPT ![i].at = "open"]
         /\ UNCHANGED <<doneP, result>>
      \/ /\ a # "ok" /\ Ends(i, Code(a))
         /\ UNCHANGED <<doneP, result>>
  <2>1. PICK b \in Answers :
           /\ b = a \/ Fault
           /\ \/ /\ b = "ok" /\ ~RangeIsShort(i, manifest)
                 /\ worker' = [worker EXCEPT ![i].at = "open"]
                 /\ UNCHANGED <<doneP, result>>
              \/ Retried(b, worker[i].attempt, Retries)
              \/ b = "ok" /\ RangeIsShort(i, manifest)
              \/ /\ b # "ok" /\ Ends(i, Code(b))
                 /\ UNCHANGED <<doneP, result>>
    BY <1>2, Zenon DEF Fetch
  <2>2. b = a
    BY <2>1, FaultCounts DEF EndsInv
  <2>3. QED
    BY <1>3, <2>1, <2>2 DEF Retried
<1> HIDE DEF a
<1>5. CASE a = "ok"
  <2>1. worker' = [worker EXCEPT ![i].at = "open"] /\ UNCHANGED <<doneP, result>>
    BY <1>4, <1>5
  <2>2. /\ worker'[i].at = "open" /\ worker'[i].error = worker[i].error
        /\ \A j \in Seqs \ {i} : worker'[j] = worker[j]
    BY <1>1, <2>1 DEF Workers
  <2>3. UNCHANGED <<slots, nextToDrain, draining, failing, hashed>>
    BY <1>2 DEF drainer
  <2>4. \A j \in Seqs : ChunkInv(j)'
    BY <1>1, <2>1, <2>2, <2>3 DEF QuietInv, ChunkInv
  <2>5. QED
    BY <1>2, <2>1, <2>3, <2>4 DEF QuietInv, Busy
<1>6. CASE a # "ok"
  <2>1. Code(a) = "NC_NOT_COMMITTED"
    BY <1>3, <1>6 DEF Code, a
  <2>2. Ends(i, "NC_NOT_COMMITTED") /\ UNCHANGED <<doneP, result>>
    BY <1>4, <1>6, <2>1
  <2>3. UNCHANGED <<slots, nextToDrain, draining, failing, hashed>>
    BY <1>2 DEF drainer
  <2>4. \A j \in Seqs \ {i} : worker[j].at \in {"none", "fetch", "open"} =>
                                 j >= nextToDrain' /\ j \notin slots'
    BY <2>3 DEF QuietInv, ChunkInv
  <2>5. (\A j \in slots' : j > nextToDrain') /\ hashed' = UpTo(0, nextToDrain')
    BY <2>3 DEF QuietInv
  <2>6. QED
    BY <1>1, <1>2, <2>2, <2>3, <2>4, <2>5, EndsCalm
<1>7. QED
  BY <1>5, <1>6

\* A chunk that opens in the calm is the one asked for: it is kept, and the drain
\* writes it and those behind it, up to the first gap.
LEMMA OpenCalm ==
  ASSUME IInv, SizeInv, CutInv, EndsInv, CountInv, Calm, QuietInv,
         NEW i \in Seqs, Open(i), faults' = 0
  PROVE  QuietInv'
<1>1. ~Refused /\ worker \in Workers /\ worker[i].at = "open" /\ DrainInv
      /\ i \in 0 .. Total - 1
  <2>1. ~Refused
    BY PoolGoesOn DEF Working
  <2>2. DrainInv /\ PoolInv /\ worker[i].at = "open"
    BY <2>1 DEF IInv, Open
  <2>3. Total \in Nat /\ i < Total /\ i \in Nat
    BY <2>2 DEF PoolInv, DrainInv, Seqs
  <2>4. QED
    BY <2>1, <2>2, <2>3 DEF PoolInv
<1> DEFINE ready == slots \cup {i}
<1>2. /\ UNCHANGED <<options, aborted, doneP, result>> /\ DrainNow(ready) /\ Ends(i, "none")
  BY DEF Open, QuietInv, Calm
<1>3. ~Fault
  BY FaultCounts DEF EndsInv
<1>4. PICK k \in nextToDrain .. Total :
         /\ nextToDrain .. k - 1 \subseteq ready
         /\ slots' = ready \ (nextToDrain .. k - 1)
         /\ nextToDrain' = k
         /\ k \notin ready
         /\ hashed' = hashed \o UpTo(nextToDrain, k)
         /\ UNCHANGED failing
  BY <1>2, <1>3 DEF DrainNow
<1>5. Total \in Nat /\ nextToDrain \in Nat /\ k \in Nat /\ nextToDrain <= k
      /\ \A j \in ready : j \in Nat
  <2>1. Total \in Nat /\ nextToDrain \in 0 .. Total /\ slots \subseteq 0 .. Total - 1
    BY <1>1 DEF DrainInv
  <2>2. \A j \in ready : j \in 0 .. Total - 1
    BY <1>1, <2>1
  <2>3. QED
    BY <1>4, <2>1, <2>2
<1>6. hashed' = UpTo(0, nextToDrain')
  BY <1>4, <1>5, UpToGrows DEF QuietInv
<1>7. draining' = draining
  BY <1>2 DEF DrainNow
<1>8. /\ i >= nextToDrain /\ \A j \in ready : j >= nextToDrain
  BY <1>1, <1>5 DEF QuietInv, ChunkInv
<1>9. \A j \in slots' : j > nextToDrain'
  BY <1>4, <1>5, <1>8
<1>10. i < nextToDrain' \/ i \in slots'
  BY <1>4, <1>5, <1>8
<1>11. ASSUME NEW j \in Seqs \ {i}, worker[j].at \in {"none", "fetch", "open"}
       PROVE  j >= nextToDrain' /\ j \notin slots'
  <2>1. j >= nextToDrain /\ j \notin ready /\ j \in Nat
    BY <1>11 DEF QuietInv, ChunkInv, Seqs
  <2>2. QED
    BY <1>4, <1>5, <2>1
<1>12. ASSUME NEW j \in Seqs \ {i}, j < nextToDrain \/ j \in slots
       PROVE  j < nextToDrain' \/ j \in slots'
  <2>1. j \in Nat
    BY DEF Seqs
  <2>2. QED
    BY <1>4, <1>5, <1>8, <1>12, <2>1
<1>13. QED
  BY <1>1, <1>2, <1>4, <1>6, <1>7, <1>9, <1>10, <1>11, <1>12, EndsCalm

\* A promise that settles in the calm fails the call or leaves its chunk delivered.
LEMMA SettledCalm ==
  ASSUME IInv, CountInv, QuietInv, NEW i \in Seqs, Settled(i)
  PROVE  QuietInv'
<1>1. worker \in Workers /\ worker[i].at = "ended"
  BY PoolGoesOn DEF Working, IInv, PoolInv, Settled
<1>2. /\ UNCHANGED <<slots, nextToDrain, draining, failing, hashed, aborted>>
      /\ worker' = [worker EXCEPT ![i].at = "gone"]
  BY DEF Settled, drainer
<1>3. /\ worker'[i].at = "gone" /\ worker'[i].error = worker[i].error
      /\ \A j \in Seqs \ {i} : worker'[j] = worker[j]
  BY <1>1, <1>2 DEF Workers
<1>4. doneP # "resolved" /\ worker[i].error \in {"none", "NC_NOT_COMMITTED"}
  BY <1>1, LivingCount DEF Living, QuietInv, ChunkInv
<1>5. /\ result' \in {result, "NC_NOT_COMMITTED"}
      /\ doneP' \in {"pending", "resolved", "NC_NOT_COMMITTED"}
      /\ worker[i].error # "none" => doneP' = "NC_NOT_COMMITTED"
      /\ doneP = "NC_NOT_COMMITTED" => doneP' = "NC_NOT_COMMITTED"
  BY <1>4 DEF Settled, Reject, QuietInv
<1>6. ASSUME NEW j \in Seqs PROVE ChunkInv(j)'
  <2>1. CASE j = i
    BY <1>1, <1>2, <1>3, <1>4, <1>5, <2>1 DEF QuietInv, ChunkInv
  <2>2. CASE j # i
    BY <1>2, <1>3, <1>5, <2>2 DEF QuietInv, ChunkInv
  <2>3. QED
    BY <2>1, <2>2
<1>7. QED
  BY <1>2, <1>5, <1>6 DEF QuietInv, Busy

\* When the pool is done in the calm every chunk is written and nothing is left.
LEMMA FinishCalm ==
  ASSUME IInv, SizeInv, CutInv, CountInv, Calm, QuietInv, Finish
  PROVE  QuietInv'
<1>1. ~Refused /\ doneP = "resolved" /\ DrainInv
  BY PoolGoesOn DEF Working, IInv, Finish
<1>2. Total \in Nat /\ Total <= MaxChunks /\ nextToDrain \in 0 .. Total
      /\ slots \subseteq 0 .. Total - 1
  BY <1>1, ObjectFits DEF DrainInv
<1>3. active = 0 /\ nextSeq = Total
  BY <1>1 DEF CountInv
<1>4. Living(worker) = {}
  <2>1. Living(worker) \in SUBSET Seqs /\ Cardinality(Living(worker)) = 0
    BY <1>3 DEF CountInv, PoolCount, Living
  <2>2. QED
    BY <2>1, SeqsAreFinite, FS_EmptySet
<1>5. nextToDrain = Total
  <2> SUFFICES ASSUME nextToDrain # Total PROVE FALSE
    OBVIOUS
  <2>1. nextToDrain \in Seqs /\ nextToDrain < nextSeq
    BY <1>2, <1>3, MaxChunksIsNat DEF Seqs
  <2>2. worker[nextToDrain].at # "none" /\ nextToDrain \notin Living(worker)
    BY <1>4, <2>1 DEF CountInv, PoolCount
  <2>3. worker[nextToDrain].at = "gone"
    <3>1. worker \in Workers
      BY <1>1 DEF IInv, PoolInv
    <3>2. worker[nextToDrain].at \in {"none", "fetch", "open", "ended", "gone"}
      BY <2>1, <3>1 DEF Workers
    <3>3. QED
      BY <2>1, <2>2, <3>2 DEF Living
  <2>4. worker[nextToDrain].error = "none"
    BY <1>1, <2>1, <2>3 DEF QuietInv, ChunkInv
  <2>5. nextToDrain \in slots
    BY <1>2, <2>1, <2>3, <2>4 DEF QuietInv, ChunkInv
  <2>6. QED
    BY <1>2, <2>5 DEF QuietInv
<1>6. slots = {}
  <2>1. \A j \in slots : j > Total /\ j \in 0 .. Total - 1
    BY <1>2, <1>5 DEF QuietInv
  <2>2. \A j \in slots : FALSE
    BY <1>2, <2>1
  <2>3. QED
    BY <2>2
<1>7. Len(manifest.digest) = Total
  <2>1. manifest = Manifest /\ left = 0 /\ UploadTyped
    BY <1>1 DEF IInv, ManifestInv, Refused
  <2>2. Total = Len(sealed)
    BY <2>1, ManifestOfChunks DEF Total, Calm
  <2>3. manifest.digest = sealed
    BY <2>1 DEF Manifest, MakeManifest
  <2>4. QED
    BY <2>2, <2>3
<1>8. result' = "ok" /\ UNCHANGED <<worker, drainer, doneP, aborted>>
  <2>1. result' = Verdict(slots, nextToDrain, hashed) /\ UNCHANGED <<pool, drainer, doneP, aborted>>
    BY <1>6 DEF Finish
  <2>2. hashed = UpTo(0, Total)
    BY <1>5 DEF QuietInv
  <2>3. Verdict(slots, nextToDrain, hashed) = "ok"
    BY <1>5, <1>6, <1>7, <2>2 DEF Verdict
  <2>4. QED
    BY <2>1, <2>3 DEF pool
<1>9. QED
  BY <1>8 DEF QuietInv, ChunkInv, Busy, drainer

\* A manifest of an object cut into chunks is accepted, and nothing has come of it.
LEMMA CallCalm ==
  ASSUME IInv, CutInv, CalmInv, UNCHANGED upload, Download PROVE CalmInv'
<1>1. Untouched /\ Refused /\ UploadTyped /\ left = 0 /\ stored = Manifest /\ ~aborted
  BY DEF Download, IInv, Refused, UploadInv, CalmInv
<1>2. UNCHANGED <<drainer, aborted, source>>
  BY DEF Download, upload
<1>3. CASE ValidManifest(stored)
  <2> DEFINE k == IF parallel' < stored.totalChunks THEN parallel' ELSE stored.totalChunks
  <2>1. /\ result' = "pending"
        /\ worker' = [i \in Seqs |-> IF i < k THEN At("fetch") ELSE worker[i]]
        /\ doneP' \in {"resolved", doneP}
    BY <1>3 DEF Download
  <2> HIDE DEF k
  <2>2. \A i \in Seqs : worker'[i] \in {At("fetch"), At("none")}
    BY <1>1, <2>1 DEF Untouched
  <2>3. \A where \in {"fetch", "none"} : At(where).at = where /\ At(where).error = "none"
    BY DEF At
  <2>4. slots' = {} /\ nextToDrain' = 0 /\ ~Busy' /\ hashed' = <<>> /\ ~failing' /\ ~aborted'
    BY <1>1, <1>2 DEF Untouched, drainer, Busy
  <2>5. ASSUME NEW i \in Seqs PROVE ChunkInv(i)'
    <3>1. worker'[i].at \in {"fetch", "none"} /\ worker'[i].error = "none"
      BY <2>2, <2>3
    <3>2. i >= 0
      BY DEF Seqs
    <3>3. QED
      BY <2>4, <3>1, <3>2 DEF ChunkInv
  <2>6. UpTo(0, 0) = <<>>
    BY DEF UpTo
  <2>7. doneP' \in {"pending", "resolved"}
    BY <1>1, <2>1 DEF Untouched
  <2>8. QuietInv'
    BY <2>1, <2>4, <2>5, <2>6, <2>7 DEF QuietInv
  <2>9. QED
    BY <2>1, <2>4, <2>8 DEF CalmInv
<1>4. CASE ~ValidManifest(stored)
  <2>1. source # "bytes"
    BY <1>1, <1>4, ManifestOfChunks
  <2>2. QED
    BY <1>1, <1>2, <2>1 DEF CalmInv, Calm
<1>5. QED
  BY <1>3, <1>4

LEMMA DownloadCalm ==
  ASSUME IInv, SizeInv, CutInv, EndsInv, CountInv, CalmInv, DownloadNext,
         UNCHANGED upload
  PROVE  CalmInv'
<1>1. CASE Download
  BY <1>1, CallCalm
<1>2. ASSUME Working \/ WriteFails \/ ProgressThrows \/ Abort PROVE CalmInv'
  <2>1. ~Refused /\ ~Refused'
    BY <1>2, PoolGoesOn
  <2>2. UNCHANGED <<sink, source>>
    BY <1>2 DEF Working, DrainRejects, Finish, WriteDone, Fetch, FetchBreaks, Open, OpenFails,
                Settled, WriteFails, ProgressThrows, DrainFails, Abort, options, upload
  <2>3. faults' = faults \/ Fault
    BY <1>2 DEF Working, DrainRejects, Finish, WriteDone, Fetch, FetchBreaks, Open, OpenFails,
                Settled, WriteFails, ProgressThrows, DrainFails, Abort, DrainNow, DrainLater
  <2>4. ASSUME Calm' PROVE QuietInv'
    <3>1. faults' = 0 /\ faults = 0 /\ ~Fault /\ Calm /\ QuietInv
      BY <2>2, <2>3, <2>4, FaultCounts DEF Calm, EndsInv, CalmInv
    <3>2. ASSUME NEW i \in Seqs, FetchBreaks(i) PROVE QuietInv'
      BY <3>1, <3>2 DEF FetchBreaks, QuietInv
    <3>3. ASSUME NEW i \in Seqs, OpenFails(i) PROVE QuietInv'
      <4>1. DrainInv /\ PoolInv /\ worker[i].at = "open"
        BY <2>1, <3>3 DEF IInv, OpenFails
      <4>2. committed /\ i \in 0 .. Total - 1
        <5>1. Total \in Nat /\ i < Total /\ i \in Nat
          BY <4>1 DEF PoolInv, DrainInv, Seqs
        <5>2. QED
          BY <4>1, <5>1 DEF PoolInv
      <4>3. RangeIsPiece(i, manifest)
        BY <2>1, <3>1, <4>2, RangesAgree DEF Calm
      <4>4. QED
        BY <3>1, <3>3, <4>3 DEF OpenFails
    <3>4. CASE DrainRejects \/ WriteDone \/ WriteFails \/ ProgressThrows \/ Abort
      BY <3>1, <3>4 DEF DrainRejects, WriteDone, WriteFails, ProgressThrows, DrainFails, Abort,
                        QuietInv, Busy
    <3>5. QED
      BY <1>2, <3>1, <3>2, <3>3, <3>4, FetchCalm, OpenCalm, SettledCalm, FinishCalm DEF Working
  <2>5. QED
    BY <2>1, <2>4 DEF CalmInv, Refused
<1>3. QED
  BY <1>1, <1>2 DEF DownloadNext

----------------------------------------------------------------------------

\* The second invariant: how many workers there are and where
\* the chunks are.
THEOREM PoolInvariant == Spec => []PoolHolds
<1>1. Init => PoolHolds
  <2> SUFFICES ASSUME Init PROVE PoolHolds
    OBVIOUS
  <2>1. SizeInv /\ CutInv
    BY SourcesAreKnown DEF Init, UploadInit, SizeInv, CutInv
  <2>2. EndsInv
    <3>1. /\ uPc = "create" /\ attempt = 0 /\ committed = FALSE /\ faults = 0
          /\ draining = "no" /\ doneP = "pending" /\ result = "none"
      BY DEF Init, UploadInit, StoreInit, DownloadInit
    <3>2. 0 \in 0 .. Retries /\ 0 \in 0 .. MaxFaults
      BY BoundsAreNat
    <3>3. QED
      BY <3>1, <3>2 DEF EndsInv
  <2>3. \A i \in Seqs : worker[i] = At("none")
    BY DEF Init, DownloadInit
  <2>4. At("none").at = "none" /\ At("none").attempt = 0 /\ At("none").error = "none"
    BY DEF At
  <2>5. nextSeq = 0 /\ active = 0 /\ parallel = 0 /\ Refused /\ doneP = "pending"
        /\ result = "none" /\ sink = "none" /\ ~aborted
    BY DEF Init, DownloadInit, Refused
  <2>6. CountInv
    <3>1. Living(worker) = {}
      BY <2>3, <2>4 DEF Living
    <3>2. active = Cardinality(Living(worker))
      BY <2>5, <3>1, FS_EmptySet
    <3>3. \A i \in Seqs : ~(i < nextSeq) /\ worker[i].at = "none" /\ worker[i].attempt = 0
      BY <2>3, <2>4, <2>5 DEF Seqs
    <3>4. QED
      BY <2>5, <3>2, <3>3, BoundsAreNat DEF CountInv, PoolCount
  <2>7. CalmInv
    BY <2>5 DEF CalmInv, Calm
  <2>8. QED
    BY <2>1, <2>2, <2>6, <2>7 DEF PoolHolds
<1>2. IInv /\ PoolHolds /\ [Next]_vars => PoolHolds'
  <2> SUFFICES ASSUME IInv, PoolHolds, [Next]_vars PROVE PoolHolds'
    OBVIOUS
  <2>1. CASE UploadNext /\ UNCHANGED download
    <3>1. SizeInv' /\ CutInv'
      BY <2>1, CutNext DEF IInv, PoolHolds
    <3>2. EndsInv' /\ CalmInv'
      BY <2>1, UploadEnds, UploadCalm DEF PoolHolds
    <3>3. CountInv'
      BY <2>1 DEF PoolHolds, CountInv, PoolCount, Living, Refused, Total, download, options, pool
    <3>4. QED
      BY <3>1, <3>2, <3>3 DEF PoolHolds
  <2>2. CASE DownloadNext /\ UNCHANGED upload
    <3>1. SizeInv' /\ CutInv'
      BY <2>2 DEF PoolHolds, SizeInv, CutInv, upload
    <3>2. EndsInv' /\ CountInv' /\ CalmInv'
      BY <2>2, DownloadEnds, DownloadCounts, DownloadCalm DEF PoolHolds
    <3>3. QED
      BY <3>1, <3>2 DEF PoolHolds
  <2>3. CASE UNCHANGED vars
    <3>1. SizeInv' /\ CutInv'
      BY <2>3 DEF PoolHolds, SizeInv, CutInv, vars, upload
    <3>2. EndsInv'
      BY <2>3 DEF PoolHolds, EndsInv, vars, upload, store, download, drainer
    <3>3. CountInv'
      BY <2>3 DEF PoolHolds, CountInv, PoolCount, Living, Refused, Total, vars, download, options,
                  pool
    <3>4. CalmInv'
      BY <2>3 DEF PoolHolds, CalmInv, Calm, QuietInv, ChunkInv, Busy, Refused, vars, upload, download,
                  options, pool, drainer
    <3>5. QED
      BY <3>1, <3>2, <3>3, <3>4 DEF PoolHolds
  <2>4. QED
    BY <2>1, <2>2, <2>3 DEF Next
<1>3. QED
  BY <1>1, <1>2, CacheInvariant, PTL DEF Spec

\* Every state of the two functions is of the shape TypeOK gives.
THEOREM TypeCorrect == Spec => []TypeOK
<1>1. IInv /\ PoolHolds => TypeOK
  <2> SUFFICES ASSUME IInv, PoolHolds PROVE TypeOK
    OBVIOUS
  <2>1. EndsInv /\ CountInv /\ SizeInv /\ left \in Nat
    BY DEF PoolHolds, IInv, UploadTyped
  <2>2. ASSUME NEW i \in Seqs
        PROVE  /\ worker[i].at \in {"none", "fetch", "open", "ended", "gone"}
               /\ worker[i].attempt \in 0 .. Retries
               /\ worker[i].error \in DownloadCodes \cup {"none"}
    <3>1. CASE Refused
      BY <2>1, <3>1 DEF IInv, Untouched, At, CountInv, PoolCount
    <3>2. CASE ~Refused
      BY <2>1, <3>2 DEF IInv, PoolInv, Workers, CountInv, PoolCount
    <3>3. QED
      BY <3>1, <3>2
  <2>3. active \in 0 .. MaxChunks
    <3>1. Living(worker) \in SUBSET Seqs
      BY DEF Living
    <3>2. active = Cardinality(Living(worker))
      BY <2>1 DEF CountInv, PoolCount
    <3>3. QED
      BY <3>1, <3>2, SeqsAreFinite, MaxChunksIsNat
  <2>4. nextSeq \in 0 .. MaxChunks /\ slots \subseteq Seqs /\ nextToDrain \in 0 .. MaxChunks
    <3>1. CASE Refused
      BY <2>1, <3>1, MaxChunksIsNat DEF IInv, Untouched, CountInv
    <3>2. CASE ~Refused
      <4>1. Total \in Nat /\ Total <= MaxChunks /\ nextSeq \in Nat /\ nextSeq <= Total
        BY <2>1, <3>2, ObjectFits DEF CountInv, PoolCount
      <4>2. slots \subseteq 0 .. Total - 1 /\ nextToDrain \in 0 .. Total
        BY <3>2 DEF IInv, DrainInv
      <4>3. QED
        BY <4>1, <4>2, MaxChunksIsNat DEF Seqs
    <3>3. QED
      BY <3>1, <3>2
  <2>5. QED
    BY <2>1, <2>2, <2>3, <2>4 DEF EndsInv, TypeOK
<1>2. QED
  BY <1>1, CacheInvariant, PoolInvariant, PTL

\* downloadAndDecrypt never has more workers than the option parallel, counting those
\* whose promise has yet to settle, whatever fails and is aborted, and starts no chunk
\* twice.
THEOREM PoolBounded == Spec => []PoolCount
<1>1. PoolHolds => PoolCount
  BY DEF PoolHolds, CountInv
<1>2. QED
  BY <1>1, PoolInvariant, PTL

\* A download fails for a reason: uploadCiphertext and downloadAndDecrypt agree on
\* where each chunk lies, whatever the sizes, and the pool is done only when every
\* chunk is.
THEOREM FailureHasCause == Spec => []FailuresHaveCauses
<1>1. PoolHolds => FailuresHaveCauses
  BY DEF PoolHolds, CalmInv, Calm, QuietInv, FailuresHaveCauses
<1>2. QED
  BY <1>1, PoolInvariant, PTL

============================================================================
