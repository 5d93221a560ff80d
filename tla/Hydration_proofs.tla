-------------------------- MODULE Hydration_proofs --------------------------
(***************************************************************************)
(* What a setup imports and how it may fail, for dumps of any sizes and    *)
(* any number of kills, dropped connections and newer dumps.               *)
(*                                                                         *)
(* .part may be put together from several dumps.  The invariant says what  *)
(* it always is: either it begins a second time, or its n-th block is the  *)
(* n-th block of some dump - and then it is, with the rest of the          *)
(* response, as long as the dump that is being sent.                       *)
(***************************************************************************)
EXTENDS Hydration, TLAPS

\* Every block is at its place, from whichever dump.
Placed(file) == \A n \in 1..Len(file) : file[n][2] = n

\* It ends as the dump d does.
EndsAs(file, d) ==
    Placed(file) /\ Len(file) = Size[d] /\ file[Len(file)] = <<d, Size[d]>>

\* It is shorter than the dump of its last block.
Unfinished(file) == Len(file) < Size[file[Len(file)][1]]

\* While the response brings the rest of the dump d, or the whole of it again.
Resumes(d) ==
    /\ Len(body) <= Size[d]
    /\ \A n \in 1..Len(body) : body[n] = <<d, Size[d] - Len(body) + n>>
    /\ \/ Restarted(part)
       \/ Placed(part) /\ Len(part) + Len(body) = Size[d]
       \/ Len(part) > 0 /\ Len(body) = Size[d]
    /\ Len(body) = 0 => Restarted(part) \/ EndsAs(part, d)

WholeIn(blocks) == \E d \in Dumps : \A n \in 1..Size[d] : <<d, n>> \in blocks

FilesFine ==
    /\ dump \in Dumps
    /\ part \in Seq(Blocks) /\ gz \in Seq(Blocks)
    /\ json \in Seq(Blocks) /\ body \in Seq(Blocks)
    /\ Placed(part) \/ Restarted(part)
    /\ stage # "stream" => body = <<>>
    /\ stage = "stream" => \E d \in Dumps : Resumes(d)
    /\ Len(part) > 0 /\ (stage = "stream" => Len(body) > 0) =>
          orphan \/ Restarted(part) \/ Unfinished(part)
    /\ stage = "unzip" => Restarted(gz) \/ \E d \in Dumps : EndsAs(gz, d)

ImportFine ==
    /\ stage = "import" =>
          Unpacks(json) /\ \E d \in Dumps : DumpAt(json, 0, d) /\ done <= Size[d]
    /\ done \in Nat
    /\ stage = "import" => \A n \in 1..done : json[n] \in db \cup thin
    /\ db \subseteq Blocks /\ thin \subseteq Blocks
    /\ stage = "up" => interrupted \/ WholeIn(db \cup thin)
    /\ recent => stage = "import" \/ interrupted \/ WholeIn(db \cup thin)

FlagsFine ==
    /\ stage \in Stages
    /\ {recent, interrupted, orphan} \subseteq BOOLEAN
    /\ faults \in 0..MaxFaults

HydrationInv == FilesFine /\ ImportFine /\ FlagsFine

-----------------------------------------------------------------------------
LEMMA SizeIs ==
    /\ Len(Size) \in Nat \ {0} /\ Dumps = 1..Len(Size)
    /\ \A d \in Dumps : Size[d] \in Nat \ {0}
<1>1. Len(Size) \in Nat \ {0} /\ Dumps = 1..Len(Size)
  BY HydrationAssumption, SMT DEF Dumps
<1>2. \A d \in Dumps : Size[d] \in Nat \ {0}
  <2> DEFINE P == Nat \ {0}
  <2>1. Size \in Seq(P)
    BY HydrationAssumption
  <2> HIDE DEF P
  <2>2. \A d \in 1..Len(Size) : Size[d] \in P
    BY <2>1, SMT
  <2> QED
    BY <1>1, <2>2 DEF P
<1> QED
  BY <1>1, <1>2

LEMMA BlockIs ==
    ASSUME NEW b
    PROVE  b \in Blocks <=> \E d \in Dumps : \E n \in 1..Size[d] : b = <<d, n>>
  BY DEF Blocks

LEMMA FromIs ==
    ASSUME NEW d \in Dumps, NEW first \in Nat \ {0}, first <= Size[d]
    PROVE  /\ From(d, first) \in Seq(Blocks)
           /\ Len(From(d, first)) = Size[d] - first + 1
           /\ \A n \in 1..Len(From(d, first)) : From(d, first)[n] = <<d, first + n - 1>>
<1> DEFINE len == Size[d] - first + 1
<1>1. Size[d] \in Nat \ {0}
  BY SizeIs
<1>2. len \in Nat
  BY <1>1, SMT
<1>3. \A n \in 1..len : <<d, first + n - 1>> \in Blocks
  <2> SUFFICES ASSUME NEW n \in 1..len PROVE <<d, first + n - 1>> \in Blocks
    OBVIOUS
  <2>1. first + n - 1 \in 1..Size[d]
    BY <1>1, SMT
  <2> QED
    BY <2>1, BlockIs
<1>4. From(d, first) = [n \in 1..len |-> <<d, first + n - 1>>]
  BY DEF From
<1> DEFINE b(n) == <<d, first + n - 1>>
<1>5. From(d, first) = [n \in 1..len |-> b(n)] /\ \A n \in 1..len : b(n) \in Blocks
  BY <1>3, <1>4
<1> HIDE DEF b, len
<1>6. /\ From(d, first) \in Seq(Blocks) /\ Len(From(d, first)) = len
      /\ \A n \in 1..len : From(d, first)[n] = b(n)
  BY <1>2, <1>5, SMT
<1> QED
  BY <1>6 DEF b, len

\* A response: the dump d from a block on.
LEMMA ResponseIs ==
    ASSUME NEW d \in Dumps, NEW first \in Nat \ {0}, first <= Size[d]
    PROVE  LET r == From(d, first)
           IN  /\ r \in Seq(Blocks)
               /\ Len(r) = Size[d] - first + 1 /\ Len(r) \in Nat \ {0} /\ Len(r) <= Size[d]
               /\ \A n \in 1..Len(r) : r[n] = <<d, Size[d] - Len(r) + n>>
<1> DEFINE r == From(d, first)
           len == Len(r)
<1>1. Size[d] \in Nat \ {0}
  BY SizeIs
<1>2. r \in Seq(Blocks) /\ len = Size[d] - first + 1
      /\ \A n \in 1..len : r[n] = <<d, first + n - 1>>
  BY FromIs
<1>3. len \in Nat \ {0} /\ len <= Size[d]
  <2> HIDE DEF len
  <2> QED
    BY <1>1, <1>2, SMT
<1>4. \A n \in 1..len : first + n - 1 = Size[d] - len + n
  <2> HIDE DEF len
  <2> QED
    BY <1>1, <1>2, SMT
<1> QED
  BY <1>2, <1>3, <1>4

-----------------------------------------------------------------------------
(***************************************************************************)
(* What gzip and ijson make of a file.                                     *)
(***************************************************************************)

\* A file that ends as a dump does unpacks, or is a mixture.
LEMMA EndsAsUnpacks ==
    ASSUME NEW file \in Seq(Blocks), NEW d \in Dumps, EndsAs(file, d), ~Mixed(file)
    PROVE  Unpacks(file)
<1>1. Size[d] \in Nat \ {0} /\ Len(file) = Size[d]
  BY SizeIs DEF EndsAs
<1>2. DOMAIN file = 1..Size[d] /\ Len(file) \in 1..Size[d]
  BY <1>1, SMT
<1>3. \A n \in 1..Size[d] : file[n][1] = d
  BY <1>2 DEF Mixed, EndsAs
<1>4. \A n \in 1..Size[d] : file[n] = <<d, n>>
  <2> SUFFICES ASSUME NEW n \in 1..Size[d] PROVE file[n] = <<d, n>>
    OBVIOUS
  <2>1. file[n] \in Blocks
    BY <1>1, SMT
  <2>2. file[n][2] = n /\ file[n][1] = d
    BY <1>1, <1>3 DEF EndsAs, Placed
  <2>3. PICK e, m : file[n] = <<e, m>>
    BY <2>1, BlockIs
  <2> QED
    BY <2>2, <2>3
<1>5. DumpAt(file, 0, d)
  <2>1. 0 + Size[d] <= Len(file) /\ 0 >= 0 /\ \A n \in 1..Size[d] : 0 + n = n
    BY <1>1, SMT
  <2> QED
    BY <1>4, <2>1 DEF DumpAt
<1>6. \A n \in 1..Size[d] : n - n = 0
  BY <1>1, SMT
<1> QED
  BY <1>2, <1>4, <1>5, <1>6 DEF Unpacks

\* A file that unpacks begins with a whole dump.
LEMMA BeginsWhole ==
    ASSUME NEW file \in Seq(Blocks), Len(file) > 0, Unpacks(file)
    PROVE  \E d \in Dumps : DumpAt(file, 0, d)
<1>1. 1 \in DOMAIN file /\ file[1] \in Blocks
  BY SMT
<1>2. PICK d \in Dumps : \E m \in 1..Size[d] : file[1] = <<d, m>>
  BY <1>1, BlockIs
<1>2a. PICK k \in 1..Size[d] : file[1] = <<d, k>>
  BY <1>2
<1>3. DumpAt(file, 1 - k, d)
  BY <1>1, <1>2a DEF Unpacks
<1>4. 1 - k >= 0
  BY <1>3 DEF DumpAt
<1>5. k \in Int /\ k >= 1
  BY SizeIs, SMT
<1>6. 1 - k = 0
  BY <1>4, <1>5, SMT
<1> QED
  BY <1>3, <1>6

\* Behind its first dump it ends, or begins again.
LEMMA ThenBeginsAgain ==
    ASSUME NEW file \in Seq(Blocks), Unpacks(file),
           NEW d \in Dumps, DumpAt(file, 0, d), Size[d] < Len(file)
    PROVE  file[Size[d] + 1][2] = 1
<1> DEFINE n == Size[d] + 1
<1>1. Size[d] \in Nat \ {0}
  BY SizeIs
<1>2. n \in DOMAIN file /\ file[n] \in Blocks
  BY <1>1, SMT
<1>3. PICK e \in Dumps : \E m \in 1..Size[e] : file[n] = <<e, m>>
  BY <1>2, BlockIs
<1>3a. PICK k \in 1..Size[e] : file[n] = <<e, k>>
  BY <1>3
<1>4. Size[e] \in Nat \ {0}
  BY SizeIs
<1>5. k \in Nat \ {0} /\ k <= Size[e] /\ 1 \in 1..Size[e]
  BY <1>4, SMT
<1> DEFINE s == n - k
<1>6. DumpAt(file, s, e)
  BY <1>2, <1>3a DEF Unpacks
<1>7. s >= 0 /\ file[s + 1] = <<e, 1>>
  BY <1>5, <1>6 DEF DumpAt
<1>8. s \in Int
  BY <1>1, <1>5, SMT
<1>9. CASE s < Size[d]
  <2>1. s + 1 \in 1..Size[d] /\ 0 + (s + 1) = s + 1
    BY <1>1, <1>7, <1>8, <1>9, SMT
  <2>2. file[s + 1] = <<d, s + 1>>
    BY <2>1 DEF DumpAt
  <2>3. d = e /\ s + 1 = 1
    BY <1>7, <2>2
  <2>4. k = Size[d] + 1
    BY <1>1, <1>5, <1>8, <2>3, SMT
  <2> QED
    BY <1>1, <1>5, <2>3, <2>4, SMT
<1>10. CASE s >= Size[d]
  <2>1. k = 1
    BY <1>1, <1>5, <1>10, SMT
  <2> QED
    BY <1>3a, <2>1
<1> QED
  BY <1>1, <1>8, <1>9, <1>10, SMT

LEMMA PrefixIs ==
    ASSUME NEW file \in Seq(Blocks), NEW p \in Prefixes(file)
    PROVE  p \in Seq(Blocks)
<1>1. PICK n \in 0..Len(file) : p = SubSeq(file, 1, n)
  BY DEF Prefixes
<1> QED
  BY <1>1, SMT

-----------------------------------------------------------------------------
(***************************************************************************)
(* The files.                                                              *)
(***************************************************************************)
LEMMA RequestFiles == ASSUME HydrationInv, Request PROVE FilesFine'
<1>1. /\ UNCHANGED <<dump, part, gz, json, orphan>> /\ stage' = "stream" /\ stage = "request"
      /\ \/ Len(part) < Size[dump] /\ body' = From(dump, Len(part) + 1)
         \/ body' = From(dump, 1)
  BY DEF Request, first_byte, files, Content
<1>2. dump \in Dumps /\ Size[dump] \in Nat \ {0} /\ Len(part) \in Nat /\ FilesFine
  BY SizeIs, SMT DEF HydrationInv, FilesFine
<1> DEFINE len == Len(part)
<1>3. PICK first \in Nat \ {0} :
         /\ first <= Size[dump] /\ body' = From(dump, first)
         /\ first = len + 1 \/ first = 1
  <2>1. CASE len < Size[dump] /\ body' = From(dump, len + 1)
    <3>1. len + 1 \in Nat \ {0} /\ len + 1 <= Size[dump]
      BY <1>2, <2>1, SMT
    <3> QED
      BY <2>1, <3>1
  <2>2. CASE body' = From(dump, 1)
    <3>1. 1 \in Nat \ {0} /\ 1 <= Size[dump]
      BY <1>2, SMT
    <3> QED
      BY <2>2, <3>1
  <2> QED
    BY <1>1, <2>1, <2>2
<1> DEFINE got == Len(body')
<1>4. /\ body' \in Seq(Blocks) /\ got \in Nat \ {0} /\ got <= Size[dump]
      /\ got = Size[dump] - first + 1
      /\ \A n \in 1..got : body'[n] = <<dump, Size[dump] - got + n>>
  BY <1>2, <1>3, ResponseIs
<1>5. len + got = Size[dump] \/ (len > 0 /\ got = Size[dump])
  <2> HIDE DEF len, got
  <2>1. len \in Nat
    BY <1>2 DEF len
  <2>2. first \in Nat \ {0} /\ (first = len + 1 \/ first = 1) /\ Size[dump] \in Nat \ {0}
    BY <1>2, <1>3
  <2>3. got = Size[dump] - first + 1
    BY <1>4
  <2> QED
    BY <2>1, <2>2, <2>3, SMT
<1>6. got # 0 /\ got > 0
  <2> HIDE DEF got
  <2> QED
    BY <1>4, SMT
<1>7. Resumes(dump)'
  BY <1>1, <1>2, <1>4, <1>5, <1>6 DEF Resumes, FilesFine, Placed, Restarted, EndsAs
<1> QED
  BY <1>1, <1>2, <1>4, <1>6, <1>7 DEF FilesFine, Placed, Restarted, Unfinished

LEMMA ReceiveFiles == ASSUME HydrationInv, ReceiveChunk PROVE FilesFine'
<1>1. /\ UNCHANGED <<dump, gz, json, stage, orphan>> /\ stage = "stream"
      /\ body # <<>> /\ part' = Append(part, Head(body)) /\ body' = Tail(body)
  BY DEF ReceiveChunk
<1>2. PICK d \in Dumps : Resumes(d)
  BY <1>1 DEF HydrationInv, FilesFine
<1>3. /\ part \in Seq(Blocks) /\ body \in Seq(Blocks) /\ Size[d] \in Nat \ {0}
      /\ Placed(part) \/ Restarted(part)
      /\ Len(body) <= Size[d]
      /\ \A n \in 1..Len(body) : body[n] = <<d, Size[d] - Len(body) + n>>
      /\ \/ Restarted(part)
         \/ Placed(part) /\ Len(part) + Len(body) = Size[d]
         \/ Len(part) > 0 /\ Len(body) = Size[d]
  BY <1>2, SizeIs DEF HydrationInv, FilesFine, Resumes
<1> DEFINE p == Len(part)
           b == Len(body)
<1>4. /\ body' \in Seq(Blocks) /\ part' \in Seq(Blocks) /\ p \in Nat
      /\ Len(part') = p + 1 /\ Len(body') = b - 1 /\ b \in Nat \ {0}
      /\ \A n \in 1..p : part'[n] = part[n]
      /\ part'[p + 1] = body[1] /\ 1 \in 1..b
      /\ \A n \in 1..Len(body') : body'[n] = body[n + 1] /\ n + 1 \in 1..b
      /\ DOMAIN part = 1..p /\ DOMAIN part' = 1..(p + 1)
  BY <1>1, <1>3, SMT
<1>5. body[1] = <<d, Size[d] - b + 1>>
  BY <1>3, <1>4
<1> HIDE DEF p, b
<1>6. p \in Nat /\ b \in Nat \ {0} /\ b <= Size[d] /\ Size[d] \in Nat \ {0}
  BY <1>3, <1>4 DEF b
<1>7. Restarted(part) => Restarted(part')
  <2> SUFFICES ASSUME NEW n \in 1..p, n > 1, part[n][2] = 1 PROVE Restarted(part')
    BY <1>4 DEF Restarted
  <2>1. n \in 1..(p + 1)
    BY <1>6, SMT
  <2> QED
    BY <1>4, <2>1 DEF Restarted
<1>8. p > 0 /\ b = Size[d] => Restarted(part')
  <2> SUFFICES ASSUME p > 0, b = Size[d] PROVE Restarted(part')
    OBVIOUS
  <2>1. Size[d] - b + 1 = 1 /\ p + 1 > 1 /\ p + 1 \in 1..(p + 1)
    BY <1>6, SMT
  <2>2. part'[p + 1][2] = 1
    BY <1>4, <1>5, <2>1
  <2> QED
    BY <1>4, <2>1, <2>2 DEF Restarted
<1>9. Placed(part) /\ p + b = Size[d] => Placed(part') /\ Len(part') + Len(body') = Size[d]
  <2> SUFFICES ASSUME Placed(part), p + b = Size[d]
               PROVE  Placed(part') /\ Len(part') + Len(body') = Size[d]
    OBVIOUS
  <2>1. \A n \in 1..(p + 1) : n = p + 1 \/ n \in 1..p
    BY <1>6, SMT
  <2>2. \A n \in 1..p : part'[n][2] = n
    BY <1>4 DEF Placed, p
  <2>3. Size[d] - b + 1 = p + 1 /\ (p + 1) + (b - 1) = Size[d]
    BY <1>6, SMT
  <2>4. part'[p + 1][2] = p + 1
    BY <1>4, <1>5, <2>3
  <2>5. \A n \in 1..(p + 1) : part'[n][2] = n
    BY <2>1, <2>2, <2>4
  <2> QED
    BY <1>4, <2>3, <2>5 DEF Placed
<1>10. Restarted(part') \/ (Placed(part') /\ Len(part') + Len(body') = Size[d])
  BY <1>3, <1>7, <1>8, <1>9 DEF p, b
<1>11. Len(body') <= Size[d] /\ Len(body') \in Nat
  BY <1>4, <1>6, SMT
<1>12. \A n \in 1..Len(body') : body'[n] = <<d, Size[d] - Len(body') + n>>
  <2> SUFFICES ASSUME NEW n \in 1..Len(body') PROVE body'[n] = <<d, Size[d] - Len(body') + n>>
    OBVIOUS
  <2>1. body'[n] = <<d, Size[d] - b + (n + 1)>>
    BY <1>3, <1>4 DEF b
  <2>2. Size[d] - b + (n + 1) = Size[d] - (b - 1) + n
    BY <1>6, <1>11, SMT
  <2> QED
    BY <1>4, <2>1, <2>2
<1>13. part'[Len(part')] = <<d, Size[d] - Len(body')>>
  <2>1. Size[d] - b + 1 = Size[d] - (b - 1)
    BY <1>6, SMT
  <2> QED
    BY <1>4, <1>5, <2>1
<1>14. Len(body') = 0 => Restarted(part') \/ EndsAs(part', d)
  <2> SUFFICES ASSUME Len(body') = 0, ~Restarted(part') PROVE EndsAs(part', d)
    OBVIOUS
  <2>1. Placed(part') /\ Len(part') + 0 = Size[d]
    BY <1>10
  <2>2. Len(part') = Size[d] /\ Size[d] - 0 = Size[d]
    BY <1>4, <1>6, <2>1, SMT
  <2> QED
    BY <1>13, <2>1, <2>2 DEF EndsAs
<1>15. Len(body') > 0 => Restarted(part') \/ Unfinished(part')
  <2> SUFFICES ASSUME Len(body') > 0, ~Restarted(part') PROVE Unfinished(part')
    OBVIOUS
  <2>1. Len(part') + Len(body') = Size[d]
    BY <1>10
  <2>2. Len(part') < Size[d]
    BY <1>4, <1>6, <1>11, <2>1, SMT
  <2>3. part'[Len(part')][1] = d
    BY <1>13
  <2> QED
    BY <2>2, <2>3 DEF Unfinished
<1>16. Resumes(d)'
  BY <1>10, <1>11, <1>12, <1>14 DEF Resumes, Restarted, Placed, EndsAs
<1>17. /\ (Placed(part) \/ Restarted(part))'
       /\ (Len(body) > 0 => Restarted(part) \/ Unfinished(part))'
  BY <1>10, <1>15 DEF Restarted, Placed, Unfinished
<1> QED
  BY <1>1, <1>2, <1>4, <1>16, <1>17 DEF HydrationInv, FilesFine

LEMMA FilesStep == HydrationInv /\ [HydrationNext]_vars => FilesFine'
<1> SUFFICES ASSUME HydrationInv, [HydrationNext]_vars PROVE FilesFine'
  OBVIOUS
<1> USE DEF files
<1>1. <<>> \in Seq(Blocks) /\ Placed(<<>>) /\ Len(<<>>) = 0 /\ ~(0 > 0)
  BY SMT DEF Placed
<1>2. CASE Request
  BY <1>2, RequestFiles
<1>3. CASE ReceiveChunk
  BY <1>3, ReceiveFiles
<1>4. CASE MoveToFinalName
  <2>1. /\ gz' = part /\ part' = <<>> /\ body' = <<>> /\ stage' = "unzip"
        /\ UNCHANGED <<dump, json>> /\ stage = "stream" /\ body = <<>>
    BY <1>4 DEF MoveToFinalName, PartAfterMove
  <2>2. PICK d \in Dumps : Restarted(part) \/ EndsAs(part, d)
    BY <1>1, <2>1 DEF HydrationInv, FilesFine, Resumes
  <2>3. (Restarted(gz) \/ EndsAs(gz, d))'
    BY <2>1, <2>2 DEF EndsAs, Placed, Restarted
  <2>4. ~(Len(part') > 0)
    BY <1>1, <2>1
  <2> QED
    BY <1>1, <2>1, <2>3, <2>4 DEF HydrationInv, FilesFine, Placed
<1>5. CASE UngzipFails
  <2>1. json' \in Seq(Blocks)
    BY <1>5, PrefixIs DEF UngzipFails, HydrationInv, FilesFine
  <2> QED
    BY <1>5, <2>1 DEF UngzipFails, AfterFailedStep, HydrationInv, FilesFine, Placed,
                      Restarted, Unfinished
<1>6. CASE Kill
  <2>1. json' \in Seq(Blocks)
    BY <1>6, PrefixIs DEF Kill, HydrationInv, FilesFine
  <2>2. /\ UNCHANGED <<dump, part, gz>> /\ stage' = "down" /\ body' = <<>>
        /\ orphan' = (orphan \/ (stage = "stream" /\ body = <<>>))
    BY <1>6 DEF Kill
  <2>3. Len(part) > 0 => orphan' \/ Restarted(part) \/ Unfinished(part)
    <3>1. body = <<>> \/ Len(body) > 0
      BY SMT DEF HydrationInv, FilesFine
    <3> QED
      BY <2>2, <3>1 DEF HydrationInv, FilesFine
  <2> QED
    BY <1>1, <2>1, <2>2, <2>3 DEF HydrationInv, FilesFine, Placed, Restarted, Unfinished
<1>7. CASE Ungzip
  BY <1>1, <1>7 DEF Ungzip, HydrationInv, FilesFine, Placed, Restarted, Unfinished
<1>8. CASE ConnectionFails
  <2>1. /\ UNCHANGED <<dump, part, gz, json, orphan>> /\ stage' = "down" /\ body' = <<>>
        /\ body # <<>> \/ stage = "request"
    BY <1>8 DEF ConnectionFails
  <2>2. body = <<>> \/ Len(body) > 0
    BY SMT DEF HydrationInv, FilesFine
  <2>3. Len(part) > 0 => orphan \/ Restarted(part) \/ Unfinished(part)
    BY <2>1, <2>2 DEF HydrationInv, FilesFine
  <2> QED
    BY <1>1, <2>1, <2>3 DEF HydrationInv, FilesFine, Placed, Restarted, Unfinished
<1>9. CASE PublishDump
  <2>1. dump' \in Dumps
    BY <1>9, SizeIs, SMT DEF PublishDump, HydrationInv, FilesFine
  <2> QED
    BY <1>9, <2>1 DEF PublishDump, HydrationInv, FilesFine, Placed, Resumes, EndsAs,
                      Restarted, Unfinished
<1>10. ASSUME UNCHANGED <<dump, part, gz, json, body, orphan>>,
              stage' = stage \/ (stage' \notin {"stream", "unzip"} /\ stage # "stream")
       PROVE  FilesFine'
  BY <1>10 DEF HydrationInv, FilesFine, Placed, Resumes, EndsAs, Restarted, Unfinished
<1>11. CASE \/ Up \/ Down \/ SkipImport \/ Hydrate \/ RangeNotSatisfiable
            \/ ImportBlock \/ FinishImport \/ SecondDump \/ ImportRaises \/ DayPasses
            \/ Listen \/ UNCHANGED vars
  BY <1>10, <1>11 DEF Up, Down, SkipImport, Hydrate, RangeNotSatisfiable, ImportBlock,
                      FinishImport, SecondDump, ImportRaises, DayPasses, Listen, vars
<1> QED
  BY <1>2, <1>3, <1>4, <1>5, <1>6, <1>7, <1>8, <1>9, <1>11
     DEF HydrationNext, Setup, Download

-----------------------------------------------------------------------------
(***************************************************************************)
(* The import.                                                             *)
(***************************************************************************)

\* The first dump of the file has been handed over when the whole file has.
LEMMA HandedOver ==
    ASSUME NEW d \in Dumps, DumpAt(json, 0, d), done <= Size[d], done = Len(json),
           json \in Seq(Blocks), \A n \in 1..done : json[n] \in db \cup thin
    PROVE  WholeIn(db \cup thin)
<1>1. /\ Size[d] \in Nat \ {0} /\ 0 + Size[d] <= Len(json)
      /\ \A n \in 1..Size[d] : json[0 + n] = <<d, n>>
  BY SizeIs DEF DumpAt
<1>2. Len(json) = Size[d] /\ \A n \in 1..Size[d] : 0 + n = n
  BY <1>1, SMT
<1> QED
  BY <1>1, <1>2 DEF WholeIn

LEMMA ImportStep == HydrationInv /\ [HydrationNext]_vars => ImportFine'
<1> SUFFICES ASSUME HydrationInv, [HydrationNext]_vars PROVE ImportFine'
  OBVIOUS
<1> USE DEF files, stored
<1>1. json \in Seq(Blocks) /\ ImportFine
  BY DEF HydrationInv, FilesFine
<1>2. CASE ImportBlock
  <2>1. /\ stage = "import" /\ done < Len(json) /\ done' = done + 1
        /\ done > 0 => json[done + 1][2] # 1
        /\ db' \subseteq db \cup {json[done + 1]} /\ thin' \subseteq thin \cup {json[done + 1]}
        /\ (db \cup thin) \cup {json[done + 1]} \subseteq db' \cup thin'
        /\ UNCHANGED <<json, stage, interrupted>>
    BY <1>2 DEF ImportBlock
  <2>2. done \in Nat /\ done' \in Nat /\ json[done + 1] \in Blocks
    BY <1>1, <2>1, SMT DEF ImportFine
  <2>3. \A n \in 1..done' : n = done + 1 \/ n \in 1..done
    BY <2>1, <2>2, SMT
  <2>4. \A n \in 1..done' : json'[n] \in db' \cup thin'
    BY <1>1, <2>1, <2>3 DEF ImportFine
  <2>5. PICK d \in Dumps : DumpAt(json, 0, d) /\ done <= Size[d]
    BY <1>1, <2>1 DEF ImportFine
  <2>6. done' <= Size[d]
    <3>1. Size[d] \in Nat \ {0}
      BY SizeIs
    <3>2. CASE done = Size[d]
      <4>1. Size[d] < Len(json) /\ done > 0
        BY <2>1, <3>1, <3>2, SMT
      <4>2. json[done + 1][2] = 1
        BY <1>1, <2>1, <2>5, <3>2, <4>1, ThenBeginsAgain DEF ImportFine
      <4> QED
        BY <2>1, <4>1, <4>2
    <3>3. CASE done # Size[d]
      BY <2>1, <2>2, <2>5, <3>1, <3>3, SMT
    <3> QED
      BY <3>2, <3>3
  <2>7. Unpacks(json)' /\ DumpAt(json, 0, d)' /\ stage' # "up" /\ stage' = "import"
    BY <1>1, <2>1, <2>5 DEF ImportFine, Unpacks, DumpAt
  <2> QED
    BY <1>1, <2>1, <2>2, <2>4, <2>6, <2>7 DEF ImportFine
<1>3. CASE FinishImport
  <2>1. WholeIn(db \cup thin)
    BY <1>1, <1>3, HandedOver DEF FinishImport, ImportFine
  <2> QED
    BY <1>1, <1>3, <2>1 DEF FinishImport, ImportFine, WholeIn
<1>4. CASE Ungzip
  <2>1. /\ stage = "unzip" /\ Unpacks(gz) /\ json' = gz /\ stage' = "import" /\ done' = 0
        /\ UNCHANGED <<db, thin, recent, interrupted>> /\ gz \in Seq(Blocks)
    BY <1>4 DEF Ungzip, HydrationInv, FilesFine
  <2>2. Len(gz) > 0
    <3>1. CASE Restarted(gz)
      BY <2>1, <3>1, SMT DEF Restarted
    <3>2. ASSUME NEW d \in Dumps, EndsAs(gz, d) PROVE Len(gz) > 0
      <4>1. Len(gz) = Size[d] /\ Size[d] \in Nat \ {0}
        BY <3>2, SizeIs DEF EndsAs
      <4> QED
        BY <4>1, SMT
    <3> QED
      BY <2>1, <3>1, <3>2 DEF HydrationInv, FilesFine
  <2>3. PICK d \in Dumps : DumpAt(gz, 0, d)
    BY <2>1, <2>2, BeginsWhole
  <2>4. 1..0 = {} /\ 0 \in Nat /\ 0 <= Size[d]
    BY SizeIs, SMT
  <2>5. Unpacks(json)' /\ DumpAt(json, 0, d)'
    BY <2>1, <2>3 DEF Unpacks, DumpAt
  <2> QED
    BY <1>1, <2>1, <2>4, <2>5 DEF ImportFine, WholeIn
<1>5. CASE Kill \/ ImportRaises \/ SecondDump
  <2>1. /\ interrupted => interrupted'
        /\ stage = "import" => interrupted'
        /\ stage' = "down" /\ UNCHANGED <<done, db, thin, recent>>
    BY <1>5 DEF Kill, ImportRaises, SecondDump
  <2> QED
    BY <1>1, <2>1 DEF ImportFine, WholeIn
<1>6. CASE Listen
  BY <1>1, <1>6 DEF Listen, ImportFine, WholeIn
<1>7. ASSUME UNCHANGED <<json, done, db, thin, interrupted>>
               \/ (UNCHANGED <<done, db, thin, interrupted>> /\ stage' # "import"),
             recent' => recent,
             stage' = stage \/ (stage # "import" /\ stage' \notin {"import", "up"})
                            \/ (stage # "import" /\ stage' = "up" /\ recent)
      PROVE  ImportFine'
  <2>1. stage' = "import" => stage = "import" /\ UNCHANGED <<json, done>>
    BY <1>7
  <2>2. stage' = "import" =>
          Unpacks(json)' /\ \E d \in Dumps : DumpAt(json', 0, d) /\ done' <= Size[d]
    BY <1>1, <2>1 DEF ImportFine, Unpacks, DumpAt
  <2>3. UNCHANGED <<done, db, thin, interrupted>>
    BY <1>7
  <2>4. stage' = "up" => interrupted' \/ WholeIn(db \cup thin)
    BY <1>1, <1>7, <2>3 DEF ImportFine
  <2>5. recent' => stage' = "import" \/ interrupted' \/ WholeIn(db \cup thin)
    BY <1>1, <1>7, <2>3 DEF ImportFine
  <2> QED
    BY <1>1, <2>1, <2>2, <2>3, <2>4, <2>5 DEF ImportFine, WholeIn, DumpAt
<1>8. CASE \/ Up \/ Down \/ SkipImport \/ Hydrate \/ Download \/ UngzipFails \/ ConnectionFails
           \/ PublishDump \/ DayPasses \/ UNCHANGED vars
  BY <1>7, <1>8 DEF Up, Down, SkipImport, Hydrated, Hydrate, Download, Request,
        RangeNotSatisfiable, ReceiveChunk, MoveToFinalName, UngzipFails, AfterFailedStep,
        ConnectionFails, PublishDump, DayPasses, vars
<1> QED
  BY <1>2, <1>3, <1>4, <1>5, <1>6, <1>8 DEF HydrationNext, Setup

LEMMA FlagsStep == HydrationInv /\ [HydrationNext]_vars => FlagsFine'
<1> SUFFICES ASSUME HydrationInv, [HydrationNext]_vars PROVE FlagsFine'
  OBVIOUS
<1>1. /\ stage' = stage \/ stage' \in Stages
      /\ recent' \in {recent, TRUE, FALSE}
      /\ interrupted' \in {interrupted, TRUE, interrupted \/ stage = "import"}
      /\ orphan' \in {orphan, FALSE, orphan \/ (stage = "stream" /\ body = <<>>)}
      /\ faults' = faults \/ Fault
  BY DEF HydrationNext, Setup, Up, Down, SkipImport, Hydrate, Download, Request,
        RangeNotSatisfiable, ReceiveChunk, MoveToFinalName, Ungzip, UngzipFails, AfterFailedStep,
        ConnectionFails, ImportBlock, FinishImport, SecondDump, ImportRaises, Kill, PublishDump,
        DayPasses, Listen, vars, Stages
<1>2. faults' \in 0..MaxFaults
  BY <1>1, HydrationAssumption, SMT DEF Fault, HydrationInv, FlagsFine
<1> QED
  BY <1>1, <1>2 DEF HydrationInv, FlagsFine

-----------------------------------------------------------------------------
THEOREM HydrationInvStart == HydrationInit => HydrationInv
<1> SUFFICES ASSUME HydrationInit PROVE HydrationInv
  OBVIOUS
<1>1. 1 \in Dumps /\ 0 \in 0..MaxFaults
  BY SizeIs, HydrationAssumption, SMT
<1>2. Placed(<<>>) /\ <<>> \in Seq(Blocks) /\ ~(Len(<<>>) > 0)
  BY SMT DEF Placed
<1> QED
  BY <1>1, <1>2 DEF HydrationInit, HydrationInv, FilesFine, ImportFine, FlagsFine, Stages

THEOREM HydrationInvStep == HydrationInv /\ [HydrationNext]_vars => HydrationInv'
  BY FilesStep, ImportStep, FlagsStep DEF HydrationInv

THEOREM HydrationInvAlways == HydrationSpec => []HydrationInv
  BY HydrationInvStart, HydrationInvStep, PTL DEF HydrationSpec

\* The files hold blocks of dumps, and what is imported is in the database.
THEOREM HydrationTypeCorrect == HydrationSpec => []HydrationTypeOK
<1>1. HydrationInv => HydrationTypeOK
  <2> SUFFICES ASSUME HydrationInv PROVE HydrationTypeOK
    OBVIOUS
  <2>1. stage = "import" => done <= Len(json)
    <3> SUFFICES ASSUME stage = "import" PROVE done <= Len(json)
      OBVIOUS
    <3>1. PICK d \in Dumps : DumpAt(json, 0, d) /\ done <= Size[d]
      BY DEF HydrationInv, ImportFine
    <3>2. 0 + Size[d] <= Len(json) /\ Size[d] \in Nat /\ Len(json) \in Nat /\ done \in Nat
      BY <3>1, SizeIs, SMT DEF DumpAt, HydrationInv, ImportFine, FilesFine
    <3> QED
      BY <3>1, <3>2, SMT
  <2> QED
    BY <2>1 DEF HydrationInv, FilesFine, ImportFine, FlagsFine, HydrationTypeOK
<1> QED
  BY <1>1, HydrationInvAlways, PTL

\* What is handed to the database are the blocks of one dump, from a file that
\* begins with the whole of it.
THEOREM ImportsWholeDumpsCorrect == HydrationSpec => []ImportsWholeDumps
<1>1. HydrationInv => ImportsWholeDumps
  BY DEF HydrationInv, ImportFine, ImportsWholeDumps
<1> QED
  BY <1>1, HydrationInvAlways, PTL

\* The services start only after every block of some dump was imported, whole or
\* with the parts missing that the log names, or after an interrupted import.
THEOREM UpAfterWholeImportCorrect == HydrationSpec => []UpAfterWholeImport
<1>1. HydrationInv => UpAfterWholeImport
  BY DEF HydrationInv, ImportFine, WholeIn, UpAfterWholeImport
<1> QED
  BY <1>1, HydrationInvAlways, PTL

\* A setup that meets no fault fails only for what an earlier one has left in
\* .part: a file that has nothing behind it, bytes of an older dump, or a beginning
\* before the one that was sent again.
THEOREM FailsOnlyForLeftoversCorrect == HydrationSpec => FailsOnlyForLeftovers
<1> DEFINE excuse ==
          \/ stage = "request" /\ NothingBehind
          \/ stage = "unzip" /\ (Mixed(gz) \/ Restarted(gz))
          \/ stage = "import" /\ Restarted(json)
<1> DEFINE excused ==
      stage \notin {"down", "up"} /\ stage' = "down" /\ faults' = faults => excuse
<1>1. HydrationInv /\ [HydrationNext]_vars => excused
  <2> SUFFICES ASSUME HydrationInv, [HydrationNext]_vars,
                      stage \notin {"down", "up"}, stage' = "down", faults' = faults
               PROVE  excuse
    OBVIOUS
  <2>1. faults \in Nat
    BY HydrationAssumption, SMT DEF HydrationInv, FlagsFine
  <2>2. ~Fault
    BY <2>1, SMT DEF Fault
  <2>3. RangeNotSatisfiable \/ UngzipFails \/ SecondDump
    BY <2>2 DEF HydrationNext, Setup, Up, Down, SkipImport, Hydrate, Download, Request,
        ReceiveChunk, MoveToFinalName, Ungzip, ConnectionFails, ImportBlock, FinishImport,
        ImportRaises, Kill, PublishDump, DayPasses, Listen, vars
  <2>4. CASE RangeNotSatisfiable
    <3>1. stage = "request" /\ Len(part) >= Size[dump]
      BY <2>4 DEF RangeNotSatisfiable, first_byte
    <3>2. Size[dump] \in Nat \ {0} /\ part \in Seq(Blocks)
      BY SizeIs DEF HydrationInv, FilesFine
    <3>3. Len(part) \in Nat /\ Len(part) > 0 /\ Len(part) \in DOMAIN part
          /\ part[Len(part)] \in Blocks
      BY <3>1, <3>2, SMT
    <3>4. orphan \/ Restarted(part) \/ Unfinished(part)
      BY <3>1, <3>3 DEF HydrationInv, FilesFine
    <3>5. ASSUME Unfinished(part)
          PROVE  \E n \in DOMAIN part : Size[part[n][1]] > Size[dump]
      <4>1. PICK e \in Dumps : \E k \in 1..Size[e] : part[Len(part)] = <<e, k>>
        BY <3>3, BlockIs
      <4>2. Len(part) < Size[e] /\ Size[e] \in Nat /\ part[Len(part)][1] = e
        BY <3>5, <4>1, SizeIs DEF Unfinished
      <4>3. Size[e] > Size[dump]
        BY <3>1, <3>2, <3>3, <4>2, SMT
      <4> QED
        BY <3>3, <4>2, <4>3
    <3> QED
      BY <3>1, <3>4, <3>5 DEF NothingBehind
  <2>5. CASE UngzipFails
    <3>1. stage = "unzip" /\ gz \in Seq(Blocks) /\ ~Unpacks(gz)
      BY <2>5 DEF UngzipFails, HydrationInv, FilesFine
    <3>2. Restarted(gz) \/ \E d \in Dumps : EndsAs(gz, d)
      BY <3>1 DEF HydrationInv, FilesFine
    <3> QED
      BY <3>1, <3>2, EndsAsUnpacks
  <2>6. CASE SecondDump
    <3>1. stage = "import" /\ json \in Seq(Blocks) /\ done \in Nat
      BY <2>6 DEF SecondDump, HydrationInv, FilesFine, ImportFine
    <3>2. PICK n \in {done + 1, done + 2} : n > 1 /\ n <= Len(json) /\ json[n][2] = 1
      BY <2>6 DEF SecondDump
    <3>3. n \in DOMAIN json
      BY <3>1, <3>2, SMT
    <3> QED
      BY <3>1, <3>2, <3>3 DEF Restarted
  <2> QED
    BY <2>3, <2>4, <2>5, <2>6
<1> QED
  BY <1>1, HydrationInvAlways, PTL DEF FailsOnlyForLeftovers, HydrationSpec

=============================================================================
