----------------------------- MODULE IntakeProofs -----------------------------
(***************************************************************************)
(* Proofs about FileIntake, for any names, types, limits and chunks.            *)
(***************************************************************************)
EXTENDS FileIntake, Integers, FiniteSetTheorems, SequenceTheorems, WellFoundedInduction, TLAPS

(* Until the end of the file, what was read is in the temporary file and within    *)
(* the limit: the second comparison with the limit never refuses anything.         *)
SizeInv ==
    /\ size \in Nat /\ copied \in 0 .. MaxSize
    /\ pc \in {"metadata", "read", "received", "refused"}
    /\ pc # "refused" => error = "none" /\ copied = size
    /\ pc = "metadata" => size = 0
    /\ pc = "received" => size # 0
    /\ error = "EMPTY" => size = 0
    /\ error = "TOO_LARGE" => size > MaxSize

LEMMA SizeInit == Init => SizeInv
BY IntakeAssumption DEF Init, SizeInv

LEMMA MetadataStep ==
    ASSUME SizeInv, ValidateMetadata
    PROVE  SizeInv'
<1>1. UNCHANGED <<size, copied>> /\ size = 0 /\ copied = 0
  BY DEF ValidateMetadata, SizeInv
<1>2. \/ pc' = "read" /\ error' = error
      \/ pc' = "refused" /\ error' \in {"FILENAME_REQUIRED", "INVALID_TYPE", "MIME_MISMATCH"}
  BY DEF ValidateMetadata, Refuse
<1> QED
  BY <1>1, <1>2 DEF SizeInv, ValidateMetadata

LEMMA ReadStep ==
    ASSUME SizeInv, ReadChunk
    PROVE  SizeInv'
<1>1. PICK chunk \in 1 .. ChunkSize :
        /\ size' = size + chunk
        /\ IF size + chunk > MaxSize
             THEN pc' = "refused" /\ error' = "TOO_LARGE" /\ copied' = copied
             ELSE copied' = copied + chunk /\ UNCHANGED <<pc, error>>
  BY DEF ReadChunk, TooLarge, Refuse
<1>2. pc = "read" /\ copied = size /\ error = "none"
  BY DEF ReadChunk, SizeInv
<1> QED
  BY <1>1, <1>2, IntakeAssumption DEF SizeInv

LEMMA EndStep ==
    ASSUME SizeInv, EndOfFile
    PROVE  SizeInv'
<1>1. UNCHANGED <<size, copied>> /\ pc = "read" /\ copied = size /\ error = "none"
  BY DEF EndOfFile, SizeInv
<1>2. \/ size = 0 /\ pc' = "refused" /\ error' = "EMPTY"
      \/ size # 0 /\ pc' = "received" /\ error' = error
  BY <1>1, IntakeAssumption DEF EndOfFile, Empty, TooLarge, Refuse, SizeInv
<1> QED
  BY <1>1, <1>2 DEF SizeInv

LEMMA SizeStep == SizeInv /\ [Next]_vars => SizeInv'
<1> SUFFICES ASSUME SizeInv, [Next]_vars PROVE SizeInv'
  OBVIOUS
<1>1. CASE UNCHANGED vars
  BY <1>1 DEF vars, SizeInv
<1> QED
  BY <1>1, MetadataStep, ReadStep, EndStep DEF Next, Ended

(* For any limit and any size of a chunk: what is received is the whole of what    *)
(* was sent and within the limit, and only an empty or too large file is refused     *)
(* for its size.                                                                 *)
THEOREM SizesJudged == Spec => []SizeJudged
<1>1. SizeInv => SizeJudged
  BY IntakeAssumption DEF SizeInv, SizeJudged
<1> QED
  BY <1>1, SizeInit, SizeStep, PTL DEF Spec

-----------------------------------------------------------------------------
(* Least and greatest elements. The least one exists because strict inclusion is  *)
(* well founded on finite sets; whatever is proved below by induction is proved by  *)
(* looking at the least number it would not hold for.                             *)

LEMMA Least ==
    ASSUME NEW T \in SUBSET Nat, T # {}
    PROVE  \E n \in T : \A m \in T : n <= m
<1> DEFINE R == StrictSubsetOrdering(Nat)
           X == {0 .. n : n \in T}
<1>1. IsWellFoundedOn(R, FiniteSubsetsOf(Nat))
  BY FS_StrictSubsetOrderingWellFounded
<1>2. X \subseteq FiniteSubsetsOf(Nat) /\ X # {}
  <2>1. ASSUME NEW n \in T PROVE 0 .. n \in FiniteSubsetsOf(Nat)
    <3>1. IsFiniteSet(0 .. n)
      BY FS_Interval
    <3>2. 0 .. n \subseteq Nat
      OBVIOUS
    <3> QED
      BY <3>1, <3>2 DEF FiniteSubsetsOf
  <2> QED
    BY <2>1
<1>3. PICK x \in X : \A y \in X : <<y, x>> \notin R
  <2> HIDE DEF X, R
  <2> QED
    BY <1>1, <1>2, WFMin
<1>4. PICK n \in T : x = 0 .. n
  BY <1>3
<1>5. ASSUME NEW m \in T, m < n PROVE FALSE
  <2>1. 0 .. m \in X /\ <<0 .. m, 0 .. n>> \notin R
    BY <1>3, <1>4
  <2>2. 0 .. m \in SUBSET Nat /\ 0 .. n \in SUBSET Nat
    OBVIOUS
  <2>3. 0 .. m \subseteq 0 .. n /\ n \in 0 .. n /\ n \notin 0 .. m
    BY <1>5
  <2> QED
    BY <2>1, <2>2, <2>3 DEF StrictSubsetOrdering
<1> QED
  BY <1>5

LEMMA Greatest ==
    ASSUME NEW T \in SUBSET Nat, T # {}, NEW b \in Nat, \A m \in T : m <= b
    PROVE  \E n \in T : \A m \in T : m <= n
<1> DEFINE U == {u \in Nat : \A m \in T : m <= u}
<1>1. PICK u \in U : \A v \in U : u <= v
  BY Least
<1>2. CASE u \in T
  BY <1>1, <1>2
<1>3. CASE u \notin T
  <2>1. u # 0
    <3>1. PICK m \in T : m \in Nat
      OBVIOUS
    <3>2. m <= u /\ m # u
      BY <1>1, <1>3
    <3> QED
      BY <1>1, <3>1, <3>2
  <2>2. u - 1 \in U
    BY <1>1, <1>3, <2>1
  <2> QED
    BY <1>1, <2>2
<1> QED
  BY <1>2, <1>3

LEMMA MinMax ==
    ASSUME NEW T \in SUBSET Nat, T # {}, NEW b \in Nat, \A m \in T : m <= b
    PROVE  /\ Min(T) \in T /\ \A m \in T : Min(T) <= m
           /\ Max(T) \in T /\ \A m \in T : m <= Max(T)
<1>1. Min(T) \in T /\ \A m \in T : Min(T) <= m
  BY Least DEF Min
<1>2. Max(T) \in T /\ \A m \in T : m <= Max(T)
  <2>1. \E n \in T : \A m \in T : n >= m
    BY Greatest
  <2>2. Max(T) \in T /\ \A m \in T : Max(T) >= m
    BY <2>1 DEF Max
  <2> QED
    BY <2>2
<1> QED
  BY <1>1, <1>2

-----------------------------------------------------------------------------
(* What the steps of safe_filename make of a sequence of pieces. A window of s is   *)
(* the part of it that begins after its first a pieces.                           *)

Window(t, s, a) ==
    /\ t \in Seq(Pieces) /\ a \in Nat /\ a + Len(t) <= Len(s)
    /\ \A i \in 1 .. Len(t) : t[i] = s[a + i]

LEMMA SubSeqWindow ==
    ASSUME NEW s \in Seq(Pieces), NEW i \in 1 .. Len(s) + 1, NEW j \in 0 .. Len(s), i <= j + 1
    PROVE  Window(SubSeq(s, i, j), s, i - 1) /\ Len(SubSeq(s, i, j)) = j + 1 - i
<1>1. \A k \in i .. j : s[k] \in Pieces
  OBVIOUS
<1>2. /\ SubSeq(s, i, j) \in Seq(Pieces)
      /\ Len(SubSeq(s, i, j)) = IF i <= j THEN j - i + 1 ELSE 0
      /\ \A k \in 1 .. j - i + 1 : SubSeq(s, i, j)[k] = s[i + k - 1]
  BY <1>1, SubSeqProperties
<1> QED
  BY <1>2 DEF Window

LEMMA ReplaceFacts ==
    ASSUME NEW s \in Seq(Pieces), NEW old \in Pieces, NEW new \in Pieces
    PROVE  /\ Replace(s, old, new) \in Seq(Pieces) /\ Len(Replace(s, old, new)) = Len(s)
           /\ \A i \in 1 .. Len(s) : Replace(s, old, new)[i] = IF s[i] = old THEN new ELSE s[i]
<1>1. Replace(s, old, new) \in [1 .. Len(s) -> Pieces]
  BY DEF Replace
<1> QED
  BY <1>1 DEF Replace

LEMMA StripFacts ==
    ASSUME NEW s \in Seq(Pieces), NEW P
    PROVE  \/ Strip(s, P) = << >> /\ \A i \in 1 .. Len(s) : s[i] \in P
           \/ \E a \in Nat :
                /\ Window(Strip(s, P), s, a) /\ Len(Strip(s, P)) >= 1
                /\ Strip(s, P)[1] \notin P
                /\ Strip(s, P)[Len(Strip(s, P))] \notin P
                /\ \A i \in 1 .. Len(s) : i <= a \/ i > a + Len(Strip(s, P)) => s[i] \in P
<1> DEFINE kept == {i \in DOMAIN s : s[i] \notin P}
<1>1. CASE kept = {}
  BY <1>1 DEF Strip
<1>2. CASE kept # {}
  <2> DEFINE a == Min(kept) - 1
             t == SubSeq(s, Min(kept), Max(kept))
  <2>1. /\ Min(kept) \in kept /\ \A m \in kept : Min(kept) <= m
        /\ Max(kept) \in kept /\ \A m \in kept : m <= Max(kept)
    <3>1. kept \in SUBSET Nat /\ \A m \in kept : m <= Len(s)
      OBVIOUS
    <3> HIDE DEF kept
    <3> QED
      BY <1>2, <3>1, MinMax, Len(s) \in Nat
  <2>2. Strip(s, P) = t
    BY <1>2 DEF Strip
  <2>3. Window(t, s, a) /\ Len(t) = Max(kept) + 1 - Min(kept)
    BY <2>1, SubSeqWindow
  <2>4. Len(t) >= 1 /\ a \in Nat /\ a + Len(t) = Max(kept)
    <3>1. Min(kept) \in 1 .. Len(s) /\ Max(kept) \in 1 .. Len(s) /\ Min(kept) <= Max(kept)
      BY <2>1
    <3> HIDE DEF t, kept
    <3> QED
      BY <2>3, <3>1
  <2>5. t[1] \notin P /\ t[Len(t)] \notin P
    <3> HIDE DEF t
    <3>1. t[1] = s[a + 1] /\ t[Len(t)] = s[a + Len(t)]
      BY <2>3, <2>4 DEF Window
    <3> QED
      BY <2>1, <2>4, <3>1
  <2>6. \A i \in 1 .. Len(s) : i <= a \/ i > a + Len(t) => s[i] \in P
    <3> SUFFICES ASSUME NEW i \in 1 .. Len(s), s[i] \notin P
                 PROVE  a < i /\ i <= a + Len(t)
      <4>1. Len(t) \in Nat
        BY <2>3 DEF Window
      <4> HIDE DEF t
      <4> QED
        BY <2>4, <4>1
    <3>1. i \in kept /\ Min(kept) \in Nat /\ Max(kept) \in Nat
      BY <2>1
    <3>2. Min(kept) <= i /\ i <= Max(kept)
      BY <2>1, <3>1
    <3> HIDE DEF t, kept
    <3> QED
      BY <2>4, <3>1, <3>2
  <2> HIDE DEF a, t
  <2> QED
    BY <2>2, <2>3, <2>4, <2>5, <2>6
<1> QED
  BY <1>1, <1>2

(* Around every piece that is neither a separator nor a dot there is a part of the  *)
(* path.                                                                         *)
LEMMA PartAround ==
    ASSUME NEW s \in Seq(Pieces), NEW j \in 1 .. Len(s), s[j] \notin {"/", "."}
    PROVE  \E i \in 1 .. j, e \in j .. Len(s) :
              /\ i = 1 \/ s[i - 1] = "/"
              /\ e = Len(s) \/ s[e + 1] = "/"
              /\ \A k \in i .. e : s[k] # "/"
              /\ SubSeq(s, i, e) # <<".">>
<1> DEFINE I == {i \in 1 .. j : i = 1 \/ s[i - 1] = "/"}
           E == {e \in j .. Len(s) : e = Len(s) \/ s[e + 1] = "/"}
<1>1. PICK i \in I : \A k \in I : k <= i
  <2>1. I \in SUBSET Nat /\ 1 \in I /\ \A m \in I : m <= j
    OBVIOUS
  <2> HIDE DEF I
  <2> QED
    BY <2>1, Greatest, j \in Nat
<1>2. PICK e \in E : \A k \in E : e <= k
  <2>1. E \in SUBSET Nat /\ Len(s) \in E
    OBVIOUS
  <2> HIDE DEF E
  <2> QED
    BY <2>1, Least
<1>3. ASSUME NEW k \in i .. j PROVE s[k] # "/"
  <2>1. CASE k = j
    BY <2>1
  <2>2. CASE k < j
    <3>1. k + 1 \in 1 .. j /\ k + 1 > i
      BY <2>2
    <3>2. k + 1 \notin I
      <4>1. k + 1 \in I => k + 1 <= i
        BY <1>1
      <4>2. i \in Nat /\ k \in Nat
        OBVIOUS
      <4> QED
        BY <3>1, <4>1, <4>2
    <3> QED
      BY <3>1, <3>2
  <2> QED
    BY <2>1, <2>2
<1>4. ASSUME NEW k \in j .. e PROVE s[k] # "/"
  <2>1. CASE k = j
    BY <2>1
  <2>2. CASE k > j
    <3>1. k - 1 \in j .. Len(s) /\ k - 1 < e
      BY <2>2
    <3>2. k - 1 \notin E
      <4>1. k - 1 \in E => e <= k - 1
        BY <1>2
      <4>2. e \in Nat /\ k \in Nat
        OBVIOUS
      <4> QED
        BY <3>1, <4>1, <4>2
    <3> QED
      BY <3>1, <3>2
  <2> QED
    BY <2>1, <2>2
<1>5. SubSeq(s, i, e) # <<".">>
  <2>1. Window(SubSeq(s, i, e), s, i - 1) /\ Len(SubSeq(s, i, e)) = e + 1 - i
    BY SubSeqWindow
  <2>2. j + 1 - i \in 1 .. Len(SubSeq(s, i, e)) /\ i - 1 + (j + 1 - i) = j
    BY <2>1
  <2>3. SubSeq(s, i, e)[j + 1 - i] = s[j]
    BY <2>1, <2>2 DEF Window
  <2>4. SubSeq(s, i, e) = <<".">> => j + 1 - i = 1 /\ SubSeq(s, i, e)[1] = "."
    <3>1. Len(<<".">>) = 1 /\ <<".">>[1] = "."
      OBVIOUS
    <3>2. j + 1 - i \in Nat
      BY <2>2
    <3> QED
      BY <2>2, <3>1, <3>2
  <2> QED
    BY <2>3, <2>4
<1> QED
  BY <1>1, <1>2, <1>3, <1>4, <1>5

LEMMA PathNameFacts ==
    ASSUME NEW s \in Seq(Pieces)
    PROVE  \/ PathName(s) = << >> /\ \A i \in 1 .. Len(s) : s[i] \in {"/", "."}
           \/ \E a \in Nat :
                /\ Window(PathName(s), s, a) /\ Len(PathName(s)) >= 1
                /\ \A i \in 1 .. Len(PathName(s)) : PathName(s)[i] # "/"
                /\ a = 0 \/ s[a] = "/"
                /\ a + Len(PathName(s)) = Len(s) \/ s[a + Len(PathName(s)) + 1] = "/"
                /\ \A i \in 1 .. Len(s) : i > a + Len(PathName(s)) => s[i] \in {"/", "."}
<1> DEFINE Part(i, j) ==
              /\ i = 1 \/ s[i - 1] = "/"
              /\ j = Len(s) \/ s[j + 1] = "/"
              /\ \A k \in i .. j : s[k] # "/"
              /\ SubSeq(s, i, j) # <<".">>
           parts == {p \in (DOMAIN s) \X (DOMAIN s) : p[1] <= p[2] /\ Part(p[1], p[2])}
           p == CHOOSE p \in parts : \A q \in parts : q[1] <= p[1]
<1>1. PathName(s) = IF parts = {} THEN << >> ELSE SubSeq(s, p[1], p[2])
  BY DEF PathName
<1>2. ASSUME NEW i \in 1 .. Len(s), s[i] \notin {"/", "."}
      PROVE  \E q \in parts : q[1] <= i /\ i <= q[2]
  <2>1. PICK b \in 1 .. i, e \in i .. Len(s) : Part(b, e)
    BY <1>2, PartAround
  <2>2. <<b, e>> \in parts
    BY <2>1
  <2> QED
    BY <2>2
<1>3. CASE parts = {}
  <2> HIDE DEF parts
  <2> QED
    BY <1>1, <1>2, <1>3
<1>4. CASE parts # {}
  <2>1. p \in parts /\ \A q \in parts : q[1] <= p[1]
    <3> DEFINE F == {q[1] : q \in parts}
    <3>1. F \in SUBSET Nat /\ F # {} /\ \A m \in F : m <= Len(s)
      BY <1>4
    <3>2. \E n \in F : \A m \in F : m <= n
      <4> HIDE DEF F
      <4> QED
        BY <3>1, Greatest, Len(s) \in Nat
    <3>3. \E q \in parts : \A r \in parts : r[1] <= q[1]
      <4> HIDE DEF parts
      <4> QED
        BY <3>2
    <3> HIDE DEF parts
    <3> QED
      BY <3>3
  <2> DEFINE t == SubSeq(s, p[1], p[2])
  <2>3. PathName(s) = t
    BY <1>1, <1>4
  <2> HIDE DEF p
  <2>2. /\ p[1] \in 1 .. Len(s) /\ p[2] \in 1 .. Len(s) /\ p[1] <= p[2]
        /\ Part(p[1], p[2])
    <3>1. p \in (1 .. Len(s)) \X (1 .. Len(s)) /\ p[1] <= p[2] /\ Part(p[1], p[2])
      <4> HIDE DEF Part
      <4> QED
        BY <2>1
    <3> HIDE DEF Part
    <3> QED
      BY <3>1
  <2>4. Window(t, s, p[1] - 1) /\ Len(t) = p[2] + 1 - p[1]
    <3> HIDE DEF Part
    <3>1. p[1] \in 1 .. Len(s) + 1 /\ p[2] \in 0 .. Len(s) /\ p[1] <= p[2] + 1
      BY <2>2
    <3> QED
      BY <3>1, SubSeqWindow
  <2>5. p[1] - 1 \in Nat /\ Len(t) >= 1 /\ p[1] - 1 + Len(t) = p[2]
    <3> HIDE DEF t
    <3> QED
      BY <2>2, <2>4
  <2>6. \A i \in 1 .. Len(t) : t[i] # "/"
    <3> SUFFICES ASSUME NEW i \in 1 .. Len(t) PROVE t[i] # "/"
      OBVIOUS
    <3>1. t[i] = s[p[1] - 1 + i]
      <4> HIDE DEF t
      <4> QED
        BY <2>4 DEF Window
    <3>2. p[1] - 1 + i \in p[1] .. p[2]
      <4>1. i \in Nat /\ i >= 1 /\ i <= p[2] + 1 - p[1] /\ p[1] \in Nat /\ p[2] \in Nat
        BY <2>2, <2>4
      <4> HIDE DEF t
      <4> QED
        BY <4>1
    <3> QED
      BY <2>2, <3>1, <3>2
  <2>7. /\ p[1] - 1 = 0 \/ s[p[1] - 1] = "/"
        /\ p[1] - 1 + Len(t) = Len(s) \/ s[p[1] - 1 + Len(t) + 1] = "/"
    BY <2>2, <2>5
  <2>8. ASSUME NEW i \in 1 .. Len(s), i > p[2], s[i] \notin {"/", "."} PROVE FALSE
    <3>1. PICK q \in parts : q[1] <= i /\ i <= q[2]
      BY <1>2, <2>8
    <3>2. q[1] <= p[1] /\ q[1] \in Nat /\ q[2] \in Nat /\ \A k \in q[1] .. q[2] : s[k] # "/"
      <4>1. q[1] <= p[1]
        BY <2>1
      <4>2. q \in (1 .. Len(s)) \X (1 .. Len(s))
        OBVIOUS
      <4>3. \A k \in q[1] .. q[2] : s[k] # "/"
        OBVIOUS
      <4> QED
        BY <4>1, <4>2, <4>3
    <3>3. p[2] + 1 \in q[1] .. q[2] /\ p[2] # Len(s)
      BY <2>2, <2>8, <3>1, <3>2
    <3>4. s[p[2] + 1] = "/"
      BY <2>2, <3>3
    <3> QED
      BY <3>2, <3>3, <3>4
  <2>9. \A i \in 1 .. Len(s) : i > p[1] - 1 + Len(t) => s[i] \in {"/", "."}
    BY <2>5, <2>8
  <2> HIDE DEF t
  <2> QED
    BY <2>3, <2>4, <2>5, <2>6, <2>7, <2>9
<1> QED
  BY <1>3, <1>4

(* A path without separators is its own name.                                     *)
LEMMA PathNameOfName ==
    ASSUME NEW s \in Seq(Pieces), s # << >>, s[1] # ".", \A i \in 1 .. Len(s) : s[i] # "/"
    PROVE  PathName(s) = s
<1>1. Len(s) \in Nat /\ Len(s) >= 1
  OBVIOUS
<1>2. ~ \A i \in 1 .. Len(s) : s[i] \in {"/", "."}
  BY <1>1
<1>3. PICK a \in Nat :
        /\ Window(PathName(s), s, a) /\ Len(PathName(s)) >= 1
        /\ a = 0 \/ s[a] = "/"
        /\ a + Len(PathName(s)) = Len(s) \/ s[a + Len(PathName(s)) + 1] = "/"
  BY <1>2, PathNameFacts
<1>4. Len(PathName(s)) \in Nat /\ a + Len(PathName(s)) <= Len(s)
  BY <1>3 DEF Window
<1>5. a = 0
  <2>1. a # 0 => a \in 1 .. Len(s)
    BY <1>1, <1>3, <1>4
  <2> QED
    BY <1>3, <2>1
<1>6. Len(PathName(s)) = Len(s)
  <2>1. a + Len(PathName(s)) # Len(s) => a + Len(PathName(s)) + 1 \in 1 .. Len(s)
    BY <1>1, <1>4
  <2> QED
    BY <1>3, <1>5, <1>4, <2>1
<1>7. \A i \in 1 .. Len(s) : PathName(s)[i] = s[i]
  BY <1>3, <1>5, <1>6 DEF Window
<1>8. PathName(s) \in Seq(Pieces)
  BY <1>3 DEF Window
<1> QED
  BY <1>6, <1>7, <1>8, SeqEqual

LEMMA SuffixAtFacts ==
    ASSUME NEW m \in Seq(Pieces)
    PROVE  \/ SuffixAt(m) = Len(m) + 1
           \/ /\ SuffixAt(m) \in 2 .. Len(m) - 1 /\ m[SuffixAt(m)] = "."
              /\ \A i \in SuffixAt(m) + 1 .. Len(m) : m[i] # "."
<1> DEFINE dots == {i \in DOMAIN m : m[i] = "."}
<1>1. CASE dots # {} /\ Max(dots) \in 2 .. Len(m) - 1
  <2>1. dots \in SUBSET Nat /\ \A i \in dots : i <= Len(m)
    OBVIOUS
  <2>2. Max(dots) \in dots /\ \A i \in dots : i <= Max(dots)
    <3> HIDE DEF dots
    <3> QED
      BY <1>1, <2>1, MinMax, Len(m) \in Nat
  <2>3. SuffixAt(m) = Max(dots)
    BY <1>1 DEF SuffixAt
  <2>4. \A i \in Max(dots) + 1 .. Len(m) : m[i] # "."
    <3> SUFFICES ASSUME NEW i \in Max(dots) + 1 .. Len(m), m[i] = "." PROVE FALSE
      OBVIOUS
    <3>1. i \in dots /\ Max(dots) \in Nat
      BY <1>1
    <3> HIDE DEF dots
    <3> QED
      BY <2>2, <3>1
  <2>5. m[Max(dots)] = "."
    BY <2>2
  <2> HIDE DEF dots
  <2> QED
    BY <1>1, <2>3, <2>4, <2>5
<1>2. CASE ~ (dots # {} /\ Max(dots) \in 2 .. Len(m) - 1)
  BY <1>2 DEF SuffixAt
<1> QED
  BY <1>1, <1>2

LEMMA SuffixAtIs ==
    ASSUME NEW m \in Seq(Pieces), NEW d \in 2 .. Len(m) - 1, m[d] = ".",
           \A i \in d + 1 .. Len(m) : m[i] # "."
    PROVE  SuffixAt(m) = d
<1> DEFINE dots == {i \in DOMAIN m : m[i] = "."}
<1>1. dots \in SUBSET Nat /\ d \in dots /\ \A i \in dots : i <= Len(m)
  OBVIOUS
<1>2. \A i \in dots : i <= d
  OBVIOUS
<1>3. Max(dots) = d
  <2>1. Max(dots) \in dots /\ \A i \in dots : i <= Max(dots)
    <3> HIDE DEF dots
    <3> QED
      BY <1>1, MinMax, Len(m) \in Nat
  <2>2. Max(dots) \in Nat /\ Max(dots) <= d /\ d <= Max(dots)
    <3> HIDE DEF dots
    <3> QED
      BY <1>1, <1>2, <2>1
  <2> HIDE DEF dots
  <2> QED
    BY <2>2
<1> QED
  <2>1. SuffixAt(m) = IF dots # {} /\ Max(dots) \in 2 .. Len(m) - 1 THEN Max(dots) ELSE Len(m) + 1
    BY DEF SuffixAt
  <2> HIDE DEF dots
  <2> QED
    BY <1>1, <1>3, <2>1

LEMMA LowerFacts ==
    ASSUME NEW s \in Seq(Pieces)
    PROVE  /\ Lower(s) \in Seq(Pieces) /\ Len(Lower(s)) = Len(s)
           /\ \A i \in 1 .. Len(s) :
                /\ Lower(s)[i] = IF s[i] = "PDF" THEN "pdf" ELSE s[i]
                /\ Lower(s)[i] \in Letters <=> s[i] \in Letters
                /\ \A x \in {"/", "."} : Lower(s)[i] = x <=> s[i] = x
<1>1. "PDF" \in Pieces => "PDF" \in Letters /\ "pdf" \in Letters
  BY PiecesAssumption
<1>2. Letters \subseteq Pieces
  BY DEF Pieces
<1>3. Lower(s) \in [1 .. Len(s) -> Pieces]
  BY <1>1, <1>2 DEF Lower
<1>4. Lower(s) \in Seq(Pieces) /\ Len(Lower(s)) = Len(s)
  BY <1>3
<1>5. \A i \in 1 .. Len(s) : Lower(s)[i] = IF s[i] = "PDF" THEN "pdf" ELSE s[i]
  BY DEF Lower
<1> QED
  BY <1>1, <1>4, <1>5

-----------------------------------------------------------------------------
(* FlattenSeq, as what it made of the first i sequences.                           *)
LEMMA Flattened ==
    ASSUME NEW S, NEW seqs \in Seq(Seq(S))
    PROVE  \E Out :
              /\ FlattenSeq(seqs) = Out[Len(seqs)]
              /\ Out[0] = << >>
              /\ \A i \in 1 .. Len(seqs) : Out[i] = Out[i - 1] \o seqs[i]
              /\ \A i \in 0 .. Len(seqs) : Out[i] \in Seq(S)
<1> DEFINE Rule(g, i) == IF i = 1 THEN seqs[i] ELSE g[i - 1] \o seqs[i]
           Solves(g, n) == g = [i \in 1 .. n |-> Rule(g, i)]
           Flat == CHOOSE g : Solves(g, Len(seqs))
           Out == [i \in 0 .. Len(seqs) |-> IF i = 0 THEN << >> ELSE Flat[i]]
           Bad == {n \in 0 .. Len(seqs) : ~ \E g : Solves(g, n)}
           Odd == {n \in 0 .. Len(seqs) : Out[n] \notin Seq(S)}
<1>1. FlattenSeq(seqs) = IF Len(seqs) = 0 THEN seqs ELSE Flat[Len(seqs)]
  BY DEF FlattenSeq
<1>2. ASSUME NEW n \in 0 .. Len(seqs), n # 0, NEW g, Solves(g, n - 1) PROVE \E h : Solves(h, n)
  <2> DEFINE h == [i \in 1 .. n |-> IF i = n THEN Rule(g, n) ELSE g[i]]
  <2>1. h[n] = Rule(g, n) /\ \A k \in 1 .. n : k # n => h[k] = g[k]
    <3> HIDE DEF Rule
    <3> QED
      BY <1>2
  <2>2. \A k \in 1 .. n - 1 : g[k] = Rule(g, k)
    <3> HIDE DEF Rule
    <3> QED
      BY <1>2
  <2>3. h = [i \in 1 .. n |-> h[i]]
    OBVIOUS
  <2> HIDE DEF h
  <2>4. ASSUME NEW i \in 1 .. n PROVE h[i] = Rule(h, i)
    <3>1. i = 1 \/ (i - 1 \in 1 .. n /\ i - 1 # n)
      OBVIOUS
    <3>2. Rule(h, i) = Rule(g, i)
      BY <2>1, <3>1
    <3>3. h[i] = Rule(g, i)
      <4>1. i # n => i \in 1 .. n - 1
        OBVIOUS
      <4> HIDE DEF Rule
      <4> QED
        BY <2>1, <2>2, <4>1
    <3> HIDE DEF Rule
    <3> QED
      BY <3>2, <3>3
  <2> HIDE DEF Rule
  <2>5. h = [i \in 1 .. n |-> Rule(h, i)]
    BY <2>3, <2>4
  <2> QED
    BY <2>5
<1>3. \E g : Solves(g, 0)
  <2>1. 1 .. 0 = {}
    OBVIOUS
  <2>2. Solves([i \in 1 .. 0 |-> << >>], 0)
    <3> HIDE DEF Rule
    <3> QED
      BY <2>1
  <2> HIDE DEF Solves
  <2> QED
    BY <2>2
<1>4. Bad = {}
  <2> HIDE DEF Solves
  <2> SUFFICES ASSUME Bad # {} PROVE FALSE
    OBVIOUS
  <2>1. Bad \in SUBSET Nat
    OBVIOUS
  <2>2. PICK n \in Bad : \A k \in Bad : n <= k
    <3> HIDE DEF Bad
    <3> QED
      BY <2>1, Least
  <2>3. n \in 0 .. Len(seqs) /\ ~ \E g : Solves(g, n)
    OBVIOUS
  <2>4. n # 0
    BY <1>3, <2>3
  <2>5. n - 1 \in 0 .. Len(seqs) /\ ~ (n <= n - 1) /\ Len(seqs) \in Nat
    BY <2>3, <2>4
  <2>6. n - 1 \notin Bad
    <3> HIDE DEF Bad
    <3> QED
      BY <2>2, <2>5
  <2>7. PICK g : Solves(g, n - 1)
    BY <2>5, <2>6
  <2> QED
    BY <1>2, <2>3, <2>4, <2>7
<1>5. Solves(Flat, Len(seqs))
  <2>1. \E g : Solves(g, Len(seqs))
    <3> HIDE DEF Solves
    <3> QED
      BY <1>4, Len(seqs) \in 0 .. Len(seqs)
  <2> HIDE DEF Solves
  <2> QED
    BY <2>1
<1> HIDE DEF Flat
<1>6. \A i \in 1 .. Len(seqs) : Flat[i] = Rule(Flat, i)
  <2> HIDE DEF Rule
  <2> QED
    BY <1>5
<1>7. Out[0] = << >> /\ \A i \in 1 .. Len(seqs) : Out[i] = Flat[i]
  OBVIOUS
<1> HIDE DEF Out
<1>8. ASSUME NEW i \in 1 .. Len(seqs) PROVE Out[i] = Out[i - 1] \o seqs[i]
  <2>1. CASE i = 1
    <3>1. Out[i] = seqs[i] /\ Out[i - 1] = << >>
      BY <1>6, <1>7, <2>1
    <3> QED
      BY <3>1, ConcatEmptySeq
  <2>2. CASE i # 1
    <3>1. i - 1 \in 1 .. Len(seqs)
      BY <2>2
    <3> QED
      BY <1>6, <1>7, <2>2, <3>1
  <2> QED
    BY <2>1, <2>2
<1>9. Odd = {}
  <2> SUFFICES ASSUME Odd # {} PROVE FALSE
    OBVIOUS
  <2>1. PICK n \in Odd : \A k \in Odd : n <= k
    <3>1. Odd \in SUBSET Nat
      OBVIOUS
    <3> HIDE DEF Odd
    <3> QED
      BY <3>1, Least
  <2>2. n \in 1 .. Len(seqs) /\ Out[n] \notin Seq(S)
    <3>1. n \in 0 .. Len(seqs) /\ Out[n] \notin Seq(S)
      OBVIOUS
    <3>2. << >> \in Seq(S)
      OBVIOUS
    <3>3. n # 0
      BY <1>7, <3>1, <3>2
    <3> QED
      BY <3>1, <3>3
  <2>3. n - 1 \in 0 .. Len(seqs) /\ ~ (n <= n - 1)
    BY <2>2
  <2>4. n - 1 \notin Odd
    <3> HIDE DEF Odd
    <3> QED
      BY <2>1, <2>3
  <2>5. Out[n - 1] \in Seq(S) /\ seqs[n] \in Seq(S)
    BY <2>2, <2>3, <2>4
  <2> QED
    BY <1>8, <2>2, <2>5, ConcatProperties
<1>10. FlattenSeq(seqs) = Out[Len(seqs)]
  <2>1. Len(seqs) = 0 => seqs = << >>
    OBVIOUS
  <2>2. Len(seqs) # 0 => Len(seqs) \in 1 .. Len(seqs)
    OBVIOUS
  <2> QED
    BY <1>1, <1>7, <2>1, <2>2
<1> QED
  BY <1>7, <1>8, <1>9, <1>10

-----------------------------------------------------------------------------
(* The loop of re.sub.                                                           *)

Sharp == Letters \cup {"-"}

LEMMA WordPieces ==
    /\ Word \subseteq Pieces /\ Letters \subseteq Pieces /\ Sharp \subseteq Word
    /\ "underscore" \notin Sharp /\ "." \notin Sharp /\ "/" \notin Sharp /\ "blank" \notin Sharp
BY PiecesAssumption DEF Word, Sharp, Pieces, Signs

(* What is left of the first i pieces is of a word, ends as they end, and has a dot *)
(* before letters only where they have one; if neither letters nor a hyphen follow in *)
(* it, none do in them.                                                            *)
LeftOf(left, s, i) ==
    /\ left \in Seq(Word)
    /\ i = 0 => left = << >>
    /\ i # 0 => /\ Len(left) >= 1
                /\ left[Len(left)] = IF s[i] \in Word THEN s[i] ELSE "underscore"
    /\ \A k \in 1 .. Len(left) - 1 :
         left[k] = "." /\ left[k + 1] \in Letters =>
            \E j \in 2 .. i :
                /\ s[j - 1] = "." /\ s[j] = left[k + 1]
                /\ (\A l \in k + 2 .. Len(left) : left[l] \notin Sharp) =>
                      \A m \in j + 1 .. i : s[m] \notin Sharp

LEMMA LeftAppend ==
    ASSUME NEW s \in Seq(Pieces), NEW i \in 1 .. Len(s), NEW left, LeftOf(left, s, i - 1),
           NEW x \in Word, s[i] \in Word => x = s[i], s[i] \notin Word => x = "underscore"
    PROVE  LeftOf(left \o <<x>>, s, i)
<1> DEFINE more == left \o <<x>>
<1>1. "underscore" \notin Letters /\ "." \notin Letters
  BY PiecesAssumption DEF Signs
<1>2. left \in Seq(Word)
  BY DEF LeftOf
<1>3. /\ more \in Seq(Word) /\ Len(more) = Len(left) + 1 /\ Len(left) \in Nat
      /\ \A k \in 1 .. Len(left) : more[k] = left[k]
      /\ more[Len(left) + 1] = x
  <2>1. <<x>> \in Seq(Word) /\ Len(<<x>>) = 1 /\ <<x>>[1] = x
    OBVIOUS
  <2>2. /\ more \in Seq(Word) /\ Len(more) = Len(left) + 1 /\ Len(left) \in Nat
        /\ \A k \in 1 .. Len(left) + 1 : more[k] = IF k <= Len(left) THEN left[k] ELSE <<x>>[k - Len(left)]
    BY <1>2, <2>1, ConcatProperties
  <2> HIDE DEF more
  <2>3. Len(left) + 1 \in 1 .. Len(left) + 1 /\ Len(left) + 1 - Len(left) = 1
    BY <2>2
  <2> QED
    BY <2>1, <2>2, <2>3
<1> HIDE DEF more
<1>4. x \in Letters => s[i] = x
  BY <1>1
<1>5. s[i] \in Sharp => x = s[i]
  BY WordPieces
<1>6. ASSUME NEW k \in 1 .. Len(more) - 1, more[k] = ".", more[k + 1] \in Letters
      PROVE  \E j \in 2 .. i :
                /\ s[j - 1] = "." /\ s[j] = more[k + 1]
                /\ (\A l \in k + 2 .. Len(more) : more[l] \notin Sharp) =>
                      \A m \in j + 1 .. i : s[m] \notin Sharp
  <2>1. CASE k < Len(left)
    <3>1. /\ k \in 1 .. Len(left) - 1 /\ k + 1 \in 1 .. Len(left)
          /\ left[k] = "." /\ left[k + 1] \in Letters /\ more[k + 1] = left[k + 1]
      BY <1>3, <1>6, <2>1
    <3>2. PICK j \in 2 .. i - 1 :
            /\ s[j - 1] = "." /\ s[j] = left[k + 1]
            /\ (\A l \in k + 2 .. Len(left) : left[l] \notin Sharp) =>
                  \A m \in j + 1 .. i - 1 : s[m] \notin Sharp
      BY <3>1 DEF LeftOf
    <3>3. ASSUME \A l \in k + 2 .. Len(more) : more[l] \notin Sharp,
                 NEW m \in j + 1 .. i
          PROVE  s[m] \notin Sharp
      <4>1. \A l \in k + 2 .. Len(left) : left[l] \notin Sharp
        BY <1>3, <3>3
      <4>2. CASE m = i
        <5>1. Len(left) + 1 \in k + 2 .. Len(more)
          BY <1>3, <2>1
        <5>2. x \notin Sharp
          BY <1>3, <3>3, <5>1
        <5> QED
          BY <1>5, <4>2, <5>2
      <4>3. CASE m # i
        <5>1. m \in j + 1 .. i - 1
          BY <4>3
        <5> QED
          BY <3>2, <4>1, <5>1
      <4> QED
        BY <4>2, <4>3
    <3>4. j \in 2 .. i
      OBVIOUS
    <3> QED
      BY <3>1, <3>2, <3>3, <3>4
  <2>2. CASE k = Len(left)
    <3>1. left[Len(left)] = "." /\ x \in Letters /\ more[k + 1] = x /\ Len(left) >= 1
      BY <1>3, <1>6, <2>2
    <3>2. i - 1 # 0
      <4>1. i - 1 = 0 => Len(left) = 0
        BY DEF LeftOf
      <4> QED
        BY <3>1, <4>1
    <3>3. s[i - 1] = "."
      BY <3>1, <3>2 DEF LeftOf
    <3>4. i \in 2 .. i /\ \A m \in i + 1 .. i : s[m] \notin Sharp
      BY <3>2
    <3>5. s[i - 1] = "." /\ s[i] = more[k + 1]
      BY <1>4, <3>1, <3>3
    <3> QED
      BY <3>4, <3>5
  <2> QED
    BY <1>3, <2>1, <2>2
<1>7. Len(more) >= 1 /\ more[Len(more)] = IF s[i] \in Word THEN s[i] ELSE "underscore"
  BY <1>3
<1>8. i # 0
  OBVIOUS
<1>9. LeftOf(more, s, i)
  BY <1>3, <1>6, <1>7, <1>8 DEF LeftOf
<1> QED
  BY <1>9 DEF more

LEMMA LeftSkip ==
    ASSUME NEW s \in Seq(Pieces), NEW i \in 1 .. Len(s), NEW left, LeftOf(left, s, i - 1),
           s[i] \notin Word, i # 1, s[i - 1] \notin Word
    PROVE  LeftOf(left, s, i)
<1>1. s[i] \notin Sharp
  BY WordPieces
<1>2. i - 1 # 0 /\ i # 0
  OBVIOUS
<1>3. left \in Seq(Word) /\ Len(left) >= 1 /\ left[Len(left)] = "underscore"
  BY <1>2 DEF LeftOf
<1>4. ASSUME NEW k \in 1 .. Len(left) - 1, left[k] = ".", left[k + 1] \in Letters
      PROVE  \E j \in 2 .. i :
                /\ s[j - 1] = "." /\ s[j] = left[k + 1]
                /\ (\A l \in k + 2 .. Len(left) : left[l] \notin Sharp) =>
                      \A m \in j + 1 .. i : s[m] \notin Sharp
  <2>1. PICK j \in 2 .. i - 1 :
          /\ s[j - 1] = "." /\ s[j] = left[k + 1]
          /\ (\A l \in k + 2 .. Len(left) : left[l] \notin Sharp) =>
                \A m \in j + 1 .. i - 1 : s[m] \notin Sharp
    BY <1>4 DEF LeftOf
  <2>2. j \in 2 .. i /\ \A m \in j + 1 .. i : m \in j + 1 .. i - 1 \/ m = i
    OBVIOUS
  <2> QED
    BY <1>1, <2>1, <2>2
<1> QED
  BY <1>2, <1>3, <1>4 DEF LeftOf

LEMMA UnderscoredFacts ==
    ASSUME NEW s \in Seq(Pieces)
    PROVE  LeftOf(Underscored(s), s, Len(s))
<1> DEFINE Put(i) == IF s[i] \in Word THEN <<s[i]>>
                     ELSE IF i = 1 \/ s[i - 1] \in Word THEN <<"underscore">>
                     ELSE << >>
           puts == [i \in DOMAIN s |-> Put(i)]
<1>0. Underscored(s) = FlattenSeq(puts)
  BY DEF Underscored
<1>4. /\ puts \in Seq(Seq(Word)) /\ Len(puts) = Len(s)
      /\ \A i \in 1 .. Len(s) : puts[i] = Put(i)
  <2>1. "underscore" \in Word
    BY DEF Word
  <2>2. \A i \in 1 .. Len(s) : Put(i) \in Seq(Word)
    BY <2>1
  <2>3. DOMAIN s = 1 .. Len(s)
    OBVIOUS
  <2> HIDE DEF Put
  <2> QED
    BY <2>2, <2>3
<1> HIDE DEF puts
<1>1. PICK Left :
        /\ Underscored(s) = Left[Len(s)]
        /\ Left[0] = << >>
        /\ \A i \in 1 .. Len(s) : Left[i] = Left[i - 1] \o Put(i)
  <2> HIDE DEF Put
  <2>1. PICK Left :
          /\ FlattenSeq(puts) = Left[Len(puts)]
          /\ Left[0] = << >>
          /\ \A i \in 1 .. Len(puts) : Left[i] = Left[i - 1] \o puts[i]
    <3>1. puts \in Seq(Seq(Word))
      BY <1>4
    <3> HIDE DEF puts
    <3> QED
      BY <3>1, Flattened
  <2> QED
    BY <1>0, <1>4, <2>1
<1> DEFINE Bad == {i \in 0 .. Len(s) : ~ LeftOf(Left[i], s, i)}
<1>2. Bad = {}
  <2> SUFFICES ASSUME Bad # {} PROVE FALSE
    OBVIOUS
  <2>1. Bad \in SUBSET Nat
    OBVIOUS
  <2>2. PICK i \in Bad : \A k \in Bad : i <= k
    <3> HIDE DEF Bad
    <3> QED
      BY <2>1, Least
  <2>3. i \in 0 .. Len(s) /\ ~ LeftOf(Left[i], s, i)
    OBVIOUS
  <2>4. CASE i = 0
    <3>1. LeftOf(<< >>, s, 0)
      BY DEF LeftOf
    <3> QED
      BY <1>1, <2>3, <2>4, <3>1
  <2>5. CASE i # 0
    <3>1. i \in 1 .. Len(s) /\ i - 1 \in 0 .. Len(s) /\ ~ (i <= i - 1)
      BY <2>3, <2>5
    <3>2. LeftOf(Left[i - 1], s, i - 1)
      BY <2>2, <3>1
    <3>3. CASE s[i] \in Word
      <4>1. Left[i] = Left[i - 1] \o <<s[i]>>
        BY <1>1, <3>1, <3>3
      <4>2. LeftOf(Left[i - 1] \o <<s[i]>>, s, i)
        BY <3>1, <3>2, <3>3, LeftAppend
      <4> QED
        BY <2>3, <4>1, <4>2
    <3>4. CASE s[i] \notin Word /\ (i = 1 \/ s[i - 1] \in Word)
      <4>1. Left[i] = Left[i - 1] \o <<"underscore">>
        BY <1>1, <3>1, <3>4
      <4>2. "underscore" \in Word
        BY DEF Word
      <4>3. LeftOf(Left[i - 1] \o <<"underscore">>, s, i)
        BY <3>1, <3>2, <3>4, <4>2, LeftAppend
      <4> QED
        BY <2>3, <4>1, <4>3
    <3>5. CASE s[i] \notin Word /\ i # 1 /\ s[i - 1] \notin Word
      <4>1. Left[i] = Left[i - 1]
        <5>1. Left[i] = Left[i - 1] \o << >>
          BY <1>1, <3>1, <3>5
        <5>2. Left[i - 1] \in Seq(Word)
          BY <3>2 DEF LeftOf
        <5> QED
          BY <5>1, <5>2, ConcatEmptySeq
      <4> QED
        BY <2>3, <3>1, <3>2, <3>5, <4>1, LeftSkip
    <3> QED
      BY <3>3, <3>4, <3>5
  <2> QED
    BY <2>4, <2>5
<1>3. Len(s) \in 0 .. Len(s)
  OBVIOUS
<1> QED
  BY <1>1, <1>2, <1>3

-----------------------------------------------------------------------------
(* What a step of Normalized leaves of the name f is the part of f that begins at    *)
(* its front or behind a separator or a blank, and nothing but separators, dots and   *)
(* blanks follows it in f.                                                        *)

Rest == {"/", ".", "blank"}
Gap == {"/", "blank"}

Reads(t, f, a) ==
    /\ Window(t, f, a)
    /\ a = 0 \/ f[a] \in Gap
    /\ \A i \in 1 .. Len(f) : i > a + Len(t) => f[i] \in Rest

LEMMA ReadsWindow ==
    ASSUME NEW f \in Seq(Pieces), NEW t, NEW a, Reads(t, f, a),
           NEW w, NEW b, Window(w, t, b),
           b = 0 \/ t[b] \in Gap,
           \A i \in 1 .. Len(t) : i > b + Len(w) => t[i] \in Rest
    PROVE  a + b \in Nat /\ Reads(w, f, a + b)
<1>1. /\ w \in Seq(Pieces) /\ Len(w) \in Nat /\ b \in Nat /\ b + Len(w) <= Len(t)
      /\ \A i \in 1 .. Len(w) : w[i] = t[b + i]
  BY DEF Window
<1>2. /\ a \in Nat /\ Len(t) \in Nat /\ a + Len(t) <= Len(f) /\ Len(f) \in Nat
      /\ \A i \in 1 .. Len(t) : t[i] = f[a + i]
  BY DEF Reads, Window
<1>3. ASSUME NEW i \in 1 .. Len(w) PROVE w[i] = f[a + b + i]
  <2>1. b + i \in 1 .. Len(t) /\ a + (b + i) = a + b + i
    BY <1>1, <1>2
  <2> QED
    BY <1>1, <1>2, <2>1
<1>4. ASSUME NEW i \in 1 .. Len(f), i > a + b + Len(w) PROVE f[i] \in Rest
  <2>1. CASE i > a + Len(t)
    BY <2>1 DEF Reads
  <2>2. CASE i <= a + Len(t)
    <3>1. i - a \in 1 .. Len(t) /\ i - a > b + Len(w) /\ a + (i - a) = i
      BY <1>1, <1>2, <1>4, <2>2
    <3> QED
      BY <1>2, <3>1
  <2> QED
    BY <1>2, <2>1, <2>2
<1>5. a + b = 0 \/ f[a + b] \in Gap
  <2>1. CASE b = 0
    BY <1>2, <2>1 DEF Reads
  <2>2. CASE b # 0
    <3>1. b \in 1 .. Len(t)
      BY <1>1, <1>2, <2>2
    <3> QED
      BY <1>2, <2>2, <3>1
  <2> QED
    BY <2>1, <2>2
<1>6. a + b \in Nat /\ a + b + Len(w) <= Len(f)
  BY <1>1, <1>2
<1> QED
  BY <1>1, <1>3, <1>4, <1>5, <1>6 DEF Reads, Window

LEMMA ReadsNothing ==
    ASSUME NEW f \in Seq(Pieces), NEW t, NEW a, Reads(t, f, a),
           \A i \in 1 .. Len(t) : t[i] \in Rest
    PROVE  a \in Nat /\ Reads(<< >>, f, a)
<1>1. a \in Nat /\ Len(t) \in Nat
  BY DEF Reads, Window
<1>2. Window(<< >>, t, 0)
  BY <1>1 DEF Window
<1>3. a + 0 \in Nat /\ Reads(<< >>, f, a + 0)
  BY <1>2, ReadsWindow
<1> QED
  BY <1>1, <1>3

LEMMA ReadsPathName ==
    ASSUME NEW f \in Seq(Pieces), NEW t, NEW a, Reads(t, f, a)
    PROVE  /\ \E b \in Nat : Reads(PathName(t), f, b)
           /\ \A i \in 1 .. Len(PathName(t)) : PathName(t)[i] # "/"
<1>1. t \in Seq(Pieces)
  BY DEF Reads, Window
<1>2. CASE PathName(t) = << >> /\ \A i \in 1 .. Len(t) : t[i] \in {"/", "."}
  BY <1>2, ReadsNothing DEF Rest
<1>3. CASE ~ (PathName(t) = << >> /\ \A i \in 1 .. Len(t) : t[i] \in {"/", "."})
  <2> DEFINE w == PathName(t)
  <2>1. PICK b \in Nat :
          /\ Window(w, t, b) /\ Len(w) >= 1
          /\ \A i \in 1 .. Len(w) : w[i] # "/"
          /\ b = 0 \/ t[b] = "/"
          /\ \A i \in 1 .. Len(t) : i > b + Len(w) => t[i] \in {"/", "."}
    BY <1>1, <1>3, PathNameFacts
  <2> HIDE DEF w
  <2>2. b = 0 \/ t[b] \in Gap
    BY <2>1 DEF Gap
  <2>3. \A i \in 1 .. Len(t) : i > b + Len(w) => t[i] \in Rest
    BY <2>1 DEF Rest
  <2>4. Reads(w, f, a + b) /\ a + b \in Nat
    BY <2>1, <2>2, <2>3, ReadsWindow
  <2> QED
    BY <2>1, <2>4 DEF w
<1> QED
  BY <1>2, <1>3

LEMMA ReadsStrip ==
    ASSUME NEW f \in Seq(Pieces), NEW t, NEW a, Reads(t, f, a)
    PROVE  \E b \in Nat : Reads(Strip(t, {"blank"}), f, b)
<1>1. t \in Seq(Pieces)
  BY DEF Reads, Window
<1> DEFINE w == Strip(t, {"blank"})
<1>2. CASE w = << >> /\ \A i \in 1 .. Len(t) : t[i] \in {"blank"}
  BY <1>2, ReadsNothing DEF Rest
<1>3. CASE ~ (w = << >> /\ \A i \in 1 .. Len(t) : t[i] \in {"blank"})
  <2>1. PICK b \in Nat :
          /\ Window(w, t, b)
          /\ \A i \in 1 .. Len(t) : i <= b \/ i > b + Len(w) => t[i] \in {"blank"}
    BY <1>1, <1>3, StripFacts
  <2> HIDE DEF w
  <2>2. Len(w) \in Nat /\ b + Len(w) <= Len(t) /\ Len(t) \in Nat
    BY <1>1, <2>1 DEF Window
  <2>3. b = 0 \/ t[b] \in Gap
    BY <2>1, <2>2 DEF Gap
  <2>4. \A i \in 1 .. Len(t) : i > b + Len(w) => t[i] \in Rest
    BY <2>1 DEF Rest
  <2>5. Reads(w, f, a + b) /\ a + b \in Nat
    BY <2>1, <2>3, <2>4, ReadsWindow
  <2> QED
    BY <2>5 DEF w
<1> QED
  BY <1>2, <1>3

(* NFKC and the dropping of NUL. What they make of a part of a name is a part of what *)
(* they make of the name, and the separators, dots and blanks around it stay.        *)

Put(x, table) == IF x \in DOMAIN table THEN table[x] ELSE <<x>>

LEMMA TableFacts ==
    ASSUME NEW table \in {Compat, Nul}
    PROVE  /\ \A x \in Pieces : Put(x, table) \in Seq(Pieces)
           /\ \A x \in Rest : Put(x, table) = <<x>> /\ x \in Pieces
           /\ Gap \subseteq Rest
<1>1. \A x \in DOMAIN table : table[x] \in Seq(Pieces)
  BY PiecesAssumption
<1>2. \A x \in Rest : x \in Signs /\ x \notin DOMAIN table
  BY PiecesAssumption DEF Rest, Signs
<1>3. \A x \in Pieces : Put(x, table) \in Seq(Pieces)
  BY <1>1 DEF Put
<1>4. \A x \in Rest : Put(x, table) = <<x>> /\ x \in Pieces
  BY <1>2 DEF Put, Pieces
<1>5. Gap \subseteq Rest
  BY DEF Gap, Rest
<1> QED
  BY <1>3, <1>4, <1>5

LEMMA ExpandFacts ==
    ASSUME NEW s \in Seq(Pieces), NEW table \in {Compat, Nul}
    PROVE  \E Out :
              /\ Expand(s, table) = Out[Len(s)]
              /\ Out[0] = << >>
              /\ \A i \in 1 .. Len(s) : Out[i] = Out[i - 1] \o Put(s[i], table)
              /\ \A i \in 0 .. Len(s) : Out[i] \in Seq(Pieces)
<1> DEFINE puts == [i \in DOMAIN s |-> Put(s[i], table)]
<1>1. Expand(s, table) = FlattenSeq(puts)
  BY DEF Expand, Put
<1>2. /\ puts \in Seq(Seq(Pieces)) /\ Len(puts) = Len(s)
      /\ \A i \in 1 .. Len(s) : puts[i] = Put(s[i], table)
  <2>1. \A i \in 1 .. Len(s) : Put(s[i], table) \in Seq(Pieces)
    BY TableFacts
  <2>2. DOMAIN s = 1 .. Len(s)
    OBVIOUS
  <2> QED
    BY <2>1, <2>2
<1> HIDE DEF puts
<1>3. PICK Out :
        /\ FlattenSeq(puts) = Out[Len(puts)]
        /\ Out[0] = << >>
        /\ \A i \in 1 .. Len(puts) : Out[i] = Out[i - 1] \o puts[i]
        /\ \A i \in 0 .. Len(puts) : Out[i] \in Seq(Pieces)
  BY <1>2, Flattened
<1> QED
  BY <1>1, <1>2, <1>3

LEMMA ReadsParts ==
    ASSUME NEW u \in Seq(Pieces), NEW g \in Seq(Pieces), NEW r \in Seq(Rest),
           Len(u) = 0 \/ u[Len(u)] \in Gap
    PROVE  Len(u) \in Nat /\ Reads(g, (u \o g) \o r, Len(u))
<1> DEFINE v == u \o g
           f == v \o r
<1>1. Rest \subseteq Pieces
  BY TableFacts
<1>2. r \in Seq(Pieces) /\ Len(r) \in Nat /\ Len(u) \in Nat /\ Len(g) \in Nat
  BY <1>1
<1>3. /\ v \in Seq(Pieces) /\ Len(v) = Len(u) + Len(g)
      /\ \A i \in 1 .. Len(u) + Len(g) : v[i] = IF i <= Len(u) THEN u[i] ELSE g[i - Len(u)]
  BY ConcatProperties
<1> HIDE DEF v
<1>4. /\ f \in Seq(Pieces) /\ Len(f) = Len(v) + Len(r)
      /\ \A i \in 1 .. Len(v) + Len(r) : f[i] = IF i <= Len(v) THEN v[i] ELSE r[i - Len(v)]
  <2>1. v \in Seq(Pieces) /\ r \in Seq(Pieces)
    BY <1>2, <1>3
  <2> HIDE DEF f
  <2>2. f = v \o r
    BY DEF f
  <2> QED
    BY <2>1, <2>2, ConcatProperties
<1> HIDE DEF f
<1>5. \A i \in 1 .. Len(g) : g[i] = f[Len(u) + i]
  <2> SUFFICES ASSUME NEW i \in 1 .. Len(g) PROVE g[i] = f[Len(u) + i]
    OBVIOUS
  <2>1. /\ Len(u) + i \in 1 .. Len(u) + Len(g) /\ Len(u) + i \in 1 .. Len(v) + Len(r)
        /\ Len(u) + i <= Len(v) /\ ~ (Len(u) + i <= Len(u)) /\ Len(u) + i - Len(u) = i
    BY <1>2, <1>3
  <2> QED
    BY <1>3, <1>4, <2>1
<1>6. Len(u) = 0 \/ f[Len(u)] \in Gap
  <2> SUFFICES ASSUME Len(u) # 0 PROVE f[Len(u)] \in Gap
    OBVIOUS
  <2>1. /\ Len(u) \in 1 .. Len(u) + Len(g) /\ Len(u) \in 1 .. Len(v) + Len(r)
        /\ Len(u) <= Len(v) /\ Len(u) <= Len(u)
    BY <1>2, <1>3
  <2> QED
    BY <1>3, <1>4, <2>1
<1>7. ASSUME NEW i \in 1 .. Len(f), i > Len(u) + Len(g) PROVE f[i] \in Rest
  <2>1. ~ (i <= Len(v)) /\ i \in 1 .. Len(v) + Len(r) /\ i - Len(v) \in 1 .. Len(r)
    BY <1>2, <1>3, <1>4, <1>7
  <2> QED
    BY <1>4, <2>1
<1>8. Len(u) + Len(g) <= Len(f)
  BY <1>2, <1>3, <1>4
<1>9. Reads(g, f, Len(u))
  BY <1>2, <1>5, <1>6, <1>7, <1>8 DEF Reads, Window
<1> QED
  BY <1>2, <1>9 DEF f, v

LEMMA ReadsExpand ==
    ASSUME NEW f \in Seq(Pieces), NEW t, NEW a, Reads(t, f, a), NEW table \in {Compat, Nul}
    PROVE  /\ Expand(f, table) \in Seq(Pieces) /\ Expand(t, table) \in Seq(Pieces)
           /\ \E b \in Nat : Reads(Expand(t, table), Expand(f, table), b)
<1>1. /\ t \in Seq(Pieces) /\ a \in Nat /\ Len(t) \in Nat /\ a + Len(t) <= Len(f) /\ Len(f) \in Nat
      /\ \A i \in 1 .. Len(t) : t[i] = f[a + i]
  BY DEF Reads, Window
<1>2. PICK F :
        /\ Expand(f, table) = F[Len(f)] /\ F[0] = << >>
        /\ \A i \in 1 .. Len(f) : F[i] = F[i - 1] \o Put(f[i], table)
        /\ \A i \in 0 .. Len(f) : F[i] \in Seq(Pieces)
  BY ExpandFacts
<1>3. PICK G :
        /\ Expand(t, table) = G[Len(t)] /\ G[0] = << >>
        /\ \A i \in 1 .. Len(t) : G[i] = G[i - 1] \o Put(t[i], table)
        /\ \A i \in 0 .. Len(t) : G[i] \in Seq(Pieces)
  BY <1>1, ExpandFacts
<1>4. \A i \in 0 .. Len(t) : F[a + i] = F[a] \o G[i]
  <2> DEFINE Good(i) == F[a + i] = F[a] \o G[i]
             Bad == {i \in 0 .. Len(t) : ~ Good(i)}
  <2> SUFFICES ASSUME Bad # {} PROVE FALSE
    <3> HIDE DEF Good
    <3>1. \A i \in 0 .. Len(t) : Good(i)
      OBVIOUS
    <3> QED
      BY <3>1 DEF Good
  <2>1. PICK n \in Bad : \A k \in Bad : n <= k
    <3>1. Bad \in SUBSET Nat
      <4> HIDE DEF Good
      <4> QED
        OBVIOUS
    <3> HIDE DEF Bad
    <3> QED
      BY <3>1, Least
  <2>15. n \in 0 .. Len(t) /\ ~ Good(n)
    OBVIOUS
  <2>2. a \in 0 .. Len(f) /\ F[a] \in Seq(Pieces)
    BY <1>1, <1>2
  <2>3. n # 0
    <3>1. F[a] \o << >> = F[a]
      BY <2>2, ConcatEmptySeq
    <3>2. a + 0 = a
      BY <1>1
    <3>3. Good(0)
      BY <1>3, <3>1, <3>2
    <3> HIDE DEF Good
    <3> QED
      BY <2>15, <3>3
  <2> HIDE DEF Good
  <2>35. n - 1 \in 0 .. Len(t) /\ ~ (n <= n - 1) /\ n \in 1 .. Len(t)
    BY <1>1, <2>15, <2>3
  <2>4. Good(n - 1)
    <3>1. n - 1 \notin Bad
      <4> HIDE DEF Bad
      <4> QED
        BY <2>1, <2>35
    <3> QED
      BY <2>35, <3>1
  <2> HIDE DEF Bad
  <2>45. a + n \in 1 .. Len(f) /\ (a + n) - 1 = a + (n - 1)
    BY <1>1, <2>35
  <2>5. F[a + (n - 1)] = F[a] \o G[n - 1]
    BY <2>4 DEF Good
  <2>6. G[n - 1] \in Seq(Pieces) /\ Put(t[n], table) \in Seq(Pieces)
    <3>1. t[n] \in Pieces
      BY <1>1, <2>35
    <3> QED
      BY <1>3, <2>35, <3>1, TableFacts
  <2>7. F[a + n] = (F[a] \o G[n - 1]) \o Put(t[n], table)
    <3>1. F[a + n] = F[(a + n) - 1] \o Put(f[a + n], table)
      BY <1>2, <2>45
    <3>2. f[a + n] = t[n]
      BY <1>1, <2>35
    <3> QED
      BY <2>45, <2>5, <3>1, <3>2
  <2>8. F[a + n] = F[a] \o (G[n - 1] \o Put(t[n], table))
    <3> DEFINE u == F[a]
               v == G[n - 1]
               w == Put(t[n], table)
    <3>1. u \in Seq(Pieces) /\ v \in Seq(Pieces) /\ w \in Seq(Pieces)
      BY <2>2, <2>6
    <3> HIDE DEF u, v, w
    <3>2. (u \o v) \o w = u \o (v \o w)
      BY <3>1, ConcatAssociative
    <3> QED
      BY <2>7, <3>2 DEF u, v, w
  <2>9. G[n] = G[n - 1] \o Put(t[n], table)
    BY <1>3, <2>35
  <2>10. Good(n)
    BY <2>8, <2>9 DEF Good
  <2> QED
    BY <2>10, <2>15
<1>5. \A i \in a + Len(t) .. Len(f) : \E r \in Seq(Rest) : F[i] = F[a + Len(t)] \o r
  <2> DEFINE Good(i) == \E r \in Seq(Rest) : F[i] = F[a + Len(t)] \o r
             Bad == {i \in a + Len(t) .. Len(f) : ~ Good(i)}
  <2> SUFFICES ASSUME Bad # {} PROVE FALSE
    <3> HIDE DEF Good
    <3>1. \A i \in a + Len(t) .. Len(f) : Good(i)
      OBVIOUS
    <3> QED
      BY <3>1 DEF Good
  <2>1. PICK n \in Bad : \A k \in Bad : n <= k
    <3>1. Bad \in SUBSET Nat
      BY <1>1
    <3> HIDE DEF Bad
    <3> QED
      BY <3>1, Least
  <2>2. a + Len(t) \in 0 .. Len(f) /\ F[a + Len(t)] \in Seq(Pieces)
    BY <1>1, <1>2
  <2>3. n # a + Len(t)
    <3>1. F[a + Len(t)] \o << >> = F[a + Len(t)] /\ << >> \in Seq(Rest)
      BY <2>2, ConcatEmptySeq
    <3>2. Good(a + Len(t))
      BY <3>1
    <3> HIDE DEF Good
    <3> QED
      BY <3>2
  <2> HIDE DEF Good
  <2>35. n \in a + Len(t) .. Len(f) /\ ~ Good(n)
    OBVIOUS
  <2>4. /\ n \in 1 .. Len(f) /\ n - 1 \in a + Len(t) .. Len(f) /\ ~ (n <= n - 1)
        /\ n > a + Len(t)
    BY <1>1, <2>35, <2>3
  <2>45. Good(n - 1)
    <3>1. n - 1 \notin Bad
      <4> HIDE DEF Bad
      <4> QED
        BY <2>1, <2>4
    <3> QED
      BY <2>4, <3>1
  <2> HIDE DEF Bad
  <2>5. PICK r \in Seq(Rest) : F[n - 1] = F[a + Len(t)] \o r
    BY <2>45 DEF Good
  <2>6. f[n] \in Rest
    BY <2>4 DEF Reads
  <2>7. Put(f[n], table) = <<f[n]>> /\ Rest \subseteq Pieces
    BY <2>6, TableFacts
  <2>8. F[n] = (F[a + Len(t)] \o r) \o <<f[n]>>
    BY <1>2, <2>4, <2>5, <2>7
  <2>9. <<f[n]>> \in Seq(Rest) /\ <<f[n]>> \in Seq(Pieces) /\ r \in Seq(Pieces)
    BY <2>6, <2>7
  <2>10. F[n] = F[a + Len(t)] \o (r \o <<f[n]>>)
    <3> DEFINE u == F[a + Len(t)]
               w == <<f[n]>>
    <3>1. u \in Seq(Pieces) /\ r \in Seq(Pieces) /\ w \in Seq(Pieces)
      BY <2>2, <2>9
    <3> HIDE DEF u, w
    <3>2. (u \o r) \o w = u \o (r \o w)
      BY <3>1, ConcatAssociative
    <3> QED
      BY <2>8, <3>2 DEF u, w
  <2>11. r \o <<f[n]>> \in Seq(Rest)
    BY <2>9, ConcatProperties
  <2>12. Good(n)
    BY <2>10, <2>11 DEF Good
  <2> QED
    BY <2>12, <2>35
<1>6. PICK r \in Seq(Rest) : Expand(f, table) = (F[a] \o Expand(t, table)) \o r
  <2>1. Len(f) \in a + Len(t) .. Len(f) /\ Len(t) \in 0 .. Len(t)
    BY <1>1
  <2>2. F[a + Len(t)] = F[a] \o G[Len(t)]
    BY <1>4, <2>1
  <2>3. PICK r \in Seq(Rest) : F[Len(f)] = F[a + Len(t)] \o r
    BY <1>5, <2>1
  <2> QED
    BY <1>2, <1>3, <2>2, <2>3
<1>7. Expand(f, table) \in Seq(Pieces) /\ Expand(t, table) \in Seq(Pieces) /\ F[a] \in Seq(Pieces)
  <2>1. Len(f) \in 0 .. Len(f) /\ a \in 0 .. Len(f) /\ Len(t) \in 0 .. Len(t)
    BY <1>1
  <2> QED
    BY <1>2, <1>3, <2>1
<1>8. Len(F[a]) = 0 \/ F[a][Len(F[a])] \in Gap
  <2>1. CASE a = 0
    BY <1>2, <2>1
  <2>2. CASE a # 0
    <3>1. a \in 1 .. Len(f) /\ a - 1 \in 0 .. Len(f)
      BY <1>1, <2>2
    <3>2. f[a] \in Gap
      BY <2>2 DEF Reads
    <3>3. F[a] = F[a - 1] \o <<f[a]>>
      BY <1>2, <3>1, <3>2, TableFacts
    <3>4. F[a - 1] \in Seq(Pieces) /\ f[a] \in Pieces
      BY <1>2, <3>1
    <3> DEFINE u == F[a - 1]
               x == <<f[a]>>
    <3>5. u \in Seq(Pieces) /\ x \in Seq(Pieces) /\ Len(x) = 1 /\ x[1] = f[a]
      BY <3>4
    <3>6. F[a] = u \o x
      BY <3>3
    <3> HIDE DEF u, x
    <3>7. /\ Len(u) \in Nat /\ Len(F[a]) = Len(u) + 1
          /\ \A i \in 1 .. Len(u) + 1 : F[a][i] = IF i <= Len(u) THEN u[i] ELSE x[i - Len(u)]
      <4>1. /\ Len(u \o x) = Len(u) + Len(x)
            /\ \A i \in 1 .. Len(u) + Len(x) : (u \o x)[i] = IF i <= Len(u) THEN u[i] ELSE x[i - Len(u)]
        BY <3>5, ConcatProperties
      <4> QED
        BY <3>5, <3>6, <4>1
    <3>8. Len(u) + 1 \in 1 .. Len(u) + 1 /\ ~ (Len(u) + 1 <= Len(u)) /\ Len(u) + 1 - Len(u) = 1
      BY <3>7
    <3> QED
      BY <3>2, <3>5, <3>7, <3>8
  <2> QED
    BY <2>1, <2>2
<1>9. Len(F[a]) \in Nat /\ Reads(Expand(t, table), Expand(f, table), Len(F[a]))
  BY <1>6, <1>7, <1>8, ReadsParts
<1> QED
  BY <1>7, <1>9

(* The name a path ends in, after Normalized.                                      *)
LEMMA NormalFacts ==
    ASSUME NEW name0 \in Seq(Pieces)
    PROVE  /\ Shown(name0) \in Seq(Pieces)
           /\ Normalized(name0) \in Seq(Pieces)
           /\ PathName(Normalized(name0)) \in Seq(Pieces)
           /\ \A i \in 1 .. Len(PathName(Normalized(name0))) : PathName(Normalized(name0))[i] # "/"
           /\ \E a \in Nat : Reads(PathName(Normalized(name0)), Shown(name0), a)
<1> DEFINE f0 == Replace(name0, "\\", "/")
           f1 == Expand(f0, Compat)
           f2 == Expand(f1, Nul)
           s0 == PathName(f0)
           s1 == Expand(s0, Compat)
           s2 == Strip(s1, {"blank"})
           s3 == Expand(s2, Nul)
<1>1. f2 = Shown(name0) /\ s3 = Normalized(name0)
  BY DEF Shown, Normalized
<1>2. f0 \in Seq(Pieces)
  BY ReplaceFacts DEF Pieces, Signs
<1> HIDE DEF f0
<1>3. Reads(f0, f0, 0)
  BY <1>2 DEF Reads, Window
<1>4. PICK a0 \in Nat : Reads(s0, f0, a0)
  BY <1>2, <1>3, ReadsPathName
<1> HIDE DEF s0
<1>5. f1 \in Seq(Pieces) /\ \E b \in Nat : Reads(s1, f1, b)
  BY <1>2, <1>4, ReadsExpand
<1> HIDE DEF s1, f1
<1>6. PICK a2 \in Nat : Reads(s2, f1, a2)
  BY <1>5, ReadsStrip
<1> HIDE DEF s2
<1>7. f2 \in Seq(Pieces) /\ s3 \in Seq(Pieces) /\ \E b \in Nat : Reads(s3, f2, b)
  BY <1>5, <1>6, ReadsExpand
<1> HIDE DEF s3, f2
<1>8. /\ \E b \in Nat : Reads(PathName(s3), f2, b)
      /\ \A i \in 1 .. Len(PathName(s3)) : PathName(s3)[i] # "/"
  BY <1>7, ReadsPathName
<1>9. PathName(s3) \in Seq(Pieces)
  BY <1>8 DEF Reads, Window
<1> QED
  BY <1>1, <1>7, <1>8, <1>9

-----------------------------------------------------------------------------
(* The two parts of a cleaned name: the stem, which begins with letters or a hyphen   *)
(* and is made of letters, hyphens, dots and underscores, and the suffix, a dot and   *)
(* no other.                                                                     *)

Dull == {".", "underscore"}

LEMMA NameParts ==
    ASSUME NEW n \in Seq(Pieces)
    PROVE  LET m == PathName(n)
           IN  /\ m \in Seq(Pieces) /\ \A i \in 1 .. Len(m) : m[i] # "/"
               /\ PathStem(n) \in Seq(Pieces) /\ Window(PathStem(n), m, 0)
               /\ Window(PathSuffix(n), m, Len(PathStem(n)))
               /\ Len(PathStem(n)) + Len(PathSuffix(n)) = Len(m)
               /\ Len(PathSuffix(n)) >= 1 => Len(PathStem(n)) >= 1
               /\ \/ PathSuffix(n) = << >> /\ PathStem(n) = m
                  \/ /\ Len(PathStem(n)) >= 1 /\ Len(PathSuffix(n)) >= 2 /\ PathSuffix(n)[1] = "."
                     /\ \A i \in 2 .. Len(PathSuffix(n)) : PathSuffix(n)[i] # "."
<1> DEFINE m == PathName(n)
           d == SuffixAt(m)
           stem == SubSeq(m, 1, d - 1)
           suffix == SubSeq(m, d, Len(m))
<1>1. m \in Seq(Pieces) /\ \A i \in 1 .. Len(m) : m[i] # "/"
  <2>1. CASE PathName(n) = << >>
    BY <2>1
  <2>2. CASE PathName(n) # << >>
    BY <2>2, PathNameFacts DEF Window
  <2> QED
    BY <2>1, <2>2
<1>2. PathStem(n) = stem /\ PathSuffix(n) = suffix
  BY DEF PathStem, PathSuffix
<1>3. \/ d = Len(m) + 1
      \/ d \in 2 .. Len(m) - 1 /\ m[d] = "." /\ \A i \in d + 1 .. Len(m) : m[i] # "."
  <2> HIDE DEF m
  <2> QED
    BY <1>1, SuffixAtFacts
<1> HIDE DEF m, d
<1>4. d \in 1 .. Len(m) + 1 /\ d - 1 \in 0 .. Len(m) /\ Len(m) \in 0 .. Len(m) /\ 1 \in 1 .. Len(m) + 1
  BY <1>1, <1>3
<1>5. Window(stem, m, 0) /\ Len(stem) = d - 1
  <2>1. Window(stem, m, 1 - 1) /\ Len(stem) = d - 1 + 1 - 1
    BY <1>1, <1>4, SubSeqWindow
  <2> HIDE DEF stem
  <2> QED
    BY <1>4, <2>1
<1>6. Window(suffix, m, d - 1) /\ Len(suffix) = Len(m) + 1 - d
  BY <1>1, <1>4, SubSeqWindow
<1> HIDE DEF stem, suffix
<1>7. stem \in Seq(Pieces) /\ suffix \in Seq(Pieces) /\ Len(stem) + Len(suffix) = Len(m)
  BY <1>4, <1>5, <1>6 DEF Window
<1>8. CASE d = Len(m) + 1
  <2>1. suffix = << >>
    BY <1>6, <1>7, <1>8
  <2>2. stem = m
    <3>1. Len(stem) = Len(m) /\ \A i \in 1 .. Len(stem) : stem[i] = m[i]
      BY <1>5, <1>8 DEF Window
    <3> QED
      BY <1>1, <1>7, <3>1, SeqEqual
  <2> QED
    BY <1>1, <1>2, <1>5, <1>6, <1>7, <2>1, <2>2 DEF m
<1>9. CASE d \in 2 .. Len(m) - 1 /\ m[d] = "." /\ \A i \in d + 1 .. Len(m) : m[i] # "."
  <2>1. Len(stem) >= 1 /\ Len(suffix) >= 2
    BY <1>5, <1>6, <1>9
  <2>2. \A i \in 1 .. Len(suffix) : suffix[i] = m[d - 1 + i]
    BY <1>6 DEF Window
  <2>3. suffix[1] = "."
    <3>1. d - 1 + 1 = d /\ 1 \in 1 .. Len(suffix)
      BY <1>9, <1>6
    <3> QED
      BY <1>9, <2>2, <3>1
  <2>4. \A i \in 2 .. Len(suffix) : suffix[i] # "."
    <3> SUFFICES ASSUME NEW i \in 2 .. Len(suffix) PROVE suffix[i] # "."
      OBVIOUS
    <3>1. i \in 1 .. Len(suffix) /\ d - 1 + i \in d + 1 .. Len(m)
      BY <1>6, <1>9
    <3> QED
      BY <1>9, <2>2, <3>1
  <2> QED
    BY <1>1, <1>2, <1>5, <1>6, <1>7, <2>1, <2>3, <2>4 DEF m
<1> QED
  BY <1>3, <1>8, <1>9

LEMMA StemFacts ==
    ASSUME NEW n \in Seq(Pieces)
    PROVE  /\ Stem(n) \in Seq(Word) /\ Len(Stem(n)) >= 1 /\ Stem(n)[1] \in Sharp
           /\ \/ Stem(n) = <<"evidence">>
              \/ \E c \in Nat :
                   /\ Window(Stem(n), Underscored(PathStem(n)), c)
                   /\ \A i \in 1 .. Len(Underscored(PathStem(n))) :
                        i > c + Len(Stem(n)) => Underscored(PathStem(n))[i] \in Dull
<1> DEFINE u == Underscored(PathStem(n))
<1>1. PathStem(n) \in Seq(Pieces)
  BY NameParts
<1>2. u \in Seq(Word)
  BY <1>1, UnderscoredFacts DEF LeftOf
<1>3. u \in Seq(Pieces)
  BY <1>2, WordPieces
<1>4. StemLeft(n) = Strip(u, Dull)
  BY DEF StemLeft, Dull
<1> HIDE DEF u
<1>5. CASE StemLeft(n) = << >>
  <2>1. Stem(n) = <<"evidence">> /\ "evidence" \in Sharp /\ "evidence" \in Word
    BY <1>5, IntakeAssumption DEF Stem, Word, Sharp
  <2> QED
    BY <2>1
<1>6. CASE StemLeft(n) # << >>
  <2>1. Stem(n) = StemLeft(n)
    BY <1>6 DEF Stem
  <2>2. PICK c \in Nat :
          /\ Window(Stem(n), u, c) /\ Len(Stem(n)) >= 1 /\ Stem(n)[1] \notin Dull
          /\ \A i \in 1 .. Len(u) : i <= c \/ i > c + Len(Stem(n)) => u[i] \in Dull
    BY <1>3, <1>4, <1>6, <2>1, StripFacts
  <2>3. /\ Stem(n) \in Seq(Pieces) /\ Len(Stem(n)) \in Nat /\ c + Len(Stem(n)) <= Len(u)
        /\ \A i \in 1 .. Len(Stem(n)) : Stem(n)[i] = u[c + i]
    BY <2>2 DEF Window
  <2>4. \A i \in 1 .. Len(Stem(n)) : Stem(n)[i] \in Word
    <3> SUFFICES ASSUME NEW i \in 1 .. Len(Stem(n)) PROVE Stem(n)[i] \in Word
      OBVIOUS
    <3>1. c + i \in 1 .. Len(u)
      BY <1>2, <2>3
    <3> QED
      BY <1>2, <2>3, <3>1
  <2>5. Stem(n) \in Seq(Word)
    <3>1. Stem(n) = [i \in 1 .. Len(Stem(n)) |-> Stem(n)[i]]
      BY <2>3
    <3> QED
      BY <2>3, <2>4, <3>1
  <2>6. Stem(n)[1] \in Sharp
    <3>1. 1 \in 1 .. Len(Stem(n))
      BY <2>2, <2>3
    <3> QED
      BY <2>2, <2>4, <3>1 DEF Word, Dull, Sharp
  <2> QED
    BY <2>2, <2>5, <2>6 DEF u
<1> QED
  BY <1>5, <1>6

Cut(n) == SubSeq(Stem(n), 1, Min({MaxStem, Len(Stem(n))}))

LEMMA CutFacts ==
    ASSUME NEW n \in Seq(Pieces)
    PROVE  /\ Cut(n) \in Seq(Pieces) /\ Len(Cut(n)) \in 1 .. MaxStem
           /\ \A i \in 1 .. Len(Cut(n)) : Cut(n)[i] = Stem(n)[i] /\ Cut(n)[i] \in Word
           /\ Cut(n)[1] \in Sharp
           /\ Len(Cut(n)) <= Len(Stem(n))
           /\ Len(Stem(n)) <= MaxStem => Len(Cut(n)) = Len(Stem(n))
<1> DEFINE s == Stem(n)
           k == Min({MaxStem, Len(s)})
           h == SubSeq(s, 1, k)
<1>1. s \in Seq(Word) /\ s \in Seq(Pieces) /\ Len(s) \in Nat /\ Len(s) >= 1 /\ s[1] \in Sharp
  BY StemFacts, WordPieces
<1>2. Cut(n) = h
  BY DEF Cut
<1> HIDE DEF s
<1>3. k \in {MaxStem, Len(s)} /\ k <= MaxStem /\ k <= Len(s)
  <2> DEFINE T == {MaxStem, Len(s)}
  <2>1. T \in SUBSET Nat /\ T # {} /\ MaxStem + Len(s) \in Nat /\ \A m \in T : m <= MaxStem + Len(s)
    BY <1>1, IntakeAssumption
  <2>2. MaxStem \in T /\ Len(s) \in T
    OBVIOUS
  <2> HIDE DEF T
  <2>3. Min(T) \in T /\ \A m \in T : Min(T) <= m
    BY <2>1, MinMax
  <2> QED
    BY <2>2, <2>3 DEF T
<1>4. k \in Nat /\ k >= 1 /\ (Len(s) <= MaxStem => k = Len(s))
  BY <1>1, <1>3, IntakeAssumption
<1> HIDE DEF k
<1>5. Window(h, s, 0) /\ Len(h) = k
  <2>1. 1 \in 1 .. Len(s) + 1 /\ k \in 0 .. Len(s) /\ 1 <= k + 1
    BY <1>1, <1>3, <1>4
  <2>2. Window(h, s, 1 - 1) /\ Len(h) = k + 1 - 1
    BY <1>1, <2>1, SubSeqWindow
  <2> HIDE DEF h
  <2> QED
    BY <1>4, <2>2
<1> HIDE DEF h
<1>6. h \in Seq(Pieces) /\ \A i \in 1 .. Len(h) : h[i] = s[i] /\ h[i] \in Word
  <2>1. h \in Seq(Pieces) /\ \A i \in 1 .. Len(h) : h[i] = s[0 + i]
    BY <1>5 DEF Window
  <2>2. \A i \in 1 .. Len(h) : i \in 1 .. Len(s) /\ 0 + i = i
    BY <1>1, <1>3, <1>4, <1>5
  <2> QED
    BY <1>1, <2>1, <2>2
<1>7. 1 \in 1 .. Len(h) /\ Len(h) \in 1 .. MaxStem /\ Len(h) <= Len(s)
  BY <1>3, <1>4, <1>5, IntakeAssumption
<1> QED
  BY <1>1, <1>2, <1>4, <1>5, <1>6, <1>7 DEF s

LEMMA SuffixFacts ==
    ASSUME NEW n \in Seq(Pieces)
    PROVE  /\ Suffix(n) \in Seq(Pieces) /\ Len(Suffix(n)) = Len(PathSuffix(n))
           /\ \A i \in 1 .. Len(Suffix(n)) : Suffix(n)[i] # "/"
           /\ \/ Suffix(n) = << >> /\ PathSuffix(n) = << >>
              \/ /\ Len(Suffix(n)) >= 2 /\ Suffix(n)[1] = "."
                 /\ \A i \in 2 .. Len(Suffix(n)) : Suffix(n)[i] # "."
           /\ Lower(Suffix(n)) = Suffix(n)
<1> DEFINE p == PathSuffix(n)
           m == PathName(n)
           b == Len(PathStem(n))
<1>1. /\ Window(p, m, b) /\ b + Len(p) = Len(m) /\ \A i \in 1 .. Len(m) : m[i] # "/"
      /\ \/ p = << >>
         \/ /\ Len(p) >= 2 /\ p[1] = "." /\ \A i \in 2 .. Len(p) : p[i] # "."
      /\ b \in Nat
  BY NameParts DEF Window
<1>2. Suffix(n) = Lower(p)
  BY DEF Suffix
<1> HIDE DEF p, m, b
<1>3. p \in Seq(Pieces) /\ Len(p) \in Nat
  BY <1>1 DEF Window
<1>4. \A i \in 1 .. Len(p) : p[i] # "/"
  <2>1. \A i \in 1 .. Len(p) : b + i \in 1 .. Len(m) /\ p[i] = m[b + i]
    BY <1>1, <1>3 DEF Window
  <2> QED
    BY <1>1, <2>1
<1>5. /\ Suffix(n) \in Seq(Pieces) /\ Len(Suffix(n)) = Len(p)
      /\ \A i \in 1 .. Len(p) :
           /\ Suffix(n)[i] = IF p[i] = "PDF" THEN "pdf" ELSE p[i]
           /\ \A x \in {"/", "."} : Suffix(n)[i] = x <=> p[i] = x
  BY <1>2, <1>3, LowerFacts
<1>6. \A i \in 1 .. Len(Suffix(n)) : Suffix(n)[i] # "/"
  BY <1>4, <1>5
<1>7. Lower(Suffix(n)) = Suffix(n)
  <2>1. /\ Lower(Suffix(n)) \in Seq(Pieces) /\ Len(Lower(Suffix(n))) = Len(Suffix(n))
        /\ \A i \in 1 .. Len(Suffix(n)) :
             Lower(Suffix(n))[i] = IF Suffix(n)[i] = "PDF" THEN "pdf" ELSE Suffix(n)[i]
    BY <1>5, LowerFacts
  <2>2. \A i \in 1 .. Len(Suffix(n)) : Suffix(n)[i] # "PDF"
    BY <1>5
  <2>3. \A i \in 1 .. Len(Suffix(n)) : Lower(Suffix(n))[i] = Suffix(n)[i]
    BY <2>1, <2>2
  <2> QED
    BY <1>5, <2>1, <2>3, SeqEqual
<1>8. CASE p = << >>
  <2>1. Suffix(n) = << >>
    BY <1>3, <1>5, <1>8
  <2> QED
    BY <1>5, <1>6, <1>7, <1>8, <2>1 DEF p
<1>9. CASE Len(p) >= 2 /\ p[1] = "." /\ \A i \in 2 .. Len(p) : p[i] # "."
  <2>1. 1 \in 1 .. Len(p) /\ \A i \in 2 .. Len(p) : i \in 1 .. Len(p)
    BY <1>3, <1>9
  <2>2. Suffix(n)[1] = "." /\ \A i \in 2 .. Len(Suffix(n)) : Suffix(n)[i] # "."
    BY <1>5, <1>9, <2>1
  <2> QED
    BY <1>5, <1>6, <1>7, <1>9, <2>2 DEF p
<1> QED
  BY <1>1, <1>8, <1>9

(* The cleaned name is one part, and its suffix is the suffix that was put to it; if  *)
(* none was, the stem has none or its own.                                       *)
LEMMA CleanFacts ==
    ASSUME NEW n \in Seq(Pieces)
    PROVE  LET c == Cut(n) \o Suffix(n)
           IN  /\ c \in Seq(Pieces) /\ Len(c) = Len(Cut(n)) + Len(Suffix(n))
               /\ \A i \in 1 .. Len(c) :
                    c[i] = IF i <= Len(Cut(n)) THEN Cut(n)[i] ELSE Suffix(n)[i - Len(Cut(n))]
               /\ PathName(c) = c
               /\ Suffix(n) # << >> => Suffix(c) = Suffix(n)
               /\ Suffix(n) = << >> => c = Cut(n)
<1> DEFINE h == Cut(n)
           t == Suffix(n)
           c == h \o t
<1>1. /\ h \in Seq(Pieces) /\ Len(h) \in Nat /\ Len(h) >= 1
      /\ h[1] \in Sharp /\ \A i \in 1 .. Len(h) : h[i] \in Word
  BY CutFacts
<1>2. /\ t \in Seq(Pieces) /\ Len(t) \in Nat /\ \A i \in 1 .. Len(t) : t[i] # "/"
      /\ \/ t = << >>
         \/ Len(t) >= 2 /\ t[1] = "." /\ \A i \in 2 .. Len(t) : t[i] # "."
      /\ Lower(t) = t
  BY SuffixFacts
<1> HIDE DEF h, t
<1>3. /\ c \in Seq(Pieces) /\ Len(c) = Len(h) + Len(t)
      /\ \A i \in 1 .. Len(c) : c[i] = IF i <= Len(h) THEN h[i] ELSE t[i - Len(h)]
  BY <1>1, <1>2, ConcatProperties
<1>4. c[1] = h[1] /\ c # << >>
  <2>1. 1 \in 1 .. Len(c) /\ 1 <= Len(h)
    BY <1>1, <1>2, <1>3
  <2> HIDE DEF c
  <2> QED
    BY <1>3, <2>1
<1> HIDE DEF c
<1>5. \A i \in 1 .. Len(c) : c[i] # "/"
  <2> SUFFICES ASSUME NEW i \in 1 .. Len(c) PROVE c[i] # "/"
    OBVIOUS
  <2>1. CASE i <= Len(h)
    <3>1. i \in 1 .. Len(h) /\ c[i] = h[i]
      BY <1>3, <2>1
    <3>2. "/" \notin Word
      BY PiecesAssumption DEF Word, Signs
    <3> QED
      BY <1>1, <3>1, <3>2
  <2>2. CASE i > Len(h)
    <3>1. i - Len(h) \in 1 .. Len(t) /\ c[i] = t[i - Len(h)]
      BY <1>1, <1>2, <1>3, <2>2
    <3> QED
      BY <1>2, <3>1
  <2> QED
    BY <1>1, <2>1, <2>2
<1>6. PathName(c) = c
  BY <1>1, <1>3, <1>4, <1>5, WordPieces, PathNameOfName
<1>7. ASSUME t # << >> PROVE Suffix(c) = t
  <2>1. Len(t) >= 2 /\ t[1] = "." /\ \A i \in 2 .. Len(t) : t[i] # "."
    BY <1>2, <1>7
  <2>2. Len(h) + 1 \in 2 .. Len(c) - 1
    BY <1>1, <1>2, <1>3, <2>1
  <2>3. c[Len(h) + 1] = "."
    <3>1. Len(h) + 1 \in 1 .. Len(c) /\ ~ (Len(h) + 1 <= Len(h)) /\ Len(h) + 1 - Len(h) = 1
      BY <1>1, <1>2, <1>3, <2>1
    <3> QED
      BY <1>3, <2>1, <3>1
  <2>4. \A i \in Len(h) + 1 + 1 .. Len(c) : c[i] # "."
    <3> SUFFICES ASSUME NEW i \in Len(h) + 1 + 1 .. Len(c) PROVE c[i] # "."
      OBVIOUS
    <3>1. i \in 1 .. Len(c) /\ ~ (i <= Len(h)) /\ i - Len(h) \in 2 .. Len(t)
      BY <1>1, <1>2, <1>3
    <3> QED
      BY <1>3, <2>1, <3>1
  <2>5. SuffixAt(c) = Len(h) + 1
    BY <1>3, <2>2, <2>3, <2>4, SuffixAtIs
  <2>6. PathSuffix(c) = SubSeq(c, Len(h) + 1, Len(c))
    BY <1>6, <2>5 DEF PathSuffix
  <2>7. SubSeq(c, Len(h) + 1, Len(c)) = t
    <3> DEFINE w == SubSeq(c, Len(h) + 1, Len(c))
    <3>1. Len(h) + 1 \in 1 .. Len(c) + 1 /\ Len(c) \in 0 .. Len(c) /\ Len(h) + 1 <= Len(c) + 1
      BY <1>1, <1>2, <1>3
    <3>2. Window(w, c, Len(h) + 1 - 1) /\ Len(w) = Len(c) + 1 - (Len(h) + 1)
      <4> DEFINE b == Len(h) + 1
      <4>1. b \in 1 .. Len(c) + 1 /\ Len(c) \in 0 .. Len(c) /\ b <= Len(c) + 1
        BY <3>1
      <4> HIDE DEF b
      <4>2. Window(SubSeq(c, b, Len(c)), c, b - 1) /\ Len(SubSeq(c, b, Len(c))) = Len(c) + 1 - b
        BY <1>3, <4>1, SubSeqWindow
      <4> QED
        BY <4>2 DEF b
    <3> HIDE DEF w
    <3>3. Len(w) = Len(t) /\ Len(h) + 1 - 1 = Len(h)
      BY <1>1, <1>2, <1>3, <3>2
    <3>4. w \in Seq(Pieces) /\ \A i \in 1 .. Len(w) : w[i] = c[Len(h) + i]
      BY <3>2, <3>3 DEF Window
    <3>5. ASSUME NEW i \in 1 .. Len(w) PROVE w[i] = t[i]
      <4>1. Len(h) + i \in 1 .. Len(c) /\ ~ (Len(h) + i <= Len(h)) /\ Len(h) + i - Len(h) = i
        BY <1>1, <1>2, <1>3, <3>3
      <4> QED
        BY <1>3, <3>4, <4>1
    <3>6. w = t
      BY <1>2, <3>3, <3>4, <3>5, SeqEqual
    <3> QED
      BY <3>6 DEF w
  <2> QED
    BY <1>2, <2>6, <2>7 DEF Suffix
<1>8. t = << >> => c = h
  BY <1>1, ConcatEmptySeq DEF c
<1> QED
  BY <1>3, <1>6, <1>7, <1>8 DEF c, h, t

LEMMA LowerPair ==
    ASSUME NEW p \in Seq(Pieces), NEW x \in Letters, Lower(p) = <<".", x>>
    PROVE  /\ Len(p) = 2 /\ p[1] = "." /\ p[2] \in Letters
           /\ Lower(<<p[1], p[2]>>) = <<".", x>>
<1>1. /\ Len(Lower(p)) = Len(p) /\ Len(p) \in Nat
      /\ \A i \in 1 .. Len(p) :
           /\ Lower(p)[i] \in Letters <=> p[i] \in Letters
           /\ Lower(p)[i] = "." <=> p[i] = "."
  BY LowerFacts
<1>2. Len(<<".", x>>) = 2 /\ <<".", x>>[1] = "." /\ <<".", x>>[2] = x
  OBVIOUS
<1>3. Len(p) = 2 /\ 1 \in 1 .. Len(p) /\ 2 \in 1 .. Len(p)
  <2>1. Len(Lower(p)) = 2
    BY <1>2
  <2> QED
    BY <1>1, <2>1
<1>4. p[1] = "." /\ p[2] \in Letters
  BY <1>1, <1>2, <1>3
<1>5. p = <<p[1], p[2]>>
  BY <1>3
<1> QED
  BY <1>3, <1>4, <1>5

LEMMA OwnSuffix ==
    ASSUME NEW c \in Seq(Pieces), PathName(c) = c, NEW x \in Letters, Suffix(c) = <<".", x>>
    PROVE  /\ Len(c) >= 3 /\ c[Len(c) - 1] = "." /\ c[Len(c)] \in Letters
           /\ Lower(<<c[Len(c) - 1], c[Len(c)]>>) = <<".", x>>
<1> DEFINE p == PathSuffix(c)
           b == Len(PathStem(c))
<1>1. /\ PathStem(c) \in Seq(Pieces) /\ Window(p, c, b) /\ b + Len(p) = Len(c)
      /\ Len(p) >= 1 => b >= 1
  BY NameParts
<1>2. p \in Seq(Pieces) /\ b \in Nat
  BY <1>1 DEF Window
<1>3. /\ Len(p) = 2 /\ p[1] = "." /\ p[2] \in Letters
      /\ Lower(<<p[1], p[2]>>) = <<".", x>>
  <2>1. Lower(p) = <<".", x>>
    BY DEF Suffix
  <2> HIDE DEF p
  <2> QED
    BY <1>2, <2>1, LowerPair
<1> HIDE DEF p, b
<1>4. b >= 1
  BY <1>1, <1>3
<1>5. Len(c) = b + 2 /\ b + 1 = Len(c) - 1
  BY <1>1, <1>2, <1>3
<1>6. p[1] = c[b + 1] /\ p[2] = c[b + 2]
  <2>1. \A i \in 1 .. Len(p) : p[i] = c[b + i]
    BY <1>1 DEF Window
  <2> QED
    BY <1>3, <2>1
<1> QED
  BY <1>2, <1>3, <1>4, <1>5, <1>6

LEMMA NameSafe ==
    ASSUME NEW n \in Seq(Pieces), NEW c, c = Cut(n) \o Suffix(n),
           NEW x \in Letters, Suffix(c) = <<".", x>>
    PROVE  /\ c \in Seq(Pieces) /\ \A i \in 1 .. Len(c) : c[i] \in Word
           /\ Len(c) \in 3 .. MaxStem + 2 /\ c[1] \in Sharp
<1> DEFINE h == Cut(n)
           t == Suffix(n)
<1>1. /\ Len(h) \in 1 .. MaxStem /\ h[1] \in Sharp /\ \A i \in 1 .. Len(h) : h[i] \in Word
  BY CutFacts
<1>2. /\ c \in Seq(Pieces) /\ Len(c) = Len(h) + Len(t) /\ PathName(c) = c
      /\ \A i \in 1 .. Len(c) : c[i] = IF i <= Len(h) THEN h[i] ELSE t[i - Len(h)]
      /\ t # << >> => Suffix(c) = t
      /\ t = << >> => c = h
  BY CleanFacts
<1> HIDE DEF h, t
<1>3. Len(c) >= 3
  BY <1>2, OwnSuffix
<1>4. CASE t = << >>
  <2>1. c = h
    BY <1>2, <1>4
  <2> QED
    BY <1>1, <1>2, <1>3, <2>1, IntakeAssumption
<1>5. CASE t # << >>
  <2>1. t = <<".", x>>
    BY <1>2, <1>5
  <2>2. Len(t) = 2 /\ t[1] = "." /\ t[2] = x
    BY <2>1
  <2>3. t[1] \in Word /\ t[2] \in Word
    BY <2>2 DEF Word
  <2>4. \A i \in 1 .. Len(c) : c[i] \in Word
    <3> SUFFICES ASSUME NEW i \in 1 .. Len(c) PROVE c[i] \in Word
      OBVIOUS
    <3>1. CASE i <= Len(h)
      <4>1. i \in 1 .. Len(h) /\ c[i] = h[i]
        BY <1>2, <3>1
      <4> QED
        BY <1>1, <4>1
    <3>2. CASE i > Len(h)
      <4>1. i - Len(h) \in {1, 2} /\ c[i] = t[i - Len(h)]
        BY <1>1, <1>2, <2>2, <3>2
      <4> QED
        BY <2>3, <4>1
    <3> QED
      BY <1>1, <3>1, <3>2
  <2>5. c[1] = h[1] /\ Len(c) = Len(h) + 2
    <3>1. 1 \in 1 .. Len(c) /\ 1 <= Len(h)
      BY <1>1, <1>2, <2>2
    <3> QED
      BY <1>2, <2>2, <3>1
  <2> QED
    BY <1>1, <1>2, <1>3, <2>4, <2>5, IntakeAssumption
<1> QED
  BY <1>4, <1>5

LEMMA ShownNothing == ASSUME NEW s, s = << >> PROVE Shown(s) = << >>
<1>1. Replace(s, "\\", "/") = << >>
  BY DEF Replace
<1>2. \A table : Expand(<< >>, table) = << >>
  <2> SUFFICES ASSUME NEW table PROVE Expand(<< >>, table) = << >>
    OBVIOUS
  <2> DEFINE puts == [i \in DOMAIN << >> |-> IF << >>[i] \in DOMAIN table THEN table[<< >>[i]] ELSE << <<  >>[i] >>]
  <2>1. puts = << >>
    OBVIOUS
  <2>2. FlattenSeq(puts) = puts
    <3>1. Len(puts) = 0
      BY <2>1
    <3> HIDE DEF puts
    <3> QED
      BY <3>1 DEF FlattenSeq
  <2> QED
    BY <2>1, <2>2 DEF Expand
<1> QED
  BY <1>1, <1>2 DEF Shown

(* Where the extension stands in the name it was taken from.                       *)
LEMMA NameJudges ==
    ASSUME NEW name0 \in Seq(Pieces), NEW c, c = safe_filename(name0),
           NEW x \in Letters, Suffix(c) = <<".", x>>,
           NEW f, f = Shown(name0)
    PROVE  \E i \in 2 .. Len(f) :
              /\ Lower(<<f[i - 1], f[i]>>) = <<".", x>>
              /\ \/ \A j \in i + 1 .. Len(f) : f[j] \notin Sharp
                 \/ Len(Stem(Normalized(name0))) > MaxStem
<1> DEFINE n == Normalized(name0)
           m == PathName(n)
<1>1. n \in Seq(Pieces) /\ m \in Seq(Pieces) /\ f \in Seq(Pieces)
  BY NormalFacts
<1>2. PICK a \in Nat : Reads(m, f, a)
  BY NormalFacts
<1>3. c = Cut(n) \o Suffix(n)
  BY DEF safe_filename, Cut
<1> HIDE DEF n
<1>4. /\ c \in Seq(Pieces) /\ PathName(c) = c
      /\ Suffix(n) # << >> => Suffix(c) = Suffix(n)
      /\ Suffix(n) = << >> => c = Cut(n)
  BY <1>1, <1>3, CleanFacts
<1>5. /\ \A i \in 1 .. Len(m) : m[i] = f[a + i]
      /\ Len(m) \in Nat /\ a + Len(m) <= Len(f) /\ Len(f) \in Nat
      /\ \A j \in 1 .. Len(f) : j > a + Len(m) => f[j] \notin Sharp
  <2> HIDE DEF m
  <2>1. Window(m, f, a) /\ \A j \in 1 .. Len(f) : j > a + Len(m) => f[j] \in Rest
    BY <1>2 DEF Reads
  <2>2. Rest \cap Sharp = {}
    BY WordPieces DEF Rest
  <2>3. /\ \A i \in 1 .. Len(m) : m[i] = f[a + i]
        /\ Len(m) \in Nat /\ a + Len(m) <= Len(f) /\ Len(f) \in Nat
    BY <1>1, <2>1 DEF Window
  <2>4. \A j \in 1 .. Len(f) : j > a + Len(m) => f[j] \notin Sharp
    BY <2>1, <2>2
  <2> QED
    BY <2>3, <2>4
<1>6. CASE Suffix(n) # << >>
  <2> DEFINE p == PathSuffix(n)
             b == Len(PathStem(n))
  <2>1. Lower(p) = <<".", x>>
    BY <1>4, <1>6 DEF Suffix
  <2>2. /\ PathStem(n) \in Seq(Pieces) /\ Window(p, m, b) /\ b + Len(p) = Len(m)
        /\ Len(p) >= 1 => b >= 1
    BY <1>1, NameParts
  <2> HIDE DEF m, p
  <2>3. p \in Seq(Pieces) /\ b \in Nat
    BY <2>2 DEF Window
  <2>4. Len(p) = 2 /\ Lower(<<p[1], p[2]>>) = <<".", x>>
    BY <2>1, <2>3, LowerPair
  <2> HIDE DEF b
  <2>5. b >= 1
    BY <2>2, <2>4
  <2>6. p[1] = m[b + 1] /\ p[2] = m[b + 2]
    <3>1. \A i \in 1 .. Len(p) : p[i] = m[b + i]
      BY <2>2 DEF Window
    <3> QED
      BY <2>4, <3>1
  <2> DEFINE i == a + (b + 2)
  <2>7. i \in 2 .. Len(f) /\ i - 1 = a + (b + 1) /\ i = a + Len(m)
    <3>1. Len(m) = b + 2
      BY <2>2, <2>3, <2>4
    <3>2. a + Len(m) <= Len(f) /\ Len(f) \in Nat
      BY <1>5
    <3> QED
      BY <2>3, <3>1, <3>2
  <2>8. b + 1 \in 1 .. Len(m) /\ b + 2 \in 1 .. Len(m)
    BY <2>2, <2>3, <2>4
  <2>9. f[i - 1] = p[1] /\ f[i] = p[2]
    BY <1>5, <2>6, <2>7, <2>8
  <2>10. \A j \in i + 1 .. Len(f) : f[j] \notin Sharp
    BY <1>5, <2>7
  <2> HIDE DEF i
  <2> QED
    BY <2>4, <2>7, <2>9, <2>10
<1>7. CASE Suffix(n) = << >>
  <2> DEFINE u == Underscored(m)
             s == Stem(n)
             k == Len(c)
  <2>1. /\ k >= 3 /\ c[k - 1] = "." /\ c[k] \in Letters
        /\ Lower(<<c[k - 1], c[k]>>) = <<".", x>> /\ k \in Nat
    <3>1. k \in Nat
      BY <1>4
    <3> QED
      BY <1>4, <3>1, OwnSuffix
  <2>2. PathStem(n) = m
    <3>1. PathSuffix(n) = << >>
      BY <1>1, <1>7, SuffixFacts, EmptySeq
    <3>2. Len(<< >>) = 0
      OBVIOUS
    <3> QED
      BY <1>1, <3>1, <3>2, NameParts
  <2>3. /\ \A i \in 1 .. k : c[i] = s[i]
        /\ k <= Len(s) /\ (Len(s) <= MaxStem => k = Len(s))
    BY <1>1, <1>4, <1>7, CutFacts
  <2>4. s # <<"evidence">>
    <3>1. Len(<<"evidence">>) = 1
      OBVIOUS
    <3> HIDE DEF s, k
    <3> QED
      BY <2>1, <2>3, <3>1
  <2>5. PICK e \in Nat :
          /\ Window(s, u, e)
          /\ \A i \in 1 .. Len(u) : i > e + Len(s) => u[i] \in Dull
    BY <1>1, <2>2, <2>4, StemFacts
  <2>6. LeftOf(u, m, Len(m))
    BY <1>1, UnderscoredFacts
  <2> HIDE DEF m, u, s, k
  <2>7. /\ Len(s) \in Nat /\ e + Len(s) <= Len(u) /\ Len(u) \in Nat
        /\ \A i \in 1 .. Len(s) : s[i] = u[e + i]
    BY <2>5, <2>6 DEF Window, LeftOf
  <2>8. u[e + k - 1] = "." /\ u[e + k] = c[k]
    <3>1. k - 1 \in 1 .. k /\ k \in 1 .. k /\ k - 1 \in 1 .. Len(s) /\ k \in 1 .. Len(s)
          /\ e + (k - 1) = e + k - 1
      BY <2>1, <2>3, <2>7
    <3> QED
      BY <2>1, <2>3, <2>7, <3>1
  <2>9. e + k - 1 \in 1 .. Len(u) - 1 /\ e + k - 1 + 1 = e + k /\ e + k - 1 + 2 = e + k + 1
    BY <2>1, <2>3, <2>7
  <2>10. PICK j \in 2 .. Len(m) :
           /\ m[j - 1] = "." /\ m[j] = c[k]
           /\ (\A l \in e + k + 1 .. Len(u) : u[l] \notin Sharp) =>
                \A q \in j + 1 .. Len(m) : m[q] \notin Sharp
    <3>1. \A g \in 1 .. Len(u) - 1 : u[g] = "." /\ u[g + 1] \in Letters =>
             \E j \in 2 .. Len(m) :
                /\ m[j - 1] = "." /\ m[j] = u[g + 1]
                /\ (\A l \in g + 2 .. Len(u) : u[l] \notin Sharp) =>
                      \A q \in j + 1 .. Len(m) : m[q] \notin Sharp
      BY <2>6 DEF LeftOf
    <3> DEFINE g == e + k - 1
    <3>2. g \in 1 .. Len(u) - 1 /\ g + 1 = e + k /\ g + 2 = e + k + 1 /\ u[g] = "."
      BY <2>8, <2>9
    <3> HIDE DEF g
    <3>3. u[g + 1] = c[k] /\ u[g + 1] \in Letters
      BY <2>1, <2>8, <3>2
    <3> QED
      BY <3>1, <3>2, <3>3
  <2> DEFINE i == a + j
  <2>11. /\ i \in 2 .. Len(f) /\ i - 1 = a + (j - 1)
         /\ j - 1 \in 1 .. Len(m) /\ j \in 1 .. Len(m)
    BY <1>5
  <2>12. f[i - 1] = c[k - 1] /\ f[i] = c[k]
    BY <1>5, <2>1, <2>10, <2>11
  <2>13. ASSUME Len(s) <= MaxStem, NEW q \in i + 1 .. Len(f) PROVE f[q] \notin Sharp
    <3>1. \A l \in e + k + 1 .. Len(u) : u[l] \notin Sharp
      <4>1. k = Len(s)
        BY <2>3, <2>13
      <4>2. \A l \in e + k + 1 .. Len(u) : l \in 1 .. Len(u) /\ l > e + Len(s)
        BY <2>1, <2>7, <4>1
      <4> QED
        BY <2>5, <4>2, WordPieces DEF Dull
    <3>2. CASE q > a + Len(m)
      <4>1. q \in 1 .. Len(f)
        BY <2>11
      <4> QED
        BY <1>5, <3>2, <4>1
    <3>3. CASE q <= a + Len(m)
      <4>1. q - a \in j + 1 .. Len(m) /\ q - a \in 1 .. Len(m) /\ a + (q - a) = q
        BY <1>5, <3>3
      <4> QED
        BY <1>5, <2>10, <3>1, <4>1
    <3> QED
      BY <1>5, <3>2, <3>3
  <2>14. Lower(<<f[i - 1], f[i]>>) = <<".", x>>
    BY <2>1, <2>12
  <2>15. Len(s) > MaxStem \/ \A q \in i + 1 .. Len(f) : f[q] \notin Sharp
    <3> HIDE DEF i
    <3> QED
      BY <2>7, <2>13, IntakeAssumption
  <2> HIDE DEF i
  <2> QED
    BY <2>11, <2>14, <2>15 DEF s, n
<1> QED
  BY <1>6, <1>7

(* The suffix of a name that ends in a stem, a dot and letters is that dot and these *)
(* letters, whatever stands before them.                                          *)
LEMMA GoodName ==
    ASSUME NEW name0 \in Seq(Pieces), NEW f, f = Shown(name0),
           Len(f) > 2, f[Len(f) - 2] \notin {"/", "blank"},
           NEW x \in Letters, Lower(<<f[Len(f) - 1], f[Len(f)]>>) = <<".", x>>
    PROVE  Suffix(safe_filename(name0)) = <<".", x>>
<1> DEFINE n == Normalized(name0)
           m == PathName(n)
           k == Len(f)
           p == <<f[k - 1], f[k]>>
<1>0. f \in Seq(Pieces)
  BY NormalFacts
<1>1. k \in Nat /\ k - 1 \in 1 .. k /\ k \in 1 .. k
  BY <1>0
<1>2. f[k - 1] = "." /\ f[k] \in Letters
  <2>1. p \in Seq(Pieces)
    BY <1>0, <1>1
  <2>2. p[1] = f[k - 1] /\ p[2] = f[k]
    OBVIOUS
  <2> HIDE DEF p
  <2>3. Lower(p) = <<".", x>>
    BY DEF p
  <2> QED
    BY <2>1, <2>2, <2>3, LowerPair
<1>4. n \in Seq(Pieces) /\ m \in Seq(Pieces)
  BY NormalFacts
<1>5. PICK a \in Nat : Reads(m, f, a)
  BY NormalFacts
<1>6. safe_filename(name0) = Cut(n) \o Suffix(n)
  BY DEF safe_filename, Cut
<1> HIDE DEF n
<1>7. /\ Len(m) \in Nat /\ a <= k - 3 /\ a + Len(m) <= k
      /\ \A i \in 1 .. k : i > a + Len(m) => f[i] \notin Letters
      /\ \A i \in 1 .. Len(m) : m[i] = f[a + i]
  <2> HIDE DEF m
  <2>1. /\ \A i \in 1 .. Len(m) : m[i] = f[a + i]
        /\ a + Len(m) <= k /\ Len(m) \in Nat
    BY <1>4, <1>5 DEF Reads, Window
  <2>2. \A i \in 1 .. k : i > a + Len(m) => f[i] \notin Letters
    BY <1>5, WordPieces DEF Reads, Rest, Sharp
  <2>3. a = 0 \/ f[a] \in Gap
    BY <1>5 DEF Reads
  <2>4. a # k /\ a # k - 1 /\ a # k - 2
    BY <1>1, <1>2, <2>3, WordPieces DEF Gap, Sharp
  <2> QED
    BY <1>1, <2>1, <2>2, <2>4
<1> DEFINE d == Len(m) - 1
<1>8. a + Len(m) = k
  <2> HIDE DEF m
  <2>1. k > a + Len(m) => f[k] \notin Letters
    BY <1>1, <1>7
  <2> QED
    BY <1>1, <1>2, <1>7, <2>1
<1>9. d \in 2 .. Len(m) - 1 /\ a + d = k - 1 /\ Len(m) = d + 1
  <2> HIDE DEF m
  <2> QED
    BY <1>1, <1>7, <1>8
<1>10. m[d] = f[k - 1] /\ m[d + 1] = f[k]
  <2> HIDE DEF m
  <2>1. d \in 1 .. Len(m) /\ d + 1 \in 1 .. Len(m) /\ a + (d + 1) = k
    BY <1>8, <1>9
  <2> HIDE DEF d
  <2> QED
    BY <1>7, <1>9, <2>1
<1> HIDE DEF d
<1>11. SuffixAt(m) = d
  <2> HIDE DEF m
  <2>1. \A i \in d + 1 .. Len(m) : i = d + 1
    BY <1>9
  <2>2. \A i \in d + 1 .. Len(m) : m[i] # "."
    BY <1>2, <1>10, <2>1, WordPieces DEF Sharp
  <2>3. m[d] = "."
    BY <1>2, <1>10
  <2> QED
    BY <1>4, <1>9, <2>2, <2>3, SuffixAtIs
<1>12. PathSuffix(n) = SubSeq(m, d, Len(m))
  BY <1>11 DEF PathSuffix
<1> HIDE DEF m
<1>13. SubSeq(m, d, Len(m)) = p
  <2> DEFINE w == SubSeq(m, d, Len(m))
  <2>1. d \in 1 .. Len(m) + 1 /\ Len(m) \in 0 .. Len(m) /\ d <= Len(m) + 1
    BY <1>7, <1>9
  <2>2. Window(w, m, d - 1) /\ Len(w) = Len(m) + 1 - d
    BY <1>4, <2>1, SubSeqWindow
  <2> HIDE DEF w
  <2>3. Len(w) = 2 /\ d - 1 + 1 = d /\ d - 1 + 2 = d + 1
    BY <1>9, <2>2
  <2>4. w \in Seq(Pieces) /\ w[1] = m[d] /\ w[2] = m[d + 1]
    <3>1. w \in Seq(Pieces) /\ \A i \in 1 .. Len(w) : w[i] = m[d - 1 + i]
      BY <2>2 DEF Window
    <3>2. 1 \in 1 .. Len(w) /\ 2 \in 1 .. Len(w)
      BY <2>3
    <3>3. w[1] = m[d - 1 + 1] /\ w[2] = m[d - 1 + 2]
      BY <3>1, <3>2
    <3> QED
      BY <2>3, <3>1, <3>3
  <2>5. w = <<w[1], w[2]>>
    BY <2>3, <2>4
  <2>6. w = p
    <3>1. w[1] = f[k - 1] /\ w[2] = f[k]
      BY <1>10, <2>4
    <3> HIDE DEF k
    <3> QED
      BY <2>5, <3>1
  <2> QED
    BY <2>6 DEF w
<1>14. Suffix(n) = <<".", x>>
  BY <1>12, <1>13 DEF Suffix
<1>15. Suffix(n) # << >>
  BY <1>14
<1> QED
  BY <1>4, <1>6, <1>14, <1>15, CleanFacts

-----------------------------------------------------------------------------
(* The requests. A name that was stored is the cleaned one and its suffix was        *)
(* judged; one that was refused for its name or type did not fit.                    *)

Judged ==
    /\ cleaned = safe_filename(name)
    /\ Suffix(cleaned) \in Allowed \ Blocked
    /\ MimeMatches(Suffix(cleaned))

Fits ==
    /\ name # << >>
    /\ Suffix(safe_filename(name)) \in Allowed \ Blocked
    /\ MimeMatches(Suffix(safe_filename(name)))

NameCodes == {"FILENAME_REQUIRED", "INVALID_TYPE", "MIME_MISMATCH"}

NameInv ==
    /\ name \in Names /\ type \in Types
    /\ cleaned = << >> \/ Judged
    /\ pc \in {"read", "received"} => Judged
    /\ error \in NameCodes => ~ Fits
    /\ (pc = "refused") = (error # "none")
    /\ size <= MaxSize + ChunkSize /\ copied <= size

LEMMA NameInit == Init => NameInv
BY IntakeAssumption DEF Init, NameInv, NameCodes

LEMMA Kept ==
    ASSUME UNCHANGED <<name, type, cleaned>>
    PROVE  (Judged' <=> Judged) /\ (Fits' <=> Fits)
<1>1. \A e : MimeMatches(e)' <=> MimeMatches(e)
  BY DEF MimeMatches, DeclaredType
<1>2. Judged' <=> Judged
  BY <1>1 DEF Judged
<1>3. Fits' <=> Fits
  BY <1>1 DEF Fits
<1> QED
  BY <1>2, <1>3

LEMMA NameStep ==
    ASSUME SizeInv, NameInv, [Next]_vars
    PROVE  NameInv'
<1>1. CASE UNCHANGED vars
  <2>1. (Judged' <=> Judged) /\ (Fits' <=> Fits)
    BY <1>1, Kept DEF vars
  <2> QED
    BY <1>1, <2>1 DEF vars, NameInv
<1>2. CASE ValidateMetadata
  <2> DEFINE clean == safe_filename(name)
             e == Suffix(clean)
  <2>1. UNCHANGED <<name, type, size, copied>> /\ pc = "metadata"
    BY <1>2 DEF ValidateMetadata
  <2>2. error = "none" /\ size = 0 /\ copied = 0
    BY <2>1 DEF SizeInv
  <2>3. \A x : MimeMatches(x)' <=> MimeMatches(x)
    BY <2>1 DEF MimeMatches, DeclaredType
  <2>4. Fits' <=> Fits
    BY <2>1, <2>3 DEF Fits
  <2>5. Fits <=> name # << >> /\ e \in Allowed \ Blocked /\ MimeMatches(e)
    BY DEF Fits
  <2>6. \/ pc' = "refused" /\ error' \in NameCodes /\ cleaned' = cleaned /\ ~ Fits
        \/ pc' = "read" /\ error' = error /\ cleaned' = clean /\ Fits
    <3> HIDE DEF clean, e
    <3>1. /\ CASE name = << >> -> Refuse("FILENAME_REQUIRED") /\ cleaned' = cleaned
                [] name # << >> /\ ~Supported(e) -> Refuse("INVALID_TYPE") /\ cleaned' = cleaned
                [] name # << >> /\ Supported(e) /\ ~MimeMatches(e) ->
                     Refuse("MIME_MISMATCH") /\ cleaned' = cleaned
                [] OTHER -> pc' = "read" /\ error' = error /\ cleaned' = clean
      BY <1>2 DEF ValidateMetadata, clean, e
    <3>2. CASE name = << >>
      BY <2>5, <3>1, <3>2 DEF Refuse, NameCodes
    <3>3. CASE name # << >> /\ ~Supported(e)
      BY <2>5, <3>1, <3>3 DEF Refuse, NameCodes, Supported
    <3>4. CASE name # << >> /\ Supported(e) /\ ~MimeMatches(e)
      BY <2>5, <3>1, <3>4 DEF Refuse, NameCodes
    <3>5. CASE name # << >> /\ Supported(e) /\ MimeMatches(e)
      BY <2>5, <3>1, <3>5 DEF Supported
    <3> QED
      BY <3>2, <3>3, <3>4, <3>5
  <2>7. CASE pc' = "refused" /\ error' \in NameCodes /\ cleaned' = cleaned /\ ~ Fits
    <3>1. Judged' <=> Judged
      BY <2>1, <2>7, Kept
    <3>2. error' # "none"
      BY <2>7 DEF NameCodes
    <3> QED
      BY <2>1, <2>2, <2>4, <2>7, <3>1, <3>2 DEF NameInv
  <2>8. CASE pc' = "read" /\ error' = error /\ cleaned' = clean /\ Fits
    <3>1. Judged'
      <4>1. cleaned' = safe_filename(name')
        BY <2>1, <2>8
      <4>2. Fits'
        BY <2>4, <2>8
      <4> HIDE DEF clean, e
      <4> QED
        BY <4>1, <4>2 DEF Judged, Fits, MimeMatches
    <3> QED
      BY <2>1, <2>2, <2>8, <3>1 DEF NameInv, NameCodes
  <2> QED
    BY <2>6, <2>7, <2>8
<1>3. CASE ReadChunk
  <2>1. UNCHANGED <<name, type, cleaned>> /\ pc = "read"
    BY <1>3 DEF ReadChunk
  <2>2. (Judged' <=> Judged) /\ (Fits' <=> Fits)
    BY <2>1, Kept
  <2>3. PICK chunk \in 1 .. ChunkSize :
          /\ size' = size + chunk
          /\ IF size + chunk > MaxSize
               THEN pc' = "refused" /\ error' = "TOO_LARGE" /\ copied' = copied
               ELSE copied' = copied + chunk /\ UNCHANGED <<pc, error>>
    BY <1>3 DEF ReadChunk, TooLarge, Refuse
  <2>4. size \in Nat /\ copied \in Nat /\ size <= MaxSize /\ copied = size /\ error = "none"
    BY <2>1, IntakeAssumption DEF SizeInv
  <2>5. size' <= MaxSize + ChunkSize /\ copied' <= size'
    BY <2>3, <2>4, IntakeAssumption
  <2>6. error' \notin NameCodes /\ (pc' = "refused") = (error' # "none")
    BY <2>1, <2>3, <2>4 DEF NameCodes
  <2>7. Judged
    BY <2>1 DEF NameInv
  <2> QED
    BY <2>1, <2>2, <2>5, <2>6, <2>7 DEF NameInv
<1>4. CASE EndOfFile
  <2>1. UNCHANGED <<name, type, cleaned, size, copied>> /\ pc = "read"
    BY <1>4 DEF EndOfFile
  <2>2. (Judged' <=> Judged) /\ (Fits' <=> Fits)
    BY <2>1, Kept
  <2>3. error = "none"
    BY <2>1 DEF SizeInv
  <2>4. \/ pc' = "refused" /\ error' \in {"EMPTY", "TOO_LARGE"}
        \/ pc' = "received" /\ error' = error
    BY <1>4 DEF EndOfFile, Refuse
  <2>5. error' \notin NameCodes /\ (pc' = "refused") = (error' # "none")
    BY <2>3, <2>4 DEF NameCodes
  <2>6. Judged
    BY <2>1 DEF NameInv
  <2> QED
    BY <2>1, <2>2, <2>5, <2>6 DEF NameInv
<1> QED
  BY <1>1, <1>2, <1>3, <1>4 DEF Next, Ended

LEMMA NamesKept == Spec => [](SizeInv /\ NameInv)
<1>1. Init => SizeInv /\ NameInv
  BY SizeInit, NameInit
<1>2. SizeInv /\ NameInv /\ [Next]_vars => (SizeInv /\ NameInv)'
  BY SizeStep, NameStep
<1> QED
  BY <1>1, <1>2, PTL DEF Spec

LEMMA JudgedNames ==
    ASSUME NameInv, Judged
    PROVE  /\ name \in Seq(Pieces)
           /\ \E x \in Letters : Suffix(cleaned) = <<".", x>>
           /\ cleaned \in Seq(Pieces) /\ \A i \in 1 .. Len(cleaned) : cleaned[i] \in Word
           /\ Len(cleaned) \in 3 .. MaxStem + 2 /\ cleaned[1] \in Sharp
<1>1. name \in Seq(Pieces)
  BY PiecesAssumption DEF NameInv
<1>2. PICK x \in Letters : Suffix(cleaned) = <<".", x>>
  BY PiecesAssumption DEF Judged
<1>3. cleaned = Cut(Normalized(name)) \o Suffix(Normalized(name))
  BY DEF Judged, safe_filename, Cut
<1>4. Normalized(name) \in Seq(Pieces)
  BY <1>1, NormalFacts
<1> QED
  BY <1>1, <1>2, <1>3, <1>4, NameSafe

(* For any names and limits: the request is what the declarations say, and a name is  *)
(* stored or still empty.                                                        *)
THEOREM IntakeTyped == Spec => []TypeOK
<1>1. SizeInv /\ NameInv => TypeOK
  <2> SUFFICES ASSUME SizeInv, NameInv PROVE TypeOK
    OBVIOUS
  <2>1. cleaned \in Seq(Pieces)
    <3>1. CASE cleaned = << >>
      BY <3>1
    <3>2. CASE Judged
      BY <3>2, JudgedNames
    <3> QED
      BY <3>1, <3>2 DEF NameInv
  <2>2. size \in 0 .. MaxSize + ChunkSize /\ copied \in 0 .. size
    BY IntakeAssumption DEF SizeInv, NameInv
  <2> QED
    BY <2>1, <2>2 DEF SizeInv, NameInv, TypeOK
<1> QED
  BY <1>1, NamesKept, PTL

(* For any names and whatever NFKC makes of their pieces: what is accepted is stored  *)
(* under a name of letters, hyphens, dots and underscores that begins with letters or  *)
(* a hyphen and is neither too long nor too short.                                  *)
THEOREM NamesSafe == Spec => []StoredNameSafe
<1>1. NameInv => StoredNameSafe
  <2> SUFFICES ASSUME NameInv, Accepted PROVE StoredNameSafe
    BY DEF StoredNameSafe
  <2>1. Judged
    BY DEF NameInv, Accepted
  <2>2. DOMAIN cleaned = 1 .. Len(cleaned)
    BY <2>1, JudgedNames
  <2> QED
    BY <2>1, <2>2, JudgedNames, WordPieces DEF StoredNameSafe
<1> QED
  BY <1>1, NamesKept, PTL

(* For any names and whatever NFKC makes of their pieces: the extension a file is     *)
(* accepted for stands in the name it was sent under, as that name is shown, and no    *)
(* letter or hyphen follows it there unless the stem was cut.                       *)
THEOREM TypesJudged == Spec => []TypeJudgedByName
<1>1. NameInv => TypeJudgedByName
  <2> SUFFICES ASSUME NameInv, Accepted PROVE TypeJudgedByName
    BY DEF TypeJudgedByName
  <2>1. Judged
    BY DEF NameInv, Accepted
  <2>2. PICK x \in Letters : Suffix(cleaned) = <<".", x>>
    BY <2>1, JudgedNames
  <2>3. name \in Seq(Pieces) /\ cleaned = safe_filename(name)
    BY <2>1, JudgedNames DEF Judged
  <2> DEFINE f == Shown(name)
  <2>4. PICK i \in 2 .. Len(f) :
          /\ Lower(<<f[i - 1], f[i]>>) = <<".", x>>
          /\ \/ \A j \in i + 1 .. Len(f) : f[j] \notin Sharp
             \/ Len(Stem(Normalized(name))) > MaxStem
    BY <2>2, <2>3, NameJudges
  <2>5. <<".", x>> \in Allowed \ Blocked /\ MimeMatches(<<".", x>>)
    BY <2>1, <2>2 DEF Judged
  <2> QED
    BY <2>4, <2>5 DEF TypeJudgedByName, Sharp
<1> QED
  BY <1>1, NamesKept, PTL

(* For any names and whatever NFKC makes of their pieces: one that, as it is shown,   *)
(* ends in a stem, a dot and an extension that is allowed, with a type that fits it,   *)
(* is not refused for its name or type.                                           *)
THEOREM GoodNamesAccepted == Spec => []GoodNamesPass
<1>1. NameInv => GoodNamesPass
  <2> DEFINE f == Shown(name)
             e == Lower(<<f[Len(f) - 1], f[Len(f)]>>)
  <2> SUFFICES ASSUME NameInv, Len(f) > 2, f[Len(f) - 2] \notin {"/", "blank"},
                      e \in Allowed \ Blocked, MimeMatches(e)
               PROVE  error \notin NameCodes
    BY DEF GoodNamesPass, NameCodes
  <2>1. name \in Seq(Pieces)
    BY PiecesAssumption DEF NameInv
  <2>2. PICK x \in Letters : e = <<".", x>>
    BY PiecesAssumption
  <2>3. Suffix(safe_filename(name)) = e
    BY <2>1, <2>2, GoodName
  <2>4. name # << >>
    <3> SUFFICES ASSUME name = << >> PROVE FALSE
      OBVIOUS
    <3>1. f = << >>
      BY ShownNothing
    <3> QED
      BY <3>1
  <2> HIDE DEF e, f
  <2>5. Fits
    BY <2>3, <2>4 DEF Fits
  <2> QED
    BY <2>5 DEF NameInv
<1> QED
  BY <1>1, NamesKept, PTL
=============================================================================
