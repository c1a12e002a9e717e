-------------------------- MODULE NXArchiveProofs --------------------------
(***************************************************************************)
(* NXExtractArchive never reads outside of the buffer, always appends      *)
(* names to the location alone, and extracts what the format says, for     *)
(* every stream.  The first two facts are inductive together: the position *)
(* never passes the end because every read is checked against what         *)
(* remains, and a name is cut off the path again before the next command.  *)
(* On them rests the third: at every command, the entries of the stream    *)
(* are those written so far and those of the stream from here on.          *)
(***************************************************************************)
EXTENDS NXFormat, SequenceTheorems, FiniteSetTheorems, WellFoundedInduction, TLAPS

Inv == TypeOK /\ ReadsInBounds

\* What a reader of the stream returns, wherever it starts in the buffer.
LEMMA ReadIntInBounds ==
    ASSUME buf \in Seq(Nat), NEW p \in 0..Len(buf)
    PROVE  /\ IntAt(p) \in Nat
           /\ AfterInt(p) \in 0..Len(buf) /\ AfterInt(p) >= p
           /\ TouchInt(p) \subseteq 1..Len(buf)
           /\ IntAt(p) # 0 => AfterInt(p) = p + 1
<1>1. Len(buf) \in Nat
  OBVIOUS
<1>2. CASE p + 1 > Len(buf)
  BY <1>1, <1>2 DEF IntAt, AfterInt, TouchInt, Touch
<1>3. CASE p + 1 <= Len(buf)
  <2>1. buf[p + 1] \in Nat
    BY <1>1, <1>3
  <2> QED BY <1>1, <1>3, <2>1 DEF IntAt, AfterInt, TouchInt, Touch
<1> QED BY <1>1, <1>2, <1>3

LEMMA PieceInBounds ==
    ASSUME buf \in Seq(Nat), NEW p \in 0..Len(buf), NEW size \in Nat, Remains(p, size)
    PROVE  p + size \in 0..Len(buf) /\ Touch(p, size) \subseteq 1..Len(buf)
  BY DEF Remains, Touch

\* The base of the path is what is left when the name is cut off.
LEMMA RestoredIsBase ==
    ASSUME tmp_path = Base
    PROVE  Restored = Base
<1>1. Base \in Seq(Nat) /\ Len(Base) = Len(Location) + 1
  BY ArchiveAssumption DEF Base
<1>2. SubSeq(Base, 1, Len(Base)) = Base
  BY <1>1
<1> QED BY <1>1, <1>2 DEF Restored

\* A command that is not 0 has been read, so its position is in the buffer; what
\* follows it, a name, and what follows the name are in the buffer as well.
LEMMA NameInBounds ==
    ASSUME Inv, NEW c \in Nat \ {0}, Command(c)
    PROVE  /\ pos + 1 \in 1..Len(buf)
           /\ TouchInt(pos) \subseteq 1..Len(buf) /\ TouchInt(pos + 1) \subseteq 1..Len(buf)
           /\ IntAt(pos + 1) \in Nat /\ AfterInt(pos + 1) \in 1..Len(buf)
           /\ TouchName \subseteq 1..Len(buf)
           /\ HasName => NameEnd \in 0..Len(buf)
<1>1. buf \in Seq(Nat) /\ pos \in 0..Len(buf) /\ Len(buf) \in Nat
  BY DEF Inv, TypeOK, ReadsInBounds
<1>2. pos + 1 \in 1..Len(buf) /\ TouchInt(pos) \subseteq 1..Len(buf)
  <2>1. IntAt(pos) # 0
    BY DEF Command
  <2>2. AfterInt(pos) \in 0..Len(buf) /\ AfterInt(pos) = pos + 1 /\ TouchInt(pos) \subseteq 1..Len(buf)
    BY <1>1, <2>1, ReadIntInBounds
  <2> QED BY <1>1, <2>2
<1>3. /\ IntAt(pos + 1) \in Nat
      /\ AfterInt(pos + 1) \in 0..Len(buf) /\ AfterInt(pos + 1) >= pos + 1
      /\ TouchInt(pos + 1) \subseteq 1..Len(buf)
  BY <1>1, <1>2, ReadIntInBounds
<1>4. NameStart \in 1..Len(buf) /\ NameSize \in Nat
  BY <1>1, <1>2, <1>3 DEF NameStart, NameSize
<1>5. ASSUME Remains(NameStart, NameSize)
      PROVE  /\ NameStart + NameSize \in 1..Len(buf)
             /\ Touch(NameStart, NameSize) \subseteq 1..Len(buf)
  BY <1>1, <1>4, <1>5, PieceInBounds DEF Remains
<1>6. TouchString(NameStart, NameSize) \subseteq 1..Len(buf)
  BY <1>5 DEF TouchString
<1>7. TouchName \subseteq 1..Len(buf)
  BY <1>2, <1>3, <1>6 DEF TouchName
<1>8. HasName => NameEnd \in 0..Len(buf)
  BY <1>1, <1>5 DEF HasName, HasString, NameEnd
<1> QED BY <1>1, <1>2, <1>3, <1>7, <1>8, SMTT(30)

LEMMA InitInv == Init => Inv
<1> SUFFICES ASSUME Init PROVE Inv
  OBVIOUS
<1>1. buf \in Seq(Nat)
  BY ArchiveAssumption DEF Init
<1>2. Len(buf) \in Nat
  BY <1>1
<1>3. result = "running" => Fits(Base)
  BY DEF Init
<1>4. pos = 0 /\ touched = {} /\ tmp_path = Base
  BY DEF Init
<1> QED BY <1>1, <1>2, <1>3, <1>4 DEF Inv, TypeOK, ReadsInBounds

LEMMA NextInv ==
    ASSUME Inv, [Next]_vars
    PROVE  Inv'
<1>0. buf \in Seq(Nat) /\ pos \in 0..Len(buf) /\ Len(buf) \in Nat /\ tmp_path = Base
  BY DEF Inv, TypeOK, ReadsInBounds
<1>1. CASE ReadHeader
  <2>1. Header \in Nat \ {0}
    BY ArchiveAssumption
  <2>2. touched' \subseteq 1..Len(buf)
    BY <1>1, <2>1, NameInBounds DEF ReadHeader
  <2>3. pos' \in 0..Len(buf)
    <3>1. Command(Header)
      BY <1>1 DEF ReadHeader
    <3>2. AfterInt(pos + 1) \in 1..Len(buf)
      BY <2>1, <3>1, NameInBounds
    <3>3. AfterInt(pos + 1) \in 0..Len(buf)
      BY <1>0, <3>2
    <3>4. pos' = pos \/ pos' = AfterInt(pos + 1)
      BY <1>1 DEF ReadHeader, Fail
    <3> QED BY <1>0, <3>3, <3>4
  <2>4. UNCHANGED <<buf, tmp_path>> /\ (result' = "running" => result = "running")
    BY <1>1 DEF ReadHeader, Fail, Command
  <2> QED BY <1>0, <2>2, <2>3, <2>4 DEF Inv, TypeOK, ReadsInBounds
<1>2. ASSUME NEW c \in {File, Dir}, BadName(c)
      PROVE  Inv'
  <2>1. c \in Nat \ {0}
    BY ArchiveAssumption
  <2>2. touched' \subseteq 1..Len(buf)
    BY <1>2, <2>1, NameInBounds DEF BadName
  <2>3. UNCHANGED <<buf, tmp_path, pos>> /\ (result' = "running" => result = "running")
    BY <1>2 DEF BadName, Fail, Command
  <2> QED BY <1>0, <2>2, <2>3 DEF Inv, TypeOK, ReadsInBounds
<1>3. CASE WriteFile
  <2> DEFINE start == AfterInt(NameEnd)
             size  == IntAt(NameEnd)
  <2>1. File \in Nat \ {0} /\ Command(File) /\ HasName
    BY <1>3, ArchiveAssumption DEF WriteFile
  <2>2. NameEnd \in 0..Len(buf) /\ TouchName \subseteq 1..Len(buf)
    BY <2>1, NameInBounds
  <2>3. start \in 0..Len(buf) /\ size \in Nat /\ TouchInt(NameEnd) \subseteq 1..Len(buf)
    BY <1>0, <2>2, ReadIntInBounds
  <2>4. Remains(start, size) => /\ start + size \in 0..Len(buf)
                                /\ Touch(start, size) \subseteq 1..Len(buf)
    BY <1>0, <2>3, PieceInBounds
  <2>5. touched' \subseteq 1..Len(buf)
    BY <1>3, <2>2, <2>3, <2>4 DEF WriteFile
  <2>6. pos' \in 0..Len(buf)
    BY <1>0, <1>3, <2>4 DEF WriteFile, Fail
  <2>7. buf' = buf /\ (tmp_path' = tmp_path \/ tmp_path' = Restored)
        /\ (result' = "running" => result = "running")
    BY <1>3 DEF WriteFile, Fail, Command
  <2> QED BY <1>0, <2>5, <2>6, <2>7, RestoredIsBase DEF Inv, TypeOK, ReadsInBounds
<1>4. CASE MakeDir
  <2>1. Dir \in Nat \ {0} /\ Command(Dir) /\ HasName
    BY <1>4, ArchiveAssumption DEF MakeDir
  <2>2. NameEnd \in 0..Len(buf) /\ TouchName \subseteq 1..Len(buf)
    BY <2>1, NameInBounds
  <2> QED BY <1>0, <1>4, <2>2, RestoredIsBase DEF MakeDir, Inv, TypeOK, ReadsInBounds
<1>5. CASE Finished
  <2>1. TouchInt(pos) \subseteq 1..Len(buf) /\ AfterInt(pos) \in 0..Len(buf)
    BY <1>0, ReadIntInBounds
  <2> QED BY <1>0, <1>5, <2>1 DEF Finished, Inv, TypeOK, ReadsInBounds
<1>6. CASE Invalid
  <2>1. TouchInt(pos) \subseteq 1..Len(buf)
    BY <1>0, ReadIntInBounds
  <2> QED BY <1>0, <1>6, <2>1 DEF Invalid, Fail, Inv, TypeOK, ReadsInBounds
<1>7. CASE UNCHANGED vars
  BY <1>7 DEF vars, Inv, TypeOK, ReadsInBounds
<1> QED BY <1>1, <1>2, <1>3, <1>4, <1>5, <1>6, <1>7 DEF Next

\* Whatever the stream claims about sizes, and wherever it is cut, no command
\* reads outside of the buffer.
THEOREM ArchiveReadsInBounds == Spec => []ReadsInBounds
<1>1. Inv => ReadsInBounds
  BY DEF Inv
<1> QED BY <1>1, InitInv, NextInv, PTL DEF Spec

\* Every name is appended to the location alone, never to the name before it.
THEOREM ArchivePathRestored == Spec => []TypeOK
<1>1. Inv => TypeOK
  BY DEF Inv
<1> QED BY <1>1, InitInv, NextInv, PTL DEF Spec

------------------------------------------------------------------------------
(* The format by positions: MeaningFrom speaks of what is left of the stream, the code   *)
(* of where it is.                                                                       *)

NameFits(p) == HasString(AfterInt(p + 1), IntAt(p + 1)) /\ IntAt(p + 1) # 0
PathAt(p) == Base \o StringAt(AfterInt(p + 1), IntAt(p + 1))
EndAt(p) == AfterInt(p + 1) + IntAt(p + 1)
StartAt(p) == AfterInt(EndAt(p))
SizeAt(p) == IntAt(EndAt(p))

Reads(M, p) ==
    CASE IntAt(p) = End -> [ok |-> TRUE, out |-> << >>]
      [] IntAt(p) = Header /\ IntAt(p + 1) = Magic -> M[AfterInt(p + 1)]
      [] IntAt(p) = Dir /\ NameFits(p) /\ Fits(PathAt(p)) ->
           Then(<<"dir", PathAt(p), << >>>>, M[EndAt(p)])
      [] IntAt(p) = File /\ NameFits(p) /\ Fits(PathAt(p)) /\ Remains(StartAt(p), SizeAt(p)) ->
           Then(<<"file", PathAt(p), SubSeq(buf, StartAt(p) + 1, StartAt(p) + SizeAt(p))>>, M[StartAt(p) + SizeAt(p)])
      [] OTHER -> Bad

LEMMA CommandsDiffer ==
    /\ {Header, File, Dir, End} \subseteq Nat \ {0} /\ Magic \in Nat \ {0}
    /\ Header # File /\ Header # Dir /\ Header # End /\ File # Dir /\ File # End /\ Dir # End
<1>1. {Header, File, Dir, End} \subseteq Nat \ {0} /\ Magic \in Nat \ {0} /\ Cardinality({Header, File, Dir, End}) = 4
  BY ArchiveAssumption
<1>2. ASSUME NEW a, NEW b, NEW c, {Header, File, Dir, End} = {a, b, c} PROVE FALSE
  <2>1. IsFiniteSet({a, b}) /\ Cardinality({a, b}) <= 2 /\ Cardinality({a, b}) \in Nat
    <3>1. IsFiniteSet({a}) /\ Cardinality({a}) = 1
      BY FS_Singleton
    <3>2. {a, b} = {a} \cup {b}
      OBVIOUS
    <3>3. QED BY <3>1, <3>2, FS_AddElement
  <2>2. {a, b, c} = {a, b} \cup {c}
    OBVIOUS
  <2>3. Cardinality({a, b, c}) <= 3
    BY <2>1, <2>2, FS_AddElement
  <2>4. QED BY <1>1, <1>2, <2>3
<1>3. Header # File
  <2>1. Header = File => {Header, File, Dir, End} = {File, Dir, End}
    OBVIOUS
  <2>2. QED BY <1>2, <2>1
<1>4. Header # Dir
  <2>1. Header = Dir => {Header, File, Dir, End} = {File, Dir, End}
    OBVIOUS
  <2>2. QED BY <1>2, <2>1
<1>5. Header # End
  <2>1. Header = End => {Header, File, Dir, End} = {File, Dir, End}
    OBVIOUS
  <2>2. QED BY <1>2, <2>1
<1>6. File # Dir
  <2>1. File = Dir => {Header, File, Dir, End} = {Header, Dir, End}
    OBVIOUS
  <2>2. QED BY <1>2, <2>1
<1>7. File # End
  <2>1. File = End => {Header, File, Dir, End} = {Header, Dir, End}
    OBVIOUS
  <2>2. QED BY <1>2, <2>1
<1>8. Dir # End
  <2>1. Dir = End => {Header, File, Dir, End} = {Header, File, End}
    OBVIOUS
  <2>2. QED BY <1>2, <2>1
<1>9. QED BY <1>1, <1>3, <1>4, <1>5, <1>6, <1>7, <1>8

\* What is left of a stream.
LEMMA AfterFacts ==
    ASSUME NEW s \in Seq(Nat), NEW n \in Nat
    PROVE  /\ After(s, n) \in Seq(Nat)
           /\ Len(After(s, n)) = IF n <= Len(s) THEN Len(s) - n ELSE 0
           /\ \A i \in 1..(Len(s) - n) : After(s, n)[i] = s[n + i]
           /\ After(s, n) = << >> <=> n >= Len(s)
<1>1. Len(s) \in Nat /\ \A i \in (n + 1)..Len(s) : s[i] \in Nat
  BY ElementOfSeq, LenProperties
<1>2. /\ SubSeq(s, n + 1, Len(s)) \in Seq(Nat)
      /\ Len(SubSeq(s, n + 1, Len(s))) = IF n + 1 <= Len(s) THEN Len(s) - (n + 1) + 1 ELSE 0
      /\ \A i \in 1..(Len(s) - (n + 1) + 1) : SubSeq(s, n + 1, Len(s))[i] = s[n + 1 + i - 1]
  BY <1>1, SubSeqProperties
<1> DEFINE r == After(s, n)
           z == Len(s)
<1>3. /\ r \in Seq(Nat) /\ Len(r) = IF n + 1 <= z THEN z - (n + 1) + 1 ELSE 0
      /\ \A i \in 1..(z - (n + 1) + 1) : r[i] = s[n + 1 + i - 1]
  BY <1>2 DEF After
<1>4. r = << >> <=> Len(r) = 0
  BY <1>3, EmptySeq
<1>5. z \in Nat
  BY <1>1
<1> HIDE DEF r, z
<1>6. Len(r) = IF n <= z THEN z - n ELSE 0
  BY ONLY <1>3, <1>5
<1>7. ASSUME NEW i \in 1..(z - n) PROVE r[i] = s[n + i]
  <2>1. i \in 1..(z - (n + 1) + 1) /\ n + 1 + i - 1 = n + i
    BY ONLY <1>5, <1>7
  <2>2. QED BY <1>3, <2>1
<1>8. r = << >> <=> n >= z
  BY ONLY <1>4, <1>5, <1>6
<1>9. QED BY <1>3, <1>6, <1>7, <1>8 DEF r, z

LEMMA AfterAfter ==
    ASSUME NEW s \in Seq(Nat), NEW m \in Nat, NEW n \in Nat
    PROVE  After(After(s, m), n) = After(s, m + n)
<1> DEFINE r == After(s, m)
           a == After(r, n)
           b == After(s, m + n)
           z == Len(s)
<1>1. r \in Seq(Nat) /\ Len(r) = (IF m <= z THEN z - m ELSE 0) /\ \A i \in 1..(z - m) : r[i] = s[m + i]
  <2>1. r \in Seq(Nat) /\ Len(r) = (IF m <= z THEN z - m ELSE 0)
    BY AfterFacts
  <2>2. \A i \in 1..(z - m) : r[i] = s[m + i]
    BY AfterFacts
  <2> HIDE DEF r, z
  <2>3. QED BY ONLY <2>1, <2>2
<1>2. a \in Seq(Nat) /\ Len(a) = (IF n <= Len(r) THEN Len(r) - n ELSE 0) /\ \A i \in 1..(Len(r) - n) : a[i] = r[n + i]
  <2> HIDE DEF r
  <2>1. r \in Seq(Nat)
    BY ONLY <1>1
  <2>2. a \in Seq(Nat) /\ Len(a) = (IF n <= Len(r) THEN Len(r) - n ELSE 0)
    BY ONLY <2>1, n \in Nat, AfterFacts DEF a
  <2>3. \A i \in 1..(Len(r) - n) : a[i] = r[n + i]
    BY ONLY <2>1, n \in Nat, AfterFacts DEF a
  <2> HIDE DEF a
  <2>4. QED BY ONLY <2>2, <2>3
<1>3. b \in Seq(Nat) /\ Len(b) = (IF m + n <= z THEN z - (m + n) ELSE 0) /\ \A i \in 1..(z - (m + n)) : b[i] = s[m + n + i]
  <2>1. m + n \in Nat
    OBVIOUS
  <2>2. b \in Seq(Nat) /\ Len(b) = (IF m + n <= z THEN z - (m + n) ELSE 0)
    BY <2>1, AfterFacts
  <2>3. \A i \in 1..(z - (m + n)) : b[i] = s[m + n + i]
    BY <2>1, AfterFacts
  <2> HIDE DEF b, z
  <2>4. QED BY ONLY <2>2, <2>3
<1>4. z \in Nat
  BY LenProperties
<1> HIDE DEF r, a, b, z
<1>5. Len(a) = Len(b) /\ Len(a) \in Nat
  BY ONLY <1>1, <1>2, <1>3, <1>4, SMTT(30)
<1>6. ASSUME NEW i \in 1..Len(a) PROVE a[i] = b[i]
  <2>1. /\ i \in 1..(Len(r) - n) /\ n + i \in 1..(z - m) /\ i \in 1..(z - (m + n))
        /\ m + (n + i) = m + n + i
    BY ONLY <1>1, <1>2, <1>4, <1>6
  <2>2. a[i] = r[n + i]
    BY ONLY <1>2, <2>1
  <2>3. r[n + i] = s[m + (n + i)]
    BY ONLY <1>1, <2>1
  <2>4. b[i] = s[m + n + i]
    BY ONLY <1>3, <2>1
  <2>5. QED BY ONLY <2>1, <2>2, <2>3, <2>4
<1>7. a = b
  BY ONLY <1>2, <1>3, <1>5, <1>6, SeqEqual
<1>8. QED BY <1>7 DEF a, b, r

LEMMA IntFacts ==
    ASSUME buf \in Seq(Nat), NEW p \in 0..Len(buf)
    PROVE  /\ p < Len(buf) => IntAt(p) = buf[p + 1] /\ AfterInt(p) = p + 1
           /\ p = Len(buf) => IntAt(p) = 0 /\ AfterInt(p) = p
           /\ IntAt(p) \in Nat /\ Len(buf) \in Nat
<1> DEFINE z == Len(buf)
<1>1. z \in Nat
  BY LenProperties
<1>2. \A i \in 1..z : buf[i] \in Nat
  BY ElementOfSeq
<1>3. IntAt(p) = (IF p + 1 > z THEN 0 ELSE buf[p + 1]) /\ AfterInt(p) = IF p + 1 > z THEN p ELSE p + 1
  BY DEF IntAt, AfterInt
<1> HIDE DEF z
<1>4. p \in 0..z
  BY DEF z
<1>5. QED BY <1>1, <1>2, <1>3, <1>4 DEF z

\* A piece of what is left is a piece of the stream.
LEMMA PieceOfRest ==
    ASSUME NEW s \in Seq(Nat), NEW a \in Nat, NEW k \in Nat, a + k <= Len(s)
    PROVE  SubSeq(After(s, a), 1, k) = SubSeq(s, a + 1, a + k) /\ SubSeq(s, a + 1, a + k) \in Seq(Nat)
<1> DEFINE r == After(s, a)
           x == SubSeq(r, 1, k)
           y == SubSeq(s, a + 1, a + k)
           z == Len(s)
<1>1. r \in Seq(Nat) /\ Len(r) = (IF a <= z THEN z - a ELSE 0)
  BY AfterFacts
<1>2. \A i \in 1..(z - a) : r[i] = s[a + i]
  BY AfterFacts
<1>3. z \in Nat /\ \A i \in 1..z : s[i] \in Nat
  BY LenProperties, ElementOfSeq
<1>4. \A i \in 1..Len(r) : r[i] \in Nat
  <2> HIDE DEF r
  <2>1. QED BY ONLY <1>1, ElementOfSeq
<1>5. a + k <= z
  OBVIOUS
<1> HIDE DEF r, z
<1>6. Len(r) = z - a /\ 1 \in Int /\ k \in Int /\ a + 1 \in Int /\ a + k \in Int
  BY <1>1, <1>3, <1>5
<1>7. \A i \in 1..k : r[i] \in Nat
  BY <1>3, <1>4, <1>5, <1>6
<1>8. \A i \in (a + 1)..(a + k) : s[i] \in Nat
  BY <1>3, <1>5
<1>9. x \in Seq(Nat) /\ Len(x) = (IF 1 <= k THEN k - 1 + 1 ELSE 0) /\ \A i \in 1..(k - 1 + 1) : x[i] = r[1 + i - 1]
  <2>1. x \in Seq(Nat) /\ Len(x) = (IF 1 <= k THEN k - 1 + 1 ELSE 0)
    BY <1>6, <1>7, SubSeqProperties
  <2>2. \A i \in 1..(k - 1 + 1) : x[i] = r[1 + i - 1]
    BY <1>6, <1>7, SubSeqProperties
  <2>3. QED BY <2>1, <2>2
<1>10. y \in Seq(Nat) /\ Len(y) = (IF a + 1 <= a + k THEN (a + k) - (a + 1) + 1 ELSE 0)
       /\ \A i \in 1..((a + k) - (a + 1) + 1) : y[i] = s[a + 1 + i - 1]
  <2>1. y \in Seq(Nat) /\ Len(y) = (IF a + 1 <= a + k THEN (a + k) - (a + 1) + 1 ELSE 0)
    BY <1>6, <1>8, SubSeqProperties
  <2>2. \A i \in 1..((a + k) - (a + 1) + 1) : y[i] = s[a + 1 + i - 1]
    BY <1>6, <1>8, SubSeqProperties
  <2>3. QED BY <2>1, <2>2
<1> HIDE DEF x, y
<1>11. Len(x) = k /\ Len(y) = k
  BY ONLY <1>9, <1>10, a \in Nat, k \in Nat
<1>12. ASSUME NEW i \in 1..k PROVE x[i] = y[i]
  <2>1. /\ i \in 1..(k - 1 + 1) /\ 1 + i - 1 = i /\ i \in 1..((a + k) - (a + 1) + 1) /\ a + 1 + i - 1 = a + i
        /\ i \in 1..(z - a)
    BY ONLY <1>3, <1>5, <1>12, a \in Nat, k \in Nat
  <2>2. x[i] = r[i] /\ r[i] = s[a + i] /\ y[i] = s[a + i]
    BY ONLY <1>2, <1>9, <1>10, <2>1
  <2>3. QED BY ONLY <2>2
<1>13. x = y
  BY ONLY <1>9, <1>10, <1>11, <1>12, SeqEqual
<1>14. QED BY <1>10, <1>13 DEF x, y, r

\* A string of size n at a that ends with NUL, and its first NUL.
LEMMA FirstNulAt ==
    ASSUME buf \in Seq(Nat), NEW a \in Nat, NEW n \in Nat \ {0}, a + n <= Len(buf), buf[a + n] = NUL
    PROVE  LET k == FirstNul(After(buf, a))
           IN  /\ k \in 1..n
               /\ StringAt(a, n) = SubSeq(buf, a + 1, a + k - 1)
<1> DEFINE s == After(buf, a)
           z == Len(buf)
           F(j) == j \in 1..n /\ buf[a + j] = NUL /\ \A m \in 1..(j - 1) : buf[a + m] # NUL
<1>1. s \in Seq(Nat) /\ Len(s) = (IF a <= z THEN z - a ELSE 0) /\ z \in Nat
  BY AfterFacts, LenProperties
<1>2. \A i \in 1..(z - a) : s[i] = buf[a + i]
  BY AfterFacts
<1>3. a + n <= z
  OBVIOUS
<1> HIDE DEF s, z
<1>4. \E j : F(j)
  <2> DEFINE D == {j \in 1..n : buf[a + j] = NUL}
  <2>1. n \in D /\ D \in SUBSET Nat
    OBVIOUS
  <2>2. PICK j \in D : \A m \in D : ~(<<m, j>> \in OpToRel(<, Nat))
    BY <2>1, WFMin, NatLessThanWellFounded, Zenon
  <2>3. j \in 1..n /\ buf[a + j] = NUL
    BY <2>2, Zenon
  <2>4. ASSUME NEW m \in 1..(j - 1), buf[a + m] = NUL PROVE FALSE
    <3>1. m \in 1..n /\ m < j /\ m \in Nat /\ j \in Nat
      BY <2>3, <2>4
    <3>2. m \in D
      BY <2>4, <3>1
    <3>3. QED BY <2>2, <3>1, <3>2 DEF OpToRel
  <2>5. QED BY <2>3, <2>4
<1>5. ASSUME NEW i, NEW j, F(i), F(j) PROVE i = j
  <2>1. i \in 1..n /\ j \in 1..n /\ ~(i \in 1..(j - 1)) /\ ~(j \in 1..(i - 1))
    BY <1>5
  <2>2. QED BY <2>1
<1>6. ASSUME NEW j PROVE F(j) <=> j \in 1..Len(s) /\ s[j] = NUL /\ \A m \in 1..(j - 1) : s[m] # NUL
  <2>1. Len(s) = z - a /\ n \in 1..Len(s)
    BY <1>1, <1>3
  <2>2. ASSUME j \in 1..Len(s), \A m \in 1..(j - 1) : s[m] # NUL PROVE j \in 1..n
    <3>1. s[n] = NUL
      BY <1>2, <2>1
    <3>2. ~(n \in 1..(j - 1))
      BY <2>2, <3>1
    <3>3. QED BY <2>1, <2>2, <3>2
  <2>3. \A i \in 1..n : i \in 1..Len(s) /\ s[i] = buf[a + i]
    BY <1>2, <2>1, SMTT(30)
  <2>4. ASSUME j \in 1..n PROVE \A m \in 1..(j - 1) : s[m] = buf[a + m]
    <3>1. \A m \in 1..(j - 1) : m \in 1..n
      BY <2>4
    <3>2. QED BY <2>3, <3>1
  <2>5. ASSUME F(j) PROVE j \in 1..Len(s) /\ s[j] = NUL /\ \A m \in 1..(j - 1) : s[m] # NUL
    BY <2>3, <2>4, <2>5
  <2>6. ASSUME j \in 1..Len(s), s[j] = NUL, \A m \in 1..(j - 1) : s[m] # NUL PROVE F(j)
    <3>1. j \in 1..n
      BY <2>2, <2>6
    <3>2. QED BY <2>3, <2>4, <2>6, <3>1
  <2>7. QED BY <2>5, <2>6
<1> DEFINE k == FirstNul(s)
           l == CHOOSE j \in 1..n : buf[a + j] = NUL /\ \A m \in 1..(j - 1) : buf[a + m] # NUL
<1>7. F(l)
  <2>1. \E j \in 1..n : buf[a + j] = NUL /\ \A m \in 1..(j - 1) : buf[a + m] # NUL
    BY <1>4
  <2>2. QED BY <2>1, Zenon
<1>8. F(k)
  <2>1. \E j \in 1..Len(s) : s[j] = NUL /\ \A m \in 1..(j - 1) : s[m] # NUL
    BY <1>4, <1>6
  <2>2. k \in 1..Len(s) /\ s[k] = NUL /\ \A m \in 1..(k - 1) : s[m] # NUL
    BY <2>1, Zenon DEF FirstNul
  <2>3. QED BY <1>6, <2>2
<1>9. StringAt(a, n) = SubSeq(buf, a + 1, a + l - 1)
  BY DEF StringAt
<1> HIDE DEF k, l
<1>10. k = l
  BY <1>5, <1>7, <1>8
<1>11. QED BY <1>8, <1>9, <1>10 DEF k, s

\* What MeaningFrom says of the stream from p on is what the code reads at p.
LEMMA PathOfRest ==
    ASSUME buf \in Seq(Nat), NEW a \in Nat, NEW n \in Nat \ {0}, a + n <= Len(buf), buf[a + n] = NUL
    PROVE  /\ PathOf(After(buf, a)) = Base \o StringAt(a, n)
           /\ PathOf(After(buf, a)) \in Seq(Nat)
           /\ Short(After(buf, a)) <=> Fits(Base \o StringAt(a, n))
<1> DEFINE s == After(buf, a)
           k == FirstNul(s)
           q == SubSeq(buf, a + 1, a + k - 1)
<1>1. k \in 1..n
  BY FirstNulAt
<1>2. StringAt(a, n) = q
  BY FirstNulAt
<1>3. NameOf(s) = SubSeq(s, 1, k - 1)
  BY DEF NameOf
<1> HIDE DEF k
<1>4. k - 1 \in Nat /\ a + (k - 1) <= Len(buf) /\ a + (k - 1) = a + k - 1
  BY <1>1, LenProperties
<1>5. SubSeq(s, 1, k - 1) = SubSeq(buf, a + 1, a + (k - 1)) /\ SubSeq(buf, a + 1, a + (k - 1)) \in Seq(Nat)
  BY <1>4, PieceOfRest
<1>6. NameOf(s) = q /\ q \in Seq(Nat)
  BY <1>3, <1>4, <1>5
<1>7. Base = Location \o <<Slash>> /\ Base \in Seq(Nat)
  BY ArchiveAssumption, AppendProperties, SMTT(30) DEF Base
<1>8. PathOf(s) = Base \o q
  BY <1>6, <1>7 DEF PathOf
<1>9. Base \o q \in Seq(Nat) /\ Len(Base \o q) \in Nat
  BY <1>6, <1>7, ConcatProperties, LenProperties
<1> HIDE DEF q, s
<1>10. Short(s) <=> Fits(Base \o q)
  BY <1>8, <1>9, ArchiveAssumption, SMTT(30) DEF Short, Fits
<1>11. QED BY <1>2, <1>8, <1>9, <1>10 DEF s

LEMMA NamedIsNameFits ==
    ASSUME buf \in Seq(Nat), NEW p \in 0..Len(buf), p < Len(buf)
    PROVE  LET n == IntAt(p + 1)
           IN  /\ IF Len(After(buf, p)) > 1 THEN n = After(buf, p)[2] ELSE n = 0
               /\ Named(After(buf, p + 2), n) <=> NameFits(p)
               /\ n # 0 => AfterInt(p + 1) = p + 2 /\ p + 2 <= Len(buf)
<1> DEFINE s == After(buf, p)
           n == IntAt(p + 1)
           name == After(buf, p + 2)
           z == Len(buf)
<1>1. s \in Seq(Nat) /\ Len(s) = (IF p <= z THEN z - p ELSE 0)
  BY AfterFacts
<1>2. \A i \in 1..(z - p) : s[i] = buf[p + i]
  BY AfterFacts
<1>3. p + 2 \in Nat /\ p + 1 \in 0..Len(buf)
  BY LenProperties
<1>4. name \in Seq(Nat) /\ Len(name) = (IF p + 2 <= z THEN z - (p + 2) ELSE 0)
  BY <1>3, AfterFacts
<1>5. \A i \in 1..(z - (p + 2)) : name[i] = buf[p + 2 + i]
  BY <1>3, AfterFacts
<1>6. n = (IF p + 1 + 1 > z THEN 0 ELSE buf[p + 1 + 1]) /\ AfterInt(p + 1) = (IF p + 1 + 1 > z THEN p + 1 ELSE p + 1 + 1)
  BY DEF IntAt, AfterInt
<1>7. n \in Nat /\ z \in Nat
  BY <1>3, IntFacts
<1>8. p \in 0..z /\ p < z
  OBVIOUS
<1>9. NameFits(p) <=> z - AfterInt(p + 1) >= n /\ buf[AfterInt(p + 1) + n] = NUL /\ n # 0
  BY DEF NameFits, HasString, Remains
<1>10. Named(name, n) <=> n > 0 /\ Len(name) >= n /\ name[n] = NUL
  BY DEF Named
<1> HIDE DEF s, n, name, z
<1>11. IF Len(s) > 1 THEN n = s[2] ELSE n = 0
  <2>1. CASE Len(s) > 1
    <3>1. p + 2 <= z /\ 2 \in 1..(z - p) /\ p + 1 + 1 = p + 2
      BY <1>1, <1>7, <1>8, <2>1
    <3>2. n = buf[p + 1 + 1]
      BY <1>6, <1>7, <1>8, <3>1
    <3>3. QED BY <1>2, <2>1, <3>1, <3>2
  <2>2. CASE ~(Len(s) > 1)
    BY <1>1, <1>6, <1>7, <1>8, <2>2
  <2>3. QED BY <2>1, <2>2
<1>12. n # 0 => AfterInt(p + 1) = p + 2 /\ p + 2 <= z
  BY <1>6, <1>7, <1>8
<1>13. Named(name, n) <=> NameFits(p)
  <2>1. CASE n = 0
    BY <1>9, <1>10, <2>1
  <2>2. CASE n # 0
    <3>1. AfterInt(p + 1) = p + 2 /\ p + 2 <= z /\ n > 0
      BY <1>7, <1>12, <2>2
    <3>2. Len(name) = z - (p + 2)
      BY <1>4, <3>1
    <3>3. Len(name) >= n => name[n] = buf[p + 2 + n]
      BY <1>5, <1>7, <2>2, <3>1, <3>2
    <3>4. QED BY <1>9, <1>10, <2>2, <3>1, <3>2, <3>3
  <2>3. QED BY <2>1, <2>2
<1>14. QED BY <1>11, <1>12, <1>13 DEF s, n, name, z

\* Where the bytes of a file begin and how many there are, after a name that ends at e.
LEMMA BodyAt ==
    ASSUME buf \in Seq(Nat), NEW e \in 0..Len(buf)
    PROVE  LET rest == After(buf, e)
               size == IntAt(e)
               body == After(rest, 1)
           IN  /\ IF rest = << >> THEN size = 0 ELSE size = rest[1]
               /\ size \in Nat
               /\ size <= Len(body) <=> Remains(AfterInt(e), size)
               /\ size <= Len(body) =>
                    /\ SubSeq(body, 1, size) = SubSeq(buf, AfterInt(e) + 1, AfterInt(e) + size)
                    /\ Len(buf) - Len(After(body, size)) = AfterInt(e) + size
<1> DEFINE rest == After(buf, e)
           size == IntAt(e)
           body == After(rest, 1)
           z == Len(buf)
           st == AfterInt(e)
<1>1. z \in Nat /\ e \in Nat /\ e + 1 \in Nat /\ 1 \in Nat
  BY LenProperties
<1>2. /\ rest \in Seq(Nat) /\ Len(rest) = (IF e <= z THEN z - e ELSE 0)
      /\ rest = << >> <=> e >= z
  BY <1>1, AfterFacts
<1>3. \A i \in 1..(z - e) : rest[i] = buf[e + i]
  BY <1>1, AfterFacts
<1>4. body = After(buf, e + 1)
  BY <1>1, AfterAfter
<1>5. After(buf, e + 1) \in Seq(Nat) /\ Len(After(buf, e + 1)) = (IF e + 1 <= z THEN z - (e + 1) ELSE 0)
  BY <1>1, AfterFacts
<1>6. size = (IF e + 1 > z THEN 0 ELSE buf[e + 1]) /\ st = (IF e + 1 > z THEN e ELSE e + 1) /\ size \in Nat
  BY IntFacts DEF IntAt, AfterInt
<1>7. Remains(st, size) <=> z - st >= size
  BY DEF Remains
<1>8. e \in 0..z
  OBVIOUS
<1>9. \A j \in Nat : After(body, j) = After(buf, e + 1 + j)
  BY <1>1, <1>4, AfterAfter
<1>10. ASSUME NEW j \in Nat
       PROVE  Len(After(buf, e + 1 + j)) = (IF e + 1 + j <= z THEN z - (e + 1 + j) ELSE 0)
  <2>1. e + 1 + j \in Nat
    BY <1>1
  <2>2. QED BY <2>1, AfterFacts
<1>11. ASSUME NEW j \in Nat, e + 1 + j <= z
       PROVE  SubSeq(body, 1, j) = SubSeq(buf, e + 1 + 1, e + 1 + j)
  <2>1. SubSeq(After(buf, e + 1), 1, j) = SubSeq(buf, e + 1 + 1, e + 1 + j)
    BY <1>1, <1>11, PieceOfRest
  <2>2. QED BY <1>4, <2>1
<1>12. SubSeq(body, 1, 0) = << >> /\ SubSeq(buf, z + 1, z + 0) = << >>
  BY <1>1, SubSeqEmpty
<1>13. Len(body) = (IF e + 1 <= z THEN z - (e + 1) ELSE 0)
  BY <1>4, <1>5
<1> HIDE DEF rest, size, body, z, st
<1>14. CASE e = z
  <2>1. size = 0 /\ st = z /\ rest = << >> /\ Len(body) = 0
    BY <1>1, <1>2, <1>6, <1>13, <1>14
  <2>2. Remains(st, size)
    BY <1>1, <1>7, <2>1
  <2>3. SubSeq(body, 1, size) = SubSeq(buf, st + 1, st + size)
    BY <1>12, <2>1
  <2>4. z - Len(After(body, size)) = st + size
    <3>1. Len(After(body, size)) = 0
      <4>1. After(body, size) = After(buf, e + 1 + 0) /\ 0 \in Nat
        BY <1>9, <2>1
      <4>2. Len(After(buf, e + 1 + 0)) = (IF e + 1 + 0 <= z THEN z - (e + 1 + 0) ELSE 0)
        BY <1>10
      <4>3. ~(e + 1 + 0 <= z)
        BY <1>1, <1>14
      <4>4. QED BY <4>1, <4>2, <4>3
    <3>2. QED BY <1>1, <2>1, <3>1
  <2>5. size <= Len(body)
    BY <2>1
  <2>6. QED BY <1>6, <2>1, <2>2, <2>3, <2>4, <2>5 DEF rest, size, body, z, st
<1>15. CASE e < z
  <2>1. size = buf[e + 1] /\ st = e + 1 /\ ~(rest = << >>) /\ Len(body) = z - (e + 1)
    BY <1>1, <1>2, <1>6, <1>8, <1>13, <1>15
  <2>2. rest[1] = size
    <3>1. 1 \in 1..(z - e)
      BY <1>1, <1>15
    <3>2. QED BY <1>3, <2>1, <3>1
  <2>3. size <= Len(body) <=> Remains(st, size)
    BY <1>1, <1>6, <1>7, <2>1
  <2>4. ASSUME size <= Len(body)
        PROVE  SubSeq(body, 1, size) = SubSeq(buf, st + 1, st + size) /\ z - Len(After(body, size)) = st + size
    <3>1. e + 1 + size <= z
      BY <1>1, <1>6, <2>1, <2>4, SMTT(30)
    <3>2. SubSeq(body, 1, size) = SubSeq(buf, st + 1, st + size)
      BY <1>6, <1>11, <2>1, <3>1
    <3>3. Len(After(body, size)) = z - (e + 1 + size)
      <4>1. After(body, size) = After(buf, e + 1 + size)
        BY <1>6, <1>9
      <4>2. Len(After(buf, e + 1 + size)) = (IF e + 1 + size <= z THEN z - (e + 1 + size) ELSE 0)
        BY <1>6, <1>10
      <4>3. QED BY <3>1, <4>1, <4>2
    <3>4. st + size = z - (z - (e + 1 + size))
      <4>1. st = e + 1 /\ size \in Nat
        BY <1>6, <2>1
      <4>2. QED BY ONLY <1>1, <4>1
    <3>5. QED BY <3>2, <3>3, <3>4
  <2>5. QED BY <1>6, <2>1, <2>2, <2>3, <2>4 DEF rest, size, body, z, st
<1>16. e = z \/ e < z
  BY <1>1, <1>8
<1>17. QED BY <1>14, <1>15, <1>16, Zenon

LEMMA MeaningIsReads ==
    ASSUME buf \in Seq(Nat), NEW M, NEW p \in 0..Len(buf)
    PROVE  MeaningFrom(M, p) = Reads(M, p)
<1> DEFINE s == After(buf, p)
           n == IF Len(s) > 1 THEN s[2] ELSE 0
           name == After(s, 2)
           rest == After(s, 2 + n)
           size == IF rest = << >> THEN 0 ELSE rest[1]
           body == After(rest, 1)
           Behind(x) == M[Len(buf) - Len(x)]
           IsDir == Named(name, n) /\ Short(name)
           IsFile == Named(name, n) /\ Short(name) /\ size <= Len(body)
           DirIs == Then(<<"dir", PathOf(name), << >>>>, Behind(rest))
           FileIs == Then(<<"file", PathOf(name), SubSeq(body, 1, size)>>, Behind(After(body, size)))
           RDir == NameFits(p) /\ Fits(PathAt(p))
           RFile == NameFits(p) /\ Fits(PathAt(p)) /\ Remains(StartAt(p), SizeAt(p))
           RDirIs == Then(<<"dir", PathAt(p), << >>>>, M[EndAt(p)])
           RFileIs == Then(<<"file", PathAt(p), SubSeq(buf, StartAt(p) + 1, StartAt(p) + SizeAt(p))>>,
                           M[StartAt(p) + SizeAt(p)])
           Done == [ok |-> TRUE, out |-> << >>]
<1>1. MeaningFrom(M, p) =
        CASE s = << >> -> Bad
          [] s # << >> /\ Head(s) = End -> Done
          [] s # << >> /\ Head(s) = Header /\ n = Magic -> Behind(name)
          [] s # << >> /\ Head(s) = Dir /\ Named(name, n) /\ Short(name) -> DirIs
          [] s # << >> /\ Head(s) = File /\ Named(name, n) /\ Short(name) /\ size <= Len(body) -> FileIs
          [] OTHER -> Bad
  BY DEF MeaningFrom
<1>2. Reads(M, p) =
        CASE IntAt(p) = End -> Done
          [] IntAt(p) = Header /\ IntAt(p + 1) = Magic -> M[AfterInt(p + 1)]
          [] IntAt(p) = Dir /\ NameFits(p) /\ Fits(PathAt(p)) -> RDirIs
          [] IntAt(p) = File /\ NameFits(p) /\ Fits(PathAt(p)) /\ Remains(StartAt(p), SizeAt(p)) -> RFileIs
          [] OTHER -> Bad
  BY DEF Reads
<1>3. Len(buf) \in Nat /\ p \in Nat /\ p <= Len(buf)
  BY LenProperties
<1>4. s = << >> <=> p >= Len(buf)
  BY <1>3, AfterFacts
<1>5. CASE p = Len(buf)
  <2>1. IntAt(p) = 0 /\ s = << >>
    BY <1>3, <1>4, <1>5, IntFacts
  <2>2. 0 \notin {Header, File, Dir, End}
    BY CommandsDiffer
  <2> HIDE DEF s, n, name, rest, size, body, Behind, DirIs, FileIs, RDirIs, RFileIs, Done
  <2>3. MeaningFrom(M, p) = Bad
    BY ONLY <1>1, <2>1
  <2>4. Reads(M, p) = Bad
    BY ONLY <1>2, <2>1, <2>2
  <2>5. QED BY <2>3, <2>4
<1>6. CASE p < Len(buf)
  <2>1. s # << >> /\ s \in Seq(Nat)
    BY <1>3, <1>4, <1>6, AfterFacts
  <2>2. Head(s) = IntAt(p)
    <3>1. s[1] = buf[p + 1]
      <4>1. \A i \in 1..(Len(buf) - p) : s[i] = buf[p + i]
        BY <1>3, AfterFacts
      <4>2. 1 \in 1..(Len(buf) - p)
        BY <1>3, <1>6
      <4> HIDE DEF s
      <4>3. QED BY ONLY <4>1, <4>2
    <3>2. Head(s) = s[1]
      <4> HIDE DEF s
      <4>1. QED BY ONLY <2>1, HeadTailProperties
    <3>3. IntAt(p) = buf[p + 1]
      BY <1>6, IntFacts
    <3>4. QED BY <3>1, <3>2, <3>3
  <2>3. n = IntAt(p + 1) /\ n \in Nat
    <3>1. IF Len(s) > 1 THEN IntAt(p + 1) = s[2] ELSE IntAt(p + 1) = 0
      BY <1>6, NamedIsNameFits
    <3>2. p + 1 \in 0..Len(buf)
      BY <1>3, <1>6
    <3>3. IntAt(p + 1) \in Nat
      BY <3>2, IntFacts
    <3> HIDE DEF s
    <3>4. QED BY ONLY <3>1, <3>3 DEF n
  <2>4. name = After(buf, p + 2)
    BY <1>3, AfterAfter
  <2>5. Named(name, n) <=> NameFits(p)
    <3>1. Named(After(buf, p + 2), IntAt(p + 1)) <=> NameFits(p)
      BY <1>6, NamedIsNameFits
    <3> HIDE DEF name, n
    <3>2. QED BY <2>3, <2>4, <3>1, Zenon
  <2>6. n # 0 => AfterInt(p + 1) = p + 2 /\ p + 2 <= Len(buf)
    <3>1. IntAt(p + 1) # 0 => AfterInt(p + 1) = p + 2 /\ p + 2 <= Len(buf)
      BY <1>6, NamedIsNameFits
    <3> HIDE DEF n
    <3>2. QED BY <2>3, <3>1, Zenon
  <2>7. n = Magic => Behind(name) = M[AfterInt(p + 1)]
    <3>1. SUFFICES ASSUME n = Magic PROVE Len(buf) - Len(name) = AfterInt(p + 1)
      BY Zenon DEF Behind
    <3>2. AfterInt(p + 1) = p + 2 /\ p + 2 <= Len(buf)
      BY <2>6, <3>1, ArchiveAssumption
    <3>3. Len(After(buf, p + 2)) = Len(buf) - (p + 2)
      BY <1>3, <3>2, AfterFacts
    <3> HIDE DEF name
    <3>4. Len(name) = Len(buf) - (p + 2)
      BY <2>4, <3>3
    <3>5. QED BY <1>3, <3>2, <3>4
  <2>8. ASSUME NameFits(p)
        PROVE  /\ PathOf(name) = PathAt(p) /\ (Short(name) <=> Fits(PathAt(p)))
               /\ rest = After(buf, EndAt(p)) /\ EndAt(p) \in 0..Len(buf)
    <3>1. n # 0 /\ AfterInt(p + 1) = p + 2 /\ p + 2 <= Len(buf)
      <4>1. IntAt(p + 1) # 0
        BY <2>8 DEF NameFits
      <4> HIDE DEF n
      <4>2. QED BY ONLY <2>3, <2>6, <4>1
    <3>2. p + 2 + n <= Len(buf) /\ buf[p + 2 + n] = NUL /\ n \in Nat \ {0} /\ p + 2 \in Nat
      <4>1. Remains(p + 2, n) /\ buf[p + 2 + n] = NUL
        <5> HIDE DEF n
        <5>1. QED BY <2>3, <2>8, <3>1 DEF NameFits, HasString
      <4> HIDE DEF n
      <4>2. QED BY <1>3, <2>3, <3>1, <4>1 DEF Remains
    <3>3. /\ PathOf(After(buf, p + 2)) = Base \o StringAt(p + 2, n)
          /\ Short(After(buf, p + 2)) <=> Fits(Base \o StringAt(p + 2, n))
      <4> HIDE DEF n
      <4>1. QED BY <3>2, PathOfRest
    <3>4. PathAt(p) = Base \o StringAt(p + 2, n) /\ EndAt(p) = p + 2 + n
      <4> HIDE DEF n
      <4>1. QED BY <2>3, <3>1 DEF PathAt, EndAt
    <3>5. rest = After(buf, p + (2 + n)) /\ p + (2 + n) = p + 2 + n
      <4>1. 2 + n \in Nat
        <5> HIDE DEF n
        <5>1. QED BY <2>3
      <4> HIDE DEF n
      <4>2. rest = After(buf, p + (2 + n))
        BY <1>3, <4>1, AfterAfter
      <4>3. p + (2 + n) = p + 2 + n
        BY ONLY <1>3, <2>3
      <4>4. QED BY <4>2, <4>3
    <3>6. EndAt(p) \in 0..Len(buf)
      <4> HIDE DEF n
      <4>1. QED BY <1>3, <3>2, <3>4
    <3> HIDE DEF n, name, rest
    <3>7. QED BY <2>4, <3>3, <3>4, <3>5, <3>6, Zenon
  <2>9. NameFits(p) => DirIs = RDirIs
    <3>1. SUFFICES ASSUME NameFits(p) PROVE PathOf(name) = PathAt(p) /\ Len(buf) - Len(rest) = EndAt(p)
      <4> HIDE DEF name, rest
      <4>1. QED BY Zenon DEF DirIs, RDirIs, Behind
    <3>2. /\ PathOf(name) = PathAt(p) /\ rest = After(buf, EndAt(p)) /\ EndAt(p) \in 0..Len(buf)
      BY <2>8, <3>1, Zenon
    <3> HIDE DEF name, rest
    <3>3. EndAt(p) \in Nat /\ EndAt(p) <= Len(buf)
      BY <1>3, <3>2
    <3>4. Len(After(buf, EndAt(p))) = IF EndAt(p) <= Len(buf) THEN Len(buf) - EndAt(p) ELSE 0
      BY <3>3, AfterFacts
    <3>5. QED BY <1>3, <3>2, <3>3, <3>4
  <2>10. NameFits(p) => (size <= Len(body) <=> Remains(StartAt(p), SizeAt(p)))
                        /\ (size <= Len(body) => FileIs = RFileIs)
    <3>1. SUFFICES ASSUME NameFits(p)
                   PROVE  (size <= Len(body) <=> Remains(StartAt(p), SizeAt(p)))
                          /\ (size <= Len(body) => FileIs = RFileIs)
      BY Zenon
    <3> DEFINE e == EndAt(p)
               b == After(After(buf, e), 1)
    <3>2. PathOf(name) = PathAt(p) /\ rest = After(buf, e) /\ e \in 0..Len(buf)
      BY <2>8, <3>1, Zenon
    <3>3. /\ IF After(buf, e) = << >> THEN IntAt(e) = 0 ELSE IntAt(e) = After(buf, e)[1]
          /\ IntAt(e) <= Len(b) <=> Remains(AfterInt(e), IntAt(e))
      <4> HIDE DEF e
      <4>1. QED BY <3>2, BodyAt
    <3>4. IntAt(e) <= Len(b) =>
            /\ SubSeq(b, 1, IntAt(e)) = SubSeq(buf, AfterInt(e) + 1, AfterInt(e) + IntAt(e))
            /\ Len(buf) - Len(After(b, IntAt(e))) = AfterInt(e) + IntAt(e)
      <4> HIDE DEF e
      <4>1. QED BY <3>2, BodyAt
    <3>5. size = IntAt(e) /\ body = b
      <4> HIDE DEF name, rest, e
      <4>1. QED BY <3>2, <3>3 DEF size, body
    <3>6. StartAt(p) = AfterInt(e) /\ SizeAt(p) = IntAt(e)
      BY DEF StartAt, SizeAt
    <3>7. size <= Len(body) <=> Remains(StartAt(p), SizeAt(p))
      <4> HIDE DEF size, body, b, e
      <4>1. QED BY <3>3, <3>5, <3>6, Zenon
    <3>8. size <= Len(body) => FileIs = RFileIs
      <4> HIDE DEF size, body, b, e, name
      <4>1. QED BY <3>2, <3>4, <3>5, <3>6, Zenon DEF FileIs, RFileIs, Behind
    <3>9. QED BY <3>7, <3>8, Zenon
  <2>11. /\ Header # File /\ Header # Dir /\ Header # End /\ File # Dir /\ File # End /\ Dir # End
    BY CommandsDiffer
  <2>12. NameFits(p) => (Short(name) <=> Fits(PathAt(p)))
    BY <2>8, Zenon
  <2>13. s # << >> /\ n = IntAt(p + 1)
    BY <2>1, <2>3
  <2> HIDE DEF s, n, name, rest, size, body, Behind, DirIs, FileIs, RDirIs, RFileIs, Done
  <2>14. CASE IntAt(p) = End
    BY ONLY <1>1, <1>2, <2>2, <2>11, <2>13, <2>14
  <2>15. CASE IntAt(p) = Header
    BY ONLY <1>1, <1>2, <2>2, <2>7, <2>11, <2>13, <2>15
  <2>16. CASE IntAt(p) = Dir
    BY ONLY <1>1, <1>2, <2>2, <2>5, <2>9, <2>11, <2>12, <2>13, <2>16
  <2>17. CASE IntAt(p) = File
    BY ONLY <1>1, <1>2, <2>2, <2>5, <2>10, <2>11, <2>12, <2>13, <2>17
  <2>18. CASE IntAt(p) \notin {Header, File, Dir, End}
    BY ONLY <1>1, <1>2, <2>2, <2>13, <2>18
  <2>19. QED BY <2>14, <2>15, <2>16, <2>17, <2>18
<1>7. QED BY <1>3, <1>5, <1>6

\* Where the code goes on after a command is behind the command and in the buffer.
LEMMA ReadsAhead ==
    ASSUME buf \in Seq(Nat), NEW p \in 0..Len(buf), IntAt(p) # 0
    PROVE  /\ p + 1 \in 0..Len(buf)
           /\ AfterInt(p + 1) \in (p + 1)..Len(buf)
           /\ NameFits(p) => EndAt(p) \in (p + 1)..Len(buf)
           /\ NameFits(p) /\ Remains(StartAt(p), SizeAt(p)) =>
                /\ StartAt(p) + SizeAt(p) \in (p + 1)..Len(buf)
                /\ SubSeq(buf, StartAt(p) + 1, StartAt(p) + SizeAt(p)) \in Seq(Nat)
           /\ NameFits(p) => PathAt(p) \in Seq(Nat)
<1> DEFINE a == AfterInt(p + 1)
           n == IntAt(p + 1)
           st == StartAt(p)
           k == SizeAt(p)
<1>1. Len(buf) \in Nat /\ p \in Nat /\ p < Len(buf) /\ p + 1 \in 0..Len(buf)
  <2>1. Len(buf) \in Nat /\ (p = Len(buf) => IntAt(p) = 0)
    BY IntFacts
  <2>2. QED BY <2>1
<1>2. a \in 0..Len(buf) /\ a >= p + 1 /\ n \in Nat /\ (n # 0 => a = p + 2)
  <2>1. a \in 0..Len(buf) /\ a >= p + 1 /\ n \in Nat
    BY <1>1, ReadIntInBounds
  <2>2. n # 0 => a = p + 1 + 1
    BY <1>1, ReadIntInBounds
  <2>3. p + 1 + 1 = p + 2
    BY <1>1
  <2>4. QED BY <2>1, <2>2, <2>3
<1>3. a \in (p + 1)..Len(buf)
  <2> HIDE DEF a
  <2>1. QED BY <1>1, <1>2
<1>4. ASSUME NameFits(p)
      PROVE  /\ EndAt(p) \in (p + 1)..Len(buf) /\ EndAt(p) \in 0..Len(buf)
             /\ n # 0 /\ a + n <= Len(buf) /\ buf[a + n] = NUL
  <2>1. EndAt(p) = a + n
    BY DEF EndAt
  <2>2. Len(buf) - a >= n /\ n # 0 /\ buf[a + n] = NUL
    BY <1>4 DEF NameFits, HasString, Remains
  <2> HIDE DEF a, n
  <2>3. a + n \in (p + 1)..Len(buf) /\ a + n \in 0..Len(buf) /\ a + n <= Len(buf)
    BY <1>1, <1>2, <2>2
  <2>4. QED BY <2>1, <2>2, <2>3
<1>5. ASSUME NameFits(p) PROVE PathAt(p) \in Seq(Nat)
  <2>1. PathAt(p) = Base \o StringAt(a, n)
    BY DEF PathAt
  <2>2. n \in Nat \ {0} /\ a \in Nat /\ a + n <= Len(buf) /\ buf[a + n] = NUL
    <3>1. n # 0 /\ a + n <= Len(buf) /\ buf[a + n] = NUL
      BY <1>4, <1>5
    <3> HIDE DEF a, n
    <3>2. QED BY <1>2, <3>1
  <2> HIDE DEF a, n
  <2>3. PathOf(After(buf, a)) = Base \o StringAt(a, n) /\ PathOf(After(buf, a)) \in Seq(Nat)
    BY <2>2, PathOfRest
  <2>4. QED BY <2>1, <2>3
<1>6. ASSUME NameFits(p), Remains(st, k)
      PROVE  st + k \in (p + 1)..Len(buf) /\ SubSeq(buf, st + 1, st + k) \in Seq(Nat)
  <2>1. st = AfterInt(EndAt(p)) /\ k = IntAt(EndAt(p)) /\ EndAt(p) \in 0..Len(buf) /\ EndAt(p) >= p + 1
    <3>1. EndAt(p) \in 0..Len(buf) /\ EndAt(p) \in (p + 1)..Len(buf)
      BY <1>4, <1>6
    <3>2. QED BY <1>1, <3>1 DEF StartAt, SizeAt
  <2>2. AfterInt(EndAt(p)) \in 0..Len(buf) /\ AfterInt(EndAt(p)) >= EndAt(p) /\ IntAt(EndAt(p)) \in Nat
    BY <2>1, ReadIntInBounds
  <2>3. Len(buf) - st >= k
    BY <1>6 DEF Remains
  <2> HIDE DEF st, k
  <2>4. st \in Nat /\ k \in Nat /\ st >= p + 1 /\ st + k <= Len(buf)
    BY <1>1, <2>1, <2>2, <2>3
  <2>5. SubSeq(buf, st + 1, st + k) \in Seq(Nat)
    BY <2>4, PieceOfRest
  <2>6. QED BY <1>1, <2>4, <2>5
<1>7. QED BY <1>1, <1>3, <1>4, <1>5, <1>6

\* The meaning at p depends on the meanings behind p only.
LEMMA ReadsAgree ==
    ASSUME buf \in Seq(Nat), NEW p \in 0..Len(buf), NEW g, NEW h, \A q \in (p + 1)..Len(buf) : g[q] = h[q]
    PROVE  Reads(g, p) = Reads(h, p)
<1>1. CASE IntAt(p) = 0
  <2>1. 0 \notin {Header, File, Dir, End}
    BY CommandsDiffer
  <2>2. \A M : Reads(M, p) = Bad
    BY <1>1, <2>1 DEF Reads
  <2>3. QED BY <2>2
<1>2. CASE IntAt(p) # 0
  <2>1. /\ g[AfterInt(p + 1)] = h[AfterInt(p + 1)]
        /\ NameFits(p) => g[EndAt(p)] = h[EndAt(p)]
        /\ NameFits(p) /\ Remains(StartAt(p), SizeAt(p)) => g[StartAt(p) + SizeAt(p)] = h[StartAt(p) + SizeAt(p)]
    <3>1. /\ AfterInt(p + 1) \in (p + 1)..Len(buf)
          /\ NameFits(p) => EndAt(p) \in (p + 1)..Len(buf)
          /\ NameFits(p) /\ Remains(StartAt(p), SizeAt(p)) => StartAt(p) + SizeAt(p) \in (p + 1)..Len(buf)
      BY <1>2, ReadsAhead
    <3>2. QED BY <3>1, Zenon
  <2>2. QED BY <2>1 DEF Reads
<1>3. QED BY <1>1, <1>2

\* What a meaning is: whether the stream is an archive, and its entries.
Entry == {"file", "dir"} \X Seq(Nat) \X Seq(Nat)
Result == [ok : BOOLEAN, out : Seq(Entry)]

LEMMA ReadsType ==
    ASSUME buf \in Seq(Nat), NEW p \in 0..Len(buf), NEW g, \A q \in (p + 1)..Len(buf) : g[q] \in Result
    PROVE  Reads(g, p) \in Result
<1>1. Bad \in Result /\ [ok |-> TRUE, out |-> << >>] \in Result
  BY DEF Bad, Result
<1>2. ASSUME NEW e \in Entry, NEW r \in Result PROVE Then(e, r) \in Result
  <2>1. <<e>> \in Seq(Entry) /\ r.out \in Seq(Entry) /\ r.ok \in BOOLEAN
    BY DEF Result
  <2>2. <<e>> \o r.out \in Seq(Entry)
    BY <2>1, ConcatProperties
  <2> HIDE DEF Entry
  <2>3. QED BY <2>1, <2>2 DEF Then, Result
<1>3. CASE IntAt(p) = 0
  <2>1. 0 \notin {Header, File, Dir, End}
    BY CommandsDiffer
  <2>2. Reads(g, p) = Bad
    BY <1>3, <2>1 DEF Reads
  <2>3. QED BY <1>1, <2>2
<1>4. CASE IntAt(p) # 0
  <2> DEFINE DirIs == Then(<<"dir", PathAt(p), << >>>>, g[EndAt(p)])
             FileIs == Then(<<"file", PathAt(p), SubSeq(buf, StartAt(p) + 1, StartAt(p) + SizeAt(p))>>,
                            g[StartAt(p) + SizeAt(p)])
             Done == [ok |-> TRUE, out |-> << >>]
             Magical == g[AfterInt(p + 1)]
  <2>1. Magical \in Result
    <3>1. AfterInt(p + 1) \in (p + 1)..Len(buf)
      BY <1>4, ReadsAhead
    <3>2. QED BY <3>1, Zenon
  <2>2. NameFits(p) => DirIs \in Result
    <3>1. NameFits(p) => EndAt(p) \in (p + 1)..Len(buf) /\ PathAt(p) \in Seq(Nat)
      BY <1>4, ReadsAhead
    <3>2. NameFits(p) => <<"dir", PathAt(p), << >>>> \in Entry
      <4>1. << >> \in Seq(Nat)
        BY EmptySeq
      <4>2. QED BY <3>1, <4>1 DEF Entry
    <3>3. QED BY <1>2, <3>1, <3>2, Zenon
  <2>3. NameFits(p) /\ Remains(StartAt(p), SizeAt(p)) => FileIs \in Result
    <3>1. NameFits(p) /\ Remains(StartAt(p), SizeAt(p)) =>
             /\ StartAt(p) + SizeAt(p) \in (p + 1)..Len(buf) /\ PathAt(p) \in Seq(Nat)
             /\ SubSeq(buf, StartAt(p) + 1, StartAt(p) + SizeAt(p)) \in Seq(Nat)
      BY <1>4, ReadsAhead
    <3>2. NameFits(p) /\ Remains(StartAt(p), SizeAt(p)) =>
             <<"file", PathAt(p), SubSeq(buf, StartAt(p) + 1, StartAt(p) + SizeAt(p))>> \in Entry
      BY <3>1 DEF Entry
    <3>3. QED BY <1>2, <3>1, <3>2, Zenon
  <2>4. Reads(g, p) =
        CASE IntAt(p) = End -> Done
          [] IntAt(p) = Header /\ IntAt(p + 1) = Magic -> Magical
          [] IntAt(p) = Dir /\ NameFits(p) /\ Fits(PathAt(p)) -> DirIs
          [] IntAt(p) = File /\ NameFits(p) /\ Fits(PathAt(p)) /\ Remains(StartAt(p), SizeAt(p)) -> FileIs
          [] OTHER -> Bad
    BY DEF Reads
  <2>5. Done \in Result /\ Bad \in Result
    BY <1>1
  <2> HIDE DEF DirIs, FileIs, Done, Magical
  <2>6. QED BY ONLY <2>1, <2>2, <2>3, <2>4, <2>5
<1>5. QED BY <1>3, <1>4

\* The recursive definition of the meanings has a solution: from the end of the stream
\* back, one position at a time.
LEMMA MeaningsExist ==
    ASSUME buf \in Seq(Nat)
    PROVE  \E g : g = [p \in 0..Len(buf) |-> Reads(g, p)]
<1> DEFINE z == Len(buf)
           P(k, g) == g = [q \in 0..z |-> g[q]] /\ \A q \in (z - k)..z : g[q] = Reads(g, q)
           D == {k \in 0..z : ~(\E g : P(k, g))}
<1>1. z \in Nat
  BY LenProperties
<1> HIDE DEF z
<1>2. \E g : P(0, g)
  <2> DEFINE g == [q \in 0..z |-> Bad]
  <2>1. g = [q \in 0..z |-> g[q]]
    OBVIOUS
  <2>2. \A q \in (z - 0)..z : q = z /\ q \in 0..z
    BY <1>1
  <2>3. Reads(g, z) = Bad
    <3>1. IntAt(z) = 0
      BY <1>1, IntFacts DEF z
    <3>2. 0 \notin {Header, File, Dir, End}
      BY CommandsDiffer
    <3> HIDE DEF g
    <3>3. QED BY <3>1, <3>2 DEF Reads
  <2>4. \A q \in (z - 0)..z : g[q] = Reads(g, q)
    BY <2>2, <2>3
  <2>5. P(0, g)
    BY <2>1, <2>4
  <2>6. QED BY <2>5
<1>3. ASSUME NEW k \in Nat, k < z, NEW g, P(k, g)
      PROVE  \E h : P(k + 1, h)
  <2> DEFINE p == z - (k + 1)
             h == [q \in 0..z |-> IF q = p THEN Reads(g, p) ELSE g[q]]
  <2>1. p \in 0..z /\ (\A q \in (z - (k + 1))..z : q \in 0..z /\ (q = p \/ q \in (z - k)..z))
        /\ (\A q \in (z - (k + 1))..z : \A j \in (q + 1)..z : j \in 0..z /\ j # p)
    BY <1>1, <1>3
  <2>2. h = [q \in 0..z |-> h[q]]
    OBVIOUS
  <2>3. ASSUME NEW q \in (z - (k + 1))..z PROVE h[q] = Reads(h, q)
    <3>1. q \in 0..z /\ \A j \in (q + 1)..z : g[j] = h[j]
      <4> HIDE DEF p
      <4>1. QED BY <2>1, <2>3
    <3>2. Reads(g, q) = Reads(h, q)
      <4> HIDE DEF h
      <4>1. QED BY <3>1, ReadsAgree DEF z
    <3>3. h[q] = Reads(g, q)
      <4>1. q = p \/ (q # p /\ q \in (z - k)..z)
        BY <2>1, <2>3
      <4>2. q \in (z - k)..z => g[q] = Reads(g, q)
        BY <1>3
      <4> HIDE DEF p
      <4>3. QED BY <3>1, <4>1, <4>2
    <3>4. QED BY <3>2, <3>3
  <2>4. P(k + 1, h)
    BY <2>2, <2>3
  <2>5. QED BY <2>4
<1>4. D = {}
  <2>1. SUFFICES ASSUME D # {} PROVE FALSE
    OBVIOUS
  <2>2. D \in SUBSET Nat /\ \E k : k \in D
    BY <2>1
  <2>3. PICK k \in D : \A m \in D : ~(<<m, k>> \in OpToRel(<, Nat))
    <3> HIDE DEF D
    <3>1. QED BY <2>2, WFMin, NatLessThanWellFounded, Zenon
  <2>4. k \in 0..z /\ ~(\E g : P(k, g))
    BY <2>3
  <2>5. k # 0
    BY <1>2, <2>4
  <2>6. k - 1 \in 0..z /\ k - 1 \in Nat /\ k - 1 < z /\ k - 1 < k /\ (k - 1) + 1 = k /\ k \in Nat
    BY <1>1, <2>4, <2>5
  <2>7. k - 1 \notin D
    <3> HIDE DEF D
    <3>1. QED BY <2>3, <2>6 DEF OpToRel
  <2>8. PICK g : P(k - 1, g)
    BY <2>6, <2>7
  <2>9. \E h : P((k - 1) + 1, h)
    <3> HIDE DEF P
    <3>1. QED BY <1>3, <2>6, <2>8, Zenon
  <2>10. QED
    <3> HIDE DEF P
    <3>1. QED BY <2>4, <2>6, <2>9
<1>5. PICK g : P(z, g)
  <2>1. z \in 0..z
    BY <1>1
  <2>2. z \notin D
    BY <1>4
  <2>3. QED BY <2>1, <2>2
<1>6. g = [p \in 0..z |-> Reads(g, p)]
  <2>1. \A q \in 0..z : q \in (z - z)..z
    BY <1>1
  <2>2. \A q \in 0..z : g[q] = Reads(g, q)
    BY <1>5, <2>1
  <2>3. QED BY <1>5, <2>2
<1>7. QED BY <1>6 DEF z

LEMMA MeaningsAre ==
    ASSUME buf \in Seq(Nat), NEW p \in 0..Len(buf)
    PROVE  Meanings[p] = Reads(Meanings, p)
<1> DEFINE Is(g) == g = [q \in 0..Len(buf) |-> MeaningFrom(g, q)]
<1>1. Meanings = CHOOSE g : Is(g)
  BY DEF Meanings
<1>2. \E g : Is(g)
  <2>1. PICK g : g = [q \in 0..Len(buf) |-> Reads(g, q)]
    BY MeaningsExist
  <2>2. \A q \in 0..Len(buf) : MeaningFrom(g, q) = Reads(g, q)
    BY MeaningIsReads
  <2>3. [q \in 0..Len(buf) |-> Reads(g, q)] = [q \in 0..Len(buf) |-> MeaningFrom(g, q)]
    BY <2>2
  <2>4. Is(g)
    BY <2>1, <2>3
  <2>5. QED BY <2>4
<1>3. Is(Meanings)
  <2> HIDE DEF Is
  <2>1. QED BY <1>1, <1>2
<1>4. Meanings[p] = MeaningFrom(Meanings, p)
  BY <1>3
<1>5. QED BY <1>4, MeaningIsReads

LEMMA MeaningsType ==
    ASSUME buf \in Seq(Nat), NEW p \in 0..Len(buf)
    PROVE  Meanings[p] \in Result
<1> DEFINE z == Len(buf)
           D == {k \in 0..z : Meanings[z - k] \notin Result}
<1>1. z \in Nat
  BY LenProperties
<1> HIDE DEF z
<1>2. D = {}
  <2>1. SUFFICES ASSUME D # {} PROVE FALSE
    OBVIOUS
  <2>2. D \in SUBSET Nat /\ \E k : k \in D
    BY <2>1
  <2>3. PICK k \in D : \A m \in D : ~(<<m, k>> \in OpToRel(<, Nat))
    <3> HIDE DEF D
    <3>1. QED BY <2>2, WFMin, NatLessThanWellFounded, Zenon
  <2>4. k \in 0..z /\ Meanings[z - k] \notin Result
    BY <2>3
  <2>5. ASSUME NEW q \in ((z - k) + 1)..z PROVE Meanings[q] \in Result
    <3>1. z - q \in 0..z /\ z - q < k /\ z - q \in Nat /\ k \in Nat /\ z - (z - q) = q
      BY <1>1, <2>4, <2>5
    <3>2. z - q \notin D
      <4> HIDE DEF D
      <4>1. QED BY <2>3, <3>1 DEF OpToRel
    <3>3. QED BY <3>1, <3>2
  <2>6. z - k \in 0..z
    BY <1>1, <2>4
  <2>7. Reads(Meanings, z - k) \in Result
    BY <2>5, <2>6, ReadsType DEF z
  <2>8. Meanings[z - k] = Reads(Meanings, z - k)
    BY <2>6, MeaningsAre DEF z
  <2>9. QED BY <2>4, <2>7, <2>8
<1>3. z - p \in 0..z /\ z - (z - p) = p
  <2>1. p \in 0..z
    BY DEF z
  <2>2. QED BY <1>1, <2>1
<1>4. z - p \notin D
  BY <1>2
<1>5. QED BY <1>3, <1>4

------------------------------------------------------------------------------
(* While the extractor runs, the entries of the whole stream are those it has written    *)
(* and those of the stream from where it stands.                                         *)

EntriesOf(w) == [n \in DOMAIN w |-> <<w[n][1], w[n][2], w[n][3]>>]
Writing == {"file", "dir"} \X Seq(Nat) \X Seq(Nat) \X BOOLEAN

Tells(w, p, r, M) ==
    IF Fits(Base)
    THEN IF r = "running"
         THEN M[0].out = EntriesOf(w) \o M[p].out /\ (M[0].ok <=> M[p].ok)
         ELSE M[0].out = EntriesOf(w) /\ (r = "NULL" <=> M[0].ok)
    ELSE w = << >> /\ r # "NULL" /\ r # "running"

MeaningInv == written \in Seq(Writing) /\ Tells(written, pos, result, Meanings)

LEMMA EntriesType ==
    ASSUME NEW w \in Seq(Writing)
    PROVE  EntriesOf(w) \in Seq(Entry) /\ Len(EntriesOf(w)) = Len(w)
<1>1. Len(w) \in Nat /\ DOMAIN w = 1..Len(w) /\ \A n \in 1..Len(w) : w[n] \in Writing
  BY LenProperties, ElementOfSeq
<1>2. ASSUME NEW x \in Writing PROVE <<x[1], x[2], x[3]>> \in Entry
  BY DEF Writing, Entry
<1>3. EntriesOf(w) \in [1..Len(w) -> Entry]
  BY <1>1, <1>2 DEF EntriesOf
<1> HIDE DEF Entry
<1>4. QED BY <1>1, <1>3 DEF EntriesOf

LEMMA EntriesOfOneMore ==
    ASSUME NEW w \in Seq(Writing), NEW x \in Writing
    PROVE  EntriesOf(Append(w, x)) = EntriesOf(w) \o <<(<<x[1], x[2], x[3]>>)>>
<1> DEFINE t == <<x[1], x[2], x[3]>>
           v == Append(w, x)
           a == EntriesOf(v)
           b == EntriesOf(w) \o <<t>>
<1>1. t \in Entry
  BY DEF Writing, Entry
<1>2. v \in Seq(Writing) /\ Len(v) = Len(w) + 1 /\ v[Len(w) + 1] = x
  BY AppendProperties
<1>3. \A n \in 1..Len(w) : v[n] = w[n]
  BY AppendProperties
<1>4. Len(w) \in Nat /\ DOMAIN w = 1..Len(w)
  BY LenProperties
<1>5. EntriesOf(w) \in Seq(Entry) /\ Len(EntriesOf(w)) = Len(w)
  BY EntriesType
<1> HIDE DEF v
<1>6. a \in Seq(Entry) /\ Len(a) = Len(w) + 1 /\ DOMAIN v = 1..(Len(w) + 1)
  BY <1>2, EntriesType, LenProperties
<1> HIDE DEF t, Entry, Writing
<1>7. <<t>> \in Seq(Entry) /\ Len(<<t>>) = 1 /\ <<t>>[1] = t
  BY <1>1
<1>8. b \in Seq(Entry) /\ Len(b) = Len(w) + 1
  <2>1. b \in Seq(Entry) /\ Len(b) = Len(EntriesOf(w)) + Len(<<t>>)
    BY <1>5, <1>7, ConcatProperties
  <2>2. QED BY <1>5, <1>7, <2>1
<1>9. \A n \in 1..(Len(EntriesOf(w)) + Len(<<t>>)) :
         b[n] = IF n <= Len(EntriesOf(w)) THEN EntriesOf(w)[n] ELSE <<t>>[n - Len(EntriesOf(w))]
  BY <1>5, <1>7, ConcatProperties
<1>10. ASSUME NEW n \in 1..(Len(w) + 1) PROVE a[n] = b[n]
  <2>1. a[n] = <<v[n][1], v[n][2], v[n][3]>>
    BY <1>6 DEF EntriesOf
  <2>2. CASE n = Len(w) + 1
    <3>1. a[n] = t
      BY <1>2, <2>1, <2>2 DEF t
    <3>2. b[n] = <<t>>[n - Len(EntriesOf(w))]
      <4> HIDE DEF b
      <4>1. QED BY <1>4, <1>5, <1>7, <1>9, <2>2
    <3>3. n - Len(EntriesOf(w)) = 1
      BY <1>4, <1>5, <2>2
    <3>4. QED BY <1>7, <3>1, <3>2, <3>3
  <2>3. CASE n # Len(w) + 1
    <3>1. n \in 1..Len(w)
      BY <1>4, <2>3
    <3>2. b[n] = EntriesOf(w)[n]
      <4> HIDE DEF b
      <4>1. QED BY <1>4, <1>5, <1>7, <1>9, <3>1
    <3>3. EntriesOf(w)[n] = <<w[n][1], w[n][2], w[n][3]>>
      BY <1>4, <3>1 DEF EntriesOf
    <3>4. v[n] = w[n]
      BY <1>3, <3>1 DEF v
    <3>5. QED BY <2>1, <3>2, <3>3, <3>4
  <2>4. QED BY <2>2, <2>3
<1>11. a = b
  <2> HIDE DEF a, b
  <2>1. QED BY <1>6, <1>8, <1>10, SeqEqual
<1>12. QED BY <1>11 DEF a, b, t, v

LEMMA OneMoreTells ==
    ASSUME NEW w \in Seq(Writing), NEW x \in Writing, NEW r \in Result
    PROVE  LET m == Then(<<x[1], x[2], x[3]>>, r)
           IN  EntriesOf(w) \o m.out = EntriesOf(Append(w, x)) \o r.out /\ m.ok = r.ok
<1> DEFINE t == <<x[1], x[2], x[3]>>
<1>1. t \in Entry
  BY DEF Writing, Entry
<1>2. EntriesOf(w) \in Seq(Entry) /\ r.out \in Seq(Entry)
  BY EntriesType DEF Result
<1>3. EntriesOf(Append(w, x)) = EntriesOf(w) \o <<t>>
  BY EntriesOfOneMore
<1> HIDE DEF t, Entry, Writing
<1>4. <<t>> \in Seq(Entry)
  BY <1>1
<1>5. (EntriesOf(w) \o <<t>>) \o r.out = EntriesOf(w) \o (<<t>> \o r.out)
  <2> DEFINE a == EntriesOf(w)
             b == <<t>>
             c == r.out
  <2>1. a \in Seq(Entry) /\ b \in Seq(Entry) /\ c \in Seq(Entry)
    BY <1>2, <1>4
  <2> HIDE DEF a, b, c
  <2>2. (a \o b) \o c = a \o (b \o c)
    BY ONLY <2>1, ConcatAssociative, SMTT(30)
  <2>3. QED BY <2>2 DEF a, b, c
<1>6. Then(t, r).out = <<t>> \o r.out /\ Then(t, r).ok = r.ok
  BY DEF Then
<1>7. QED BY <1>3, <1>5, <1>6 DEF t

LEMMA MeaningsFixed ==
    ASSUME buf' = buf
    PROVE  Meanings' = Meanings
  BY DEF Meanings, MeaningFrom

\* The command at the position of the extractor, as Reads sees it.
LEMMA HereIs ==
    ASSUME Inv
    PROVE  /\ NameStart = AfterInt(pos + 1) /\ NameEnd = EndAt(pos) /\ (HasName <=> NameFits(pos))
           /\ Path = PathAt(pos)
<1>1. tmp_path = Base
  BY DEF Inv, TypeOK
<1>2. QED BY <1>1 DEF NameStart, NameEnd, NameSize, HasName, NameFits, EndAt, Path, PathAt

LEMMA TellsFail ==
    ASSUME MeaningInv, Fits(Base), result = "running", Meanings[pos] = Bad,
           NEW error, error # "running", error # "NULL"
    PROVE  Tells(written, pos, error, Meanings)
<1> DEFINE M == Meanings
<1>1. M[0].out = EntriesOf(written) \o M[pos].out /\ (M[0].ok <=> M[pos].ok) /\ written \in Seq(Writing)
  BY DEF MeaningInv, Tells
<1>2. M[pos].out = << >> /\ M[pos].ok = FALSE
  BY DEF Bad
<1>3. EntriesOf(written) \in Seq(Entry)
  BY <1>1, EntriesType
<1> HIDE DEF M, Entry, Writing
<1>4. EntriesOf(written) \o << >> = EntriesOf(written)
  BY <1>3, ConcatEmptySeq
<1>5. M[0].out = EntriesOf(written) /\ ~M[0].ok
  BY <1>1, <1>2, <1>4
<1>6. QED BY <1>5 DEF Tells, M

LEMMA TellsNext ==
    ASSUME MeaningInv, Fits(Base), result = "running", NEW p \in 0..Len(buf), buf \in Seq(Nat), NEW x \in Writing,
           Meanings[pos] = Then(<<x[1], x[2], x[3]>>, Meanings[p])
    PROVE  Tells(Append(written, x), p, "running", Meanings) /\ Append(written, x) \in Seq(Writing)
<1> DEFINE M == Meanings
<1>1. M[0].out = EntriesOf(written) \o M[pos].out /\ (M[0].ok <=> M[pos].ok) /\ written \in Seq(Writing)
  BY DEF MeaningInv, Tells
<1>2. M[p] \in Result
  BY MeaningsType
<1>3. M[pos] = Then(<<x[1], x[2], x[3]>>, M[p])
  OBVIOUS
<1> HIDE DEF M
<1> DEFINE m == Then(<<x[1], x[2], x[3]>>, M[p])
<1>4. EntriesOf(written) \o m.out = EntriesOf(Append(written, x)) \o M[p].out /\ m.ok = M[p].ok
  BY <1>1, <1>2, OneMoreTells
<1> HIDE DEF m
<1>5. M[pos] = m
  BY <1>3 DEF m
<1>6. M[0].out = EntriesOf(Append(written, x)) \o M[p].out /\ (M[0].ok <=> M[p].ok)
  BY <1>1, <1>4, <1>5, Zenon
<1>7. Append(written, x) \in Seq(Writing)
  BY <1>1, AppendProperties
<1>8. QED BY <1>6, <1>7, Zenon DEF Tells, M

LEMMA InitTells == Init => MeaningInv
<1> SUFFICES ASSUME Init PROVE MeaningInv
  OBVIOUS
<1>1. written = << >> /\ pos = 0 /\ result = IF Fits(Base) THEN "running" ELSE "strcpy_s failed"
  BY DEF Init
<1>2. buf \in Seq(Nat)
  BY ArchiveAssumption DEF Init
<1>3. Meanings[0] \in Result
  <2>1. 0 \in 0..Len(buf)
    BY <1>2, LenProperties
  <2>2. QED BY <1>2, <2>1, MeaningsType
<1>4. EntriesOf(<< >>) = << >>
  BY DEF EntriesOf
<1>5. << >> \o Meanings[0].out = Meanings[0].out
  <2>1. Meanings[0].out \in Seq(Entry)
    BY <1>3 DEF Result
  <2> HIDE DEF Entry
  <2>2. QED BY <2>1, ConcatEmptySeq
<1>6. << >> \in Seq(Writing)
  BY EmptySeq
<1>7. Tells(written, pos, result, Meanings)
  <2>1. CASE Fits(Base)
    <3>1. result = "running"
      BY <1>1, <2>1
    <3>2. Meanings[0].out = EntriesOf(written) \o Meanings[pos].out
      BY <1>1, <1>4, <1>5
    <3>3. Meanings[0].ok <=> Meanings[pos].ok
      BY <1>1
    <3>4. QED BY <2>1, <3>1, <3>2, <3>3, Zenon DEF Tells
  <2>2. CASE ~Fits(Base)
    BY <1>1, <2>2 DEF Tells
  <2>3. QED BY <2>1, <2>2
<1>8. QED BY <1>1, <1>6, <1>7 DEF MeaningInv

LEMMA NextTells ==
    ASSUME Inv, MeaningInv, [Next]_vars
    PROVE  MeaningInv'
<1> DEFINE M == Meanings
<1>1. /\ buf \in Seq(Nat) /\ pos \in 0..Len(buf) /\ Len(buf) \in Nat /\ tmp_path = Base
      /\ result = "running" => Fits(Base)
  BY DEF Inv, TypeOK, ReadsInBounds
<1>2. M[pos] = Reads(M, pos) /\ written \in Seq(Writing)
  BY <1>1, MeaningsAre DEF MeaningInv
<1>3. /\ {Header, File, Dir, End} \subseteq Nat \ {0} /\ Magic \in Nat \ {0}
      /\ Header # File /\ Header # Dir /\ Header # End /\ File # Dir /\ File # End /\ Dir # End
  BY CommandsDiffer
<1>4. ASSUME buf' = buf, written' \in Seq(Writing), Tells(written', pos', result', M) PROVE MeaningInv'
  <2>1. Meanings' = Meanings
    BY <1>4, MeaningsFixed
  <2>2. Tells(written', pos', result', Meanings')
    BY <1>4, <2>1
  <2>3. QED BY <1>4, <2>2 DEF MeaningInv, Tells, EntriesOf, Fits, Base
<1>5. ASSUME NEW error, Fail(error), error # "running", error # "NULL", result = "running", Reads(M, pos) = Bad
      PROVE  MeaningInv'
  <2>1. buf' = buf /\ written' = written /\ result' = error
    BY <1>5 DEF Fail
  <2>2. Tells(written, pos, error, M)
    BY <1>1, <1>2, <1>5, TellsFail
  <2>3. Tells(written, pos', error, M)
    BY <1>5, <2>2 DEF Tells
  <2>4. QED BY <1>2, <1>4, <2>1, <2>3
<1>6. ASSUME NEW p \in 0..Len(buf), NEW x \in Writing, result = "running",
             Reads(M, pos) = Then(<<x[1], x[2], x[3]>>, M[p]),
             buf' = buf, pos' = p, result' = result, written' = Append(written, x)
      PROVE  MeaningInv'
  <2>1. M[pos] = Then(<<x[1], x[2], x[3]>>, M[p])
    BY <1>2, <1>6
  <2>2. Tells(Append(written, x), p, "running", M) /\ Append(written, x) \in Seq(Writing)
    BY <1>1, <1>6, <2>1, TellsNext
  <2>3. QED BY <1>4, <1>6, <2>2
<1>7. HasName <=> NameFits(pos)
  BY HereIs
<1>8. Path = PathAt(pos) /\ NameEnd = EndAt(pos)
  BY HereIs
<1> HIDE DEF M, Writing, Entry
<1>9. CASE ReadHeader
  <2>1. result = "running" /\ IntAt(pos) = Header
    BY <1>9 DEF ReadHeader, Command
  <2>2. CASE IntAt(pos + 1) = Magic /\ pos' = AfterInt(pos + 1) /\ UNCHANGED <<buf, tmp_path, result, written>>
    <3>1. Reads(M, pos) = M[AfterInt(pos + 1)]
      BY <1>3, <2>1, <2>2 DEF Reads
    <3>2. Tells(written, pos, result, M)
      BY DEF MeaningInv, M
    <3>3. Tells(written, AfterInt(pos + 1), result, M)
      BY <1>2, <3>1, <3>2 DEF Tells
    <3>4. QED BY <1>2, <1>4, <2>2, <3>3
  <2>3. CASE IntAt(pos + 1) # Magic /\ Fail("invalid archive format")
    <3>1. Reads(M, pos) = Bad
      BY <1>3, <2>1, <2>3 DEF Reads
    <3>2. QED BY <1>5, <2>1, <2>3, <3>1
  <2>4. QED BY <1>9, <2>2, <2>3 DEF ReadHeader
<1>10. ASSUME NEW c \in {File, Dir}, BadName(c) PROVE MeaningInv'
  <2>1. result = "running" /\ IntAt(pos) = c
    BY <1>10 DEF BadName, Command
  <2>2. ~NameFits(pos) \/ ~Fits(PathAt(pos))
    BY <1>7, <1>8, <1>10 DEF BadName
  <2>3. Reads(M, pos) = Bad
    BY <1>3, <2>1, <2>2 DEF Reads
  <2>4. PICK error \in {"can't read name string", "can't strcat_s name string"} : Fail(error)
    BY <1>10 DEF BadName
  <2>5. error # "running" /\ error # "NULL"
    BY <2>4
  <2>6. QED BY <1>5, <2>1, <2>3, <2>4, <2>5
<1>11. CASE WriteFile
  <2> DEFINE start == AfterInt(NameEnd)
             size  == IntAt(NameEnd)
             bytes == SubSeq(buf, start + 1, start + size)
  <2>1. result = "running" /\ IntAt(pos) = File /\ NameFits(pos) /\ Fits(PathAt(pos))
    BY <1>7, <1>8, <1>11 DEF WriteFile, Command
  <2>2. start = StartAt(pos) /\ size = SizeAt(pos)
    BY <1>8 DEF StartAt, SizeAt
  <2>3. CASE ~Remains(start, size) /\ Fail("can't read file buffer")
    <3>1. Reads(M, pos) = Bad
      <4> HIDE DEF start, size
      <4>1. QED BY <1>3, <2>1, <2>2, <2>3 DEF Reads
    <3>2. QED BY <1>5, <2>1, <2>3, <3>1
  <2>4. ASSUME Remains(start, size), NEW ok \in BOOLEAN, written' = Append(written, <<"file", Path, bytes, ok>>),
               pos' = start + size, UNCHANGED <<buf, result>>
        PROVE  MeaningInv'
    <3> DEFINE x == <<"file", Path, bytes, ok>>
    <3>1. Reads(M, pos) = Then(<<"file", Path, bytes>>, M[start + size])
      <4>1. bytes = SubSeq(buf, StartAt(pos) + 1, StartAt(pos) + SizeAt(pos))
        BY <2>2
      <4> HIDE DEF start, size, bytes
      <4>2. QED BY <1>3, <1>8, <2>1, <2>2, <2>4, <4>1 DEF Reads
    <3>2. start + size \in 0..Len(buf) /\ bytes \in Seq(Nat) /\ Path \in Seq(Nat)
      <4>1. IntAt(pos) # 0
        BY <1>3, <2>1
      <4>2. NameFits(pos) /\ Remains(StartAt(pos), SizeAt(pos))
        BY <2>1, <2>2, <2>4
      <4>3. /\ StartAt(pos) + SizeAt(pos) \in (pos + 1)..Len(buf)
            /\ SubSeq(buf, StartAt(pos) + 1, StartAt(pos) + SizeAt(pos)) \in Seq(Nat)
            /\ PathAt(pos) \in Seq(Nat)
        BY <1>1, <4>1, <4>2, ReadsAhead
      <4>4. StartAt(pos) + SizeAt(pos) \in 0..Len(buf)
        BY <1>1, <4>3
      <4> HIDE DEF start, size
      <4>5. QED BY <1>8, <2>2, <4>3, <4>4
    <3>3. x \in Writing /\ x[1] = "file" /\ x[2] = Path /\ x[3] = bytes
      <4> HIDE DEF bytes
      <4>1. QED BY <2>4, <3>2 DEF Writing
    <3>4. Reads(M, pos) = Then(<<x[1], x[2], x[3]>>, M[start + size])
      <4> HIDE DEF bytes, x, start, size
      <4>1. QED BY <3>1, <3>3
    <3>5. written' = Append(written, x)
      BY <2>4
    <3> HIDE DEF x, start, size, bytes
    <3>6. QED BY <1>6, <2>1, <2>4, <3>2, <3>3, <3>4, <3>5
  <2>5. QED
    <3>1. \/ ~Remains(start, size) /\ Fail("can't read file buffer")
          \/ /\ Remains(start, size)
             /\ \E ok \in BOOLEAN : written' = Append(written, <<"file", Path, bytes, ok>>)
             /\ pos' = start + size /\ UNCHANGED <<buf, result>>
      BY <1>11 DEF WriteFile
    <3>2. QED BY <2>3, <2>4, <3>1, Zenon
<1>12. CASE MakeDir
  <2> DEFINE x == <<"dir", Path, << >>, TRUE>>
  <2>1. result = "running" /\ IntAt(pos) = Dir /\ NameFits(pos) /\ Fits(PathAt(pos))
    BY <1>7, <1>8, <1>12 DEF MakeDir, Command
  <2>2. EndAt(pos) \in 0..Len(buf) /\ Path \in Seq(Nat)
    <3>1. IntAt(pos) # 0
      BY <1>3, <2>1
    <3>2. EndAt(pos) \in (pos + 1)..Len(buf) /\ PathAt(pos) \in Seq(Nat)
      BY <1>1, <2>1, <3>1, ReadsAhead
    <3>3. QED BY <1>1, <1>8, <3>2
  <2>3. Reads(M, pos) = Then(<<"dir", Path, << >>>>, M[EndAt(pos)])
    BY <1>3, <1>8, <2>1 DEF Reads
  <2>4. x \in Writing /\ x[1] = "dir" /\ x[2] = Path /\ x[3] = << >>
    <3>1. << >> \in Seq(Nat)
      BY EmptySeq
    <3>2. QED BY <2>2, <3>1 DEF Writing
  <2>5. written' = Append(written, x) /\ pos' = EndAt(pos) /\ buf' = buf /\ result' = result
    BY <1>8, <1>12 DEF MakeDir
  <2> HIDE DEF x
  <2>6. Reads(M, pos) = Then(<<x[1], x[2], x[3]>>, M[EndAt(pos)])
    BY <2>3, <2>4
  <2>7. QED BY <1>6, <2>1, <2>2, <2>4, <2>5, <2>6
<1>13. CASE Finished
  <2>1. result = "running" /\ IntAt(pos) = End /\ buf' = buf /\ written' = written /\ result' = "NULL"
    BY <1>13 DEF Finished, Command
  <2>2. Reads(M, pos) = [ok |-> TRUE, out |-> << >>]
    BY <1>3, <2>1 DEF Reads
  <2>3. Tells(written, pos, result, M)
    BY DEF MeaningInv, M
  <2>4. M[0].out = EntriesOf(written) \o << >> /\ M[0].ok
    BY <1>1, <1>2, <2>1, <2>2, <2>3 DEF Tells
  <2>5. EntriesOf(written) \o << >> = EntriesOf(written)
    <3>1. EntriesOf(written) \in Seq(Entry)
      BY <1>2, EntriesType
    <3>2. QED BY ONLY <3>1, ConcatEmptySeq
  <2>6. Tells(written, pos', "NULL", M)
    BY <1>1, <2>1, <2>4, <2>5 DEF Tells
  <2>7. QED BY <1>2, <1>4, <2>1, <2>6
<1>14. CASE Invalid
  <2>1. result = "running" /\ IntAt(pos) \notin {Header, File, Dir, End} /\ Fail("invalid nxarchive command")
    BY <1>14 DEF Invalid
  <2>2. Reads(M, pos) = Bad
    BY <2>1 DEF Reads
  <2>3. QED BY <1>5, <2>1, <2>2
<1>15. CASE UNCHANGED vars
  <2>1. Tells(written, pos, result, M)
    BY DEF MeaningInv, M
  <2>2. QED BY <1>2, <1>4, <1>15, <2>1 DEF vars
<1>16. QED BY <1>9, <1>10, <1>11, <1>12, <1>13, <1>14, <1>15 DEF Next

\* NXExtractArchive does what the format says, for every stream: what it has written
\* when it stops are the entries of the stream up to the end or the damage, and it
\* reports success exactly for the streams that are archives.
THEOREM ExtractsTheFormat == Spec => []ExtractsMeaning
<1>1. Inv /\ MeaningInv => ExtractsMeaning
  <2>1. Entries = EntriesOf(written) /\ Meaning = Meanings[0]
    BY DEF Entries, EntriesOf, Meaning
  <2>2. QED BY <2>1, Zenon DEF MeaningInv, Tells, ExtractsMeaning
<1>2. Init => Inv /\ MeaningInv
  BY InitInv, InitTells
<1>3. Inv /\ MeaningInv /\ [Next]_vars => Inv' /\ MeaningInv'
  BY NextInv, NextTells
<1>4. QED BY <1>1, <1>2, <1>3, PTL DEF Spec

==============================================================================
