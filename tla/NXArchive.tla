----------------------------- MODULE NXArchive -----------------------------
(***************************************************************************)
(* jni/nxarchive.c: NXExtractArchive, the interpreter of a stream of       *)
(* commands (header, file, directory, end) that a server or a mod sends.   *)
(* The stream is a sequence of cells: one cell is an integer of the stream *)
(* or one byte of a name or of a file.  One step interprets one command.   *)
(***************************************************************************)
EXTENDS Integers, Sequences, FiniteSets

CONSTANTS Buffers,      \* the streams to extract
          Header, File, Dir, End, Magic,  \* 100, 200, 201, 300, 0x584e0001
          Location,     \* the directory, as the cells of its path
          Slash,
          PathMax,      \* bytes of tmp_path, the NUL included
          WriteFails    \* may a file not be written, or not in full?

NUL == 0

ASSUME ArchiveAssumption ==
    /\ Buffers \subseteq Seq(Nat)
    /\ {Header, File, Dir, End} \subseteq Nat \ {0} /\ Magic \in Nat \ {0}
    /\ Cardinality({Header, File, Dir, End}) = 4
    /\ Location \in Seq(Nat) /\ Slash \in Nat
    /\ PathMax \in Nat
    /\ WriteFails \in BOOLEAN

VARIABLES buf,       \* base and size
          pos,       \* position of the extractor: cells consumed
          tmp_path,
          result,    \* "running", "NULL" (success), or the error
          written,   \* what was done to the file system, in order
          touched    \* positions of buf read in the last step

vars == <<buf, pos, tmp_path, result, written, touched>>

------------------------------------------------------------------------------
\* NXReadInt: past the end it returns 0 and does not move.
IntAt(p) == IF p + 1 > Len(buf) THEN 0 ELSE buf[p + 1]
\* Mutant: the position moves before the size is checked.
AfterIntUnchecked(p) == p + 1

AfterInt(p) == IF p + 1 > Len(buf) THEN p ELSE p + 1
Touch(p, size) == (p + 1)..(p + size)
TouchInt(p) == Touch(p, AfterInt(p) - p)

\* NXGetPointer
Remains(p, size) == Len(buf) - p >= size

\* NXGetStringPointer: the last byte must be NUL.  For size 0 the byte before p
\* is looked at, which is there because a command was read.
HasString(p, size) == Remains(p, size) /\ buf[p + size] = NUL
TouchString(p, size) == IF Remains(p, size) THEN {p + size} \cup Touch(p, size) ELSE {}

\* A C string ends at its first NUL.
StringAt(p, size) ==
    LET last == CHOOSE n \in 1..size : buf[p + n] = NUL /\ \A m \in 1..(n - 1) : buf[p + m] # NUL
    IN  SubSeq(buf, p + 1, p + last - 1)

Base == Append(Location, Slash)
Fits(path) == Len(path) + 1 <= PathMax

------------------------------------------------------------------------------
\* strcpy_s and strcat_s of the location, before the first command.
Init ==
    /\ buf \in Buffers /\ pos = 0
    /\ written = << >> /\ touched = {}
    /\ tmp_path = Base
    /\ result = IF Fits(Base) THEN "running" ELSE "strcpy_s failed"

Fail(error) ==
    /\ result' = error
    /\ UNCHANGED <<buf, pos, tmp_path, written>>

Command(c) == result = "running" /\ IntAt(pos) = c

\* Mutant: the magic number is not compared.
HeaderUnchecked ==
    /\ Command(Header)
    /\ touched' = TouchInt(pos) \cup TouchInt(pos + 1)
    /\ pos' = AfterInt(pos + 1)
    /\ UNCHANGED <<buf, tmp_path, result, written>>

ReadHeader ==
    /\ Command(Header)
    /\ touched' = TouchInt(pos) \cup TouchInt(pos + 1)
    /\ \/ /\ IntAt(pos + 1) = Magic
          /\ pos' = AfterInt(pos + 1)
          /\ UNCHANGED <<buf, tmp_path, result, written>>
       \/ IntAt(pos + 1) # Magic /\ Fail("invalid archive format")

\* The name after the command at pos, appended to tmp_path; the error if there is none.
NameSize == IntAt(pos + 1)
NameStart == AfterInt(pos + 1)
NameEnd == NameStart + NameSize
HasName == HasString(NameStart, NameSize) /\ NameSize # 0
Path == tmp_path \o StringAt(NameStart, NameSize)
TouchName == TouchInt(pos) \cup TouchInt(pos + 1) \cup TouchString(NameStart, NameSize)

BadName(c) ==
    /\ Command(c)
    /\ touched' = TouchName
    /\ \/ ~HasName /\ Fail("can't read name string")
       \/ HasName /\ ~Fits(Path) /\ Fail("can't strcat_s name string")

\* Mutant: the name stays in the path.
NotRestored == Path

\* The base of tmp_path is restored by cutting it after the slash.
Restored == SubSeq(tmp_path, 1, Len(Location) + 1)

WriteFile ==
    /\ Command(File) /\ HasName /\ Fits(Path)
    /\ LET start == AfterInt(NameEnd)
           size  == IntAt(NameEnd)
       IN  /\ touched' = TouchName \cup TouchInt(NameEnd)
                           \cup (IF Remains(start, size) THEN Touch(start, size) ELSE {})
           /\ \/ ~Remains(start, size) /\ Fail("can't read file buffer")
              \/ /\ Remains(start, size)
                 \* NXWriteBufToFile returns nothing: a file that cannot be written stops nothing.
                 /\ \E ok \in IF WriteFails THEN BOOLEAN ELSE {TRUE} :
                       written' = Append(written,
                           <<"file", Path, SubSeq(buf, start + 1, start + size), ok>>)
                 /\ pos' = start + size
                 /\ tmp_path' = Restored
                 /\ UNCHANGED <<buf, result>>

\* The result of mkdir is ignored, as the code says: the directory may exist.
MakeDir ==
    /\ Command(Dir) /\ HasName /\ Fits(Path)
    /\ touched' = TouchName
    /\ written' = Append(written, <<"dir", Path, << >>, TRUE>>)
    /\ pos' = NameEnd
    /\ tmp_path' = Restored
    /\ UNCHANGED <<buf, result>>

Finished ==
    /\ Command(End)
    /\ touched' = TouchInt(pos)
    /\ pos' = AfterInt(pos) /\ result' = "NULL"
    /\ UNCHANGED <<buf, tmp_path, written>>

\* Mutant: a command that is not known is skipped.
InvalidSkipped ==
    /\ result = "running" /\ IntAt(pos) \notin {Header, File, Dir, End}
    /\ touched' = TouchInt(pos)
    /\ pos' = AfterInt(pos)
    /\ UNCHANGED <<buf, tmp_path, result, written>>

Invalid ==
    /\ result = "running" /\ IntAt(pos) \notin {Header, File, Dir, End}
    /\ touched' = TouchInt(pos)
    /\ Fail("invalid nxarchive command")

Next == ReadHeader \/ BadName(File) \/ BadName(Dir) \/ WriteFile \/ MakeDir \/ Finished \/ Invalid

\* The loop runs to its end on the Lua thread.
Spec == Init /\ [][Next]_vars /\ WF_vars(Next)

------------------------------------------------------------------------------
TypeOK ==
    /\ buf \in Seq(Nat) /\ pos \in Nat
    /\ tmp_path = Base
    /\ result = "running" => Fits(Base)

\* No command reads outside of the buffer, whatever sizes the stream claims and
\* wherever it is cut ("protect us from anything horrid").
ReadsInBounds == pos \in 0..Len(buf) /\ touched \subseteq 1..Len(buf)

\* Every stream comes to an end: with success or with an error.
Ends == <>(result # "running")
==============================================================================
