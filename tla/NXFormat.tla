------------------------------ MODULE NXFormat ------------------------------
(***************************************************************************)
(* Reference for NXArchive: the format, read from the front.  What the     *)
(* rest of a stream extracts to, and whether it is an archive, follow from *)
(* its first command and what comes behind it.                             *)
(***************************************************************************)
EXTENDS NXArchive

After(s, n) == SubSeq(s, n + 1, Len(s))
Bad == [ok |-> FALSE, out |-> << >>]
Then(entry, r) == [ok |-> r.ok, out |-> <<entry>> \o r.out]

\* A name of n > 0 bytes at the head of s, the last of which is NUL.
Named(s, n) == n > 0 /\ Len(s) >= n /\ s[n] = NUL
FirstNul(s) == CHOOSE n \in 1..Len(s) : s[n] = NUL /\ \A m \in 1..(n - 1) : s[m] # NUL
NameOf(s) == SubSeq(s, 1, FirstNul(s) - 1)
PathOf(s) == Location \o <<Slash>> \o NameOf(s)
Short(s) == Len(PathOf(s)) < PathMax

\* The meaning of the stream from p on; M is that from any later position on.
MeaningFrom(M, p) ==
    LET s == After(buf, p)
        n == IF Len(s) > 1 THEN s[2] ELSE 0
        name == After(s, 2)
        rest == After(s, 2 + n)
        size == IF rest = << >> THEN 0 ELSE rest[1]
        body == After(rest, 1)
        Behind(x) == M[Len(buf) - Len(x)]
    IN  CASE s = << >> -> Bad
          [] s # << >> /\ Head(s) = End -> [ok |-> TRUE, out |-> << >>]
          [] s # << >> /\ Head(s) = Header /\ n = Magic -> Behind(name)
          [] s # << >> /\ Head(s) = Dir /\ Named(name, n) /\ Short(name) ->
               Then(<<"dir", PathOf(name), << >>>>, Behind(rest))
          [] s # << >> /\ Head(s) = File /\ Named(name, n) /\ Short(name) /\ size <= Len(body) ->
               Then(<<"file", PathOf(name), SubSeq(body, 1, size)>>, Behind(After(body, size)))
          [] OTHER -> Bad
Meanings == LET M[p \in 0..Len(buf)] == MeaningFrom(M, p) IN M
Meaning == Meanings[0]

Entries == [n \in DOMAIN written |-> <<written[n][1], written[n][2], written[n][3]>>]

\* NXExtractArchive extracts what the format says, succeeds exactly on archives, and
\* on a damaged stream has extracted exactly the entries before the damage, whichever
\* of the files could not be written.  If the location itself is too long it does nothing.
ExtractsMeaning ==
    result # "running" =>
        IF Fits(Base) THEN Entries = Meaning.out /\ (result = "NULL" <=> Meaning.ok)
        ELSE written = << >> /\ result # "NULL"
==============================================================================
