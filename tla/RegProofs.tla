----------------------------- MODULE RegProofs -----------------------------
(***************************************************************************)
(* Theorems about Reg.  Whatever fails, what a save reports is what it     *)
(* did.  If fclose never loses what it flushes, then                       *)
(*   - the file at the path of the database is always absent or exact;     *)
(*   - Reg implements DurableStore: strictly, if a new process can always  *)
(*     open the file and its table can always grow; otherwise a process    *)
(*     may come up with a part of what was saved.                          *)
(*                                                                         *)
(* SaveInv is the inductive invariant: a save in progress owns the call,   *)
(* an error has a cause, and what is about to be renamed is the whole of   *)
(* the dictionary.                                                         *)
(***************************************************************************)
EXTENDS Reg, TLAPS

Changes == {"knDbSet", "knDbDelete"} \X Blobs

SaveInv ==
    /\ pc = "idle" <=> call = Idle
    /\ pc # "idle" => loaded /\ call \in Changes
    /\ error \in BOOLEAN /\ fault \in BOOLEAN
    /\ pc = "idle" => ~error
    /\ error => fault \/ Unwritable(gDatabase)
    /\ pc = "rename" =>
          temp.dict = gDatabase /\ (CloseFails \/ temp = File(gDatabase, Items(gDatabase)))
    /\ main = NoFile \/ CloseFails \/ Complete(main)

LEMMA BlobsOfArguments ==
    /\ \A a \in RegKeys \cup RegValues \cup DbKeys \cup DbValues :
          ToString[a] # NoBlob => ToString[a] \in Blobs
  BY LuaAssumption DEF Blobs

\* The calls that do not start a save change neither it nor the files.
LEMMA CallsKeepSave ==
    ASSUME RegistryCall \/ DatabaseCall
    PROVE  /\ pc = "idle"
           /\ \/ UNCHANGED saveVars
              \/ \E op \in {"knDbSet", "knDbDelete"}, k \in Blobs : StartSave(op, k)
<1>1. CASE RegistryCall
  BY <1>1 DEF RegistryCall, knRegSet, knRegGet, knRegHas, knRegDelete, knRegCount,
              knRegKeys, Rejected, Return
<1>2. CASE DatabaseCall
  <2>1. CASE \E a \in DbKeys, b \in DbValues :
                ToString[a] # NoBlob /\ ToString[b] # NoBlob /\ knDbSet(ToString[a], ToString[b])
    BY <2>1, BlobsOfArguments DEF knDbSet, StartSave
  <2>2. CASE \E a \in DbKeys : ToString[a] # NoBlob /\ knDbDelete(ToString[a])
    BY <2>2, BlobsOfArguments DEF knDbDelete, StartSave
  <2>3. CASE \E a \in DbKeys : \/ knDbGet(ToString[a])
                               \/ knDbHas(ToString[a])
                               \/ knDbSetFails(ToString[a])
    BY <2>3 DEF knDbGet, knDbHas, knDbSetFails, Return
  <2>4. CASE \E a \in DbKeys \cup DbValues : Rejected(a)
    BY <2>4 DEF Rejected, Return
  <2> QED BY <1>2, <2>1, <2>2, <2>3, <2>4 DEF DatabaseCall
<1> QED BY <1>1, <1>2

------------------------------------------------------------------------------
\* The dictionaries are sequences of pairs of strings, also those that come from a file
\* that was cut short.
Strings == Blobs \cup {EmptyBlob}
Pairs == [key : Strings, value : Strings]

Partial(f) == f.dict \in Seq(Pairs) /\ f.len \in 0..Items(f.dict)

DictInv ==
    /\ gDatabase \in Seq(Pairs) /\ i \in Nat
    /\ main = NoFile \/ Partial(main)
    /\ pc = "rename" => Partial(temp)

LEMMA PutType ==
    ASSUME NEW d \in Seq(Pairs), NEW k \in Strings, NEW v \in Strings
    PROVE  Put(d, k, v) \in Seq(Pairs)
<1>1. Pair(k, v) \in Pairs
  BY DEF Pair, Pairs
<1>2. CASE Contains(d, k)
  <2>1. IndexIn(d, k) \in 1..Len(d)
    BY <1>2 DEF Contains, IndexIn
  <2> QED BY <1>1, <1>2, <2>1 DEF Put
<1> QED BY <1>1, <1>2 DEF Put

LEMMA DropType ==
    ASSUME NEW d \in Seq(Pairs), NEW k
    PROVE  Drop(d, k) \in Seq(Pairs)
<1>1. CASE Contains(d, k)
  <2>1. IndexIn(d, k) \in 1..Len(d)
    BY <1>1 DEF Contains, IndexIn
  <2>2. Len(d) - 1 \in Nat
    BY <2>1
  <2>3. \A j \in 1..(Len(d) - 1) : (IF j < IndexIn(d, k) THEN d[j] ELSE d[j + 1]) \in Pairs
    BY <2>1
  <2> QED BY <1>1, <2>2, <2>3 DEF Drop
<1> QED BY <1>1 DEF Drop

\* A part is a sequence, the whole is a part, and so is nothing.
LEMMA PartsType ==
    ASSUME NEW d \in Seq(Pairs)
    PROVE  Parts(d) \subseteq Seq(Pairs) /\ d \in Parts(d) /\ << >> \in Parts(d)
<1> DEFINE Rising(m) == {f \in [1..m -> 1..Len(d)] : \A a, b \in 1..m : a < b => f[a] < f[b]}
           Chosen(m, f) == [n \in 1..m |-> d[f[n]]]
<1>1. Parts(d) = UNION {{Chosen(m, f) : f \in Rising(m)} : m \in 0..Len(d)}
  BY DEF Parts
<1>2. Len(d) \in Nat
  OBVIOUS
<1>3. ASSUME NEW m \in 0..Len(d), NEW f \in Rising(m)
      PROVE  Chosen(m, f) \in Seq(Pairs)
  <2>1. \A n \in 1..m : d[f[n]] \in Pairs
    OBVIOUS
  <2> QED BY <1>2, <2>1
<1>4. d \in Parts(d)
  <2> DEFINE same == [n \in 1..Len(d) |-> n]
  <2>1. same \in Rising(Len(d))
    OBVIOUS
  <2>2. Chosen(Len(d), same) = d
    OBVIOUS
  <2> HIDE DEF Rising, Chosen, same
  <2> QED BY <1>1, <1>2, <2>1, <2>2
<1>5. << >> \in Parts(d)
  <2> DEFINE none == [n \in 1..0 |-> n]
  <2>1. none \in Rising(0)
    OBVIOUS
  <2>2. Chosen(0, none) = << >>
    OBVIOUS
  <2> HIDE DEF Rising, Chosen, none
  <2> QED BY <1>1, <1>2, <2>1, <2>2
<1> HIDE DEF Rising, Chosen
<1> QED BY <1>1, <1>3, <1>4, <1>5

LEMMA LoadDictType ==
    ASSUME NEW f, f = NoFile \/ Partial(f)
    PROVE  LoadDict(f) \subseteq Seq(Pairs)
<1>1. << >> \in Seq(Pairs) /\ EmptyBlob \in Strings
  BY DEF Strings
<1>2. ASSUME NEW d \in Seq(Pairs)
      PROVE  Loaded(d) \subseteq Seq(Pairs)
  BY PartsType DEF Loaded
<1>3. ASSUME NEW D \in SUBSET Seq(Pairs), NEW k \in Strings, NEW v \in Strings
      PROVE  SetUnchecked(D, k, v) \subseteq Seq(Pairs)
  BY PutType DEF SetUnchecked
<1>4. ASSUME NEW D \in SUBSET Seq(Pairs)
      PROVE  ReadPastEnd(D) \subseteq Seq(Pairs)
  BY <1>1, <1>3 DEF ReadPastEnd
<1>5. ASSUME Partial(f), ~Complete(f)
      PROVE  LoadCut(f) \subseteq Seq(Pairs)
  <2> DEFINE whole == (f.len - 2) \div 4
             read  == Loaded(SubSeq(f.dict, 1, whole))
             item  == (f.len - 2) % 4
             keyed == SetUnchecked(read, f.dict[whole + 1].key, EmptyBlob)
  <2>1. CASE f.len < 2
    BY <1>1, <1>4, <2>1 DEF LoadCut
  <2>2. CASE f.len >= 2
    <3>1. f.len \in Nat /\ Len(f.dict) \in Nat /\ f.len < 2 + 4 * Len(f.dict)
      BY <1>5 DEF Partial, Complete, Items
    <3>2. whole \in 0..(Len(f.dict) - 1)
      BY <2>2, <3>1
    <3>3. SubSeq(f.dict, 1, whole) \in Seq(Pairs) /\ f.dict[whole + 1] \in Pairs
      BY <1>5, <3>1, <3>2 DEF Partial
    <3>4. read \in SUBSET Seq(Pairs)
      BY <1>2, <3>3
    <3>5. keyed \in SUBSET Seq(Pairs)
      BY <1>1, <1>3, <3>3, <3>4 DEF Pairs
    <3>6. ReadPastEnd(read) \subseteq Seq(Pairs) /\ ReadPastEnd(keyed) \subseteq Seq(Pairs)
      BY <1>4, <3>4, <3>5
    <3>7. item \in 0..3
      BY <3>1
    <3>8. LoadPairsCut(f) \in {ReadPastEnd(read), ReadPastEnd(keyed), keyed, {}}
      <4> DEFINE cut == IF whole + 1 < Len(f.dict) THEN ReadPastEnd(keyed) ELSE keyed
      <4>1. LoadPairsCut(f) = CASE item = 0 -> ReadPastEnd(read)
                                [] item = 2 -> cut
                                [] item \in {1, 3} -> {}
        BY DEF LoadPairsCut
      <4> HIDE DEF read, keyed, item
      <4> QED BY <3>7, <4>1
    <3> HIDE DEF read, keyed
    <3> QED BY <2>2, <3>1, <3>5, <3>6, <3>8 DEF LoadCut
  <2> QED BY <1>5, <2>1, <2>2 DEF Partial
<1> QED BY <1>1, <1>2, <1>5 DEF LoadDict, Partial

LEMMA GetDBType ==
    ASSUME DictInv
    PROVE  GetDB \subseteq Seq(Pairs)
<1>1. << >> \in Seq(Pairs)
  OBVIOUS
<1> QED BY <1>1, LoadDictType DEF GetDB, DictInv

LEMMA InitSaveInv == Init => SaveInv
  BY DEF Init, SaveInv

LEMMA NextSaveInv ==
    ASSUME SaveInv, DictInv, [Next]_vars
    PROVE  SaveInv'
<1> USE DEF SaveInv, Complete, Items
<1>1. CASE pc = "idle" /\ UNCHANGED saveVars
  BY <1>1 DEF saveVars
<1>2. CASE \E op \in {"knDbSet", "knDbDelete"}, k \in Blobs : StartSave(op, k)
  <2>1. call' # Idle /\ call' \in Changes
    BY <1>2, LuaAssumption DEF StartSave, Changes
  <2>2. error' = FALSE /\ fault' = FALSE
    BY <1>2 DEF StartSave
  <2>3. pc' = "open" /\ loaded' /\ main' = main
    BY <1>2 DEF StartSave
  <2> QED BY <2>1, <2>2, <2>3
<1>3. CASE OpenTemp
  <2>1. CASE OpenFails /\ fault' = TRUE /\ Finish(FALSE)
    BY <1>3, <2>1 DEF OpenTemp, Finish, memVars
  <2>2. CASE pc' = "header" /\ UNCHANGED <<call, i, error, fault, ret>>
    BY <1>3, <2>2 DEF OpenTemp, memVars, Unwritable
  <2> QED BY <1>3, <2>1, <2>2 DEF OpenTemp
<1>4. CASE WriteHeader
  BY <1>4 DEF WriteHeader, Write, memVars, Unwritable
<1>5. CASE WritePair
  <2> DEFINE empty == EmptyBlob \in {gDatabase[i + 1].key, gDatabase[i + 1].value}
  <2>1. /\ error' \in BOOLEAN /\ fault' \in BOOLEAN
        /\ error' => fault' \/ (error /\ fault' = fault) \/ empty
    <3> HIDE DEF empty
    <3>1. Write(empty)
      BY <1>5, Zenon DEF WritePair, empty
    <3>2. CASE error' = (error \/ empty) /\ UNCHANGED fault
      BY <3>2, Zenon DEF SaveInv
    <3>3. CASE WriteFails /\ error' = TRUE /\ fault' = TRUE
      <4>1. error' \in BOOLEAN /\ fault' \in BOOLEAN
        BY <3>3
      <4>2. fault'
        BY <3>3, Zenon
      <4> QED BY <4>1, <4>2, Zenon
    <3> QED BY <3>1, <3>2, <3>3, Zenon DEF Write
  <2>2. empty => Unwritable(gDatabase)
    <3>1. i + 1 \in 1..Len(gDatabase)
      BY <1>5 DEF WritePair, DictInv
    <3> QED BY <3>1 DEF Unwritable
  <2>3. error' => fault' \/ Unwritable(gDatabase)
    <3> HIDE DEF empty
    <3> QED BY <2>1, <2>2
  <2>4. UNCHANGED <<main, call, loaded, pc>> /\ pc = "pairs" /\ gDatabase' = gDatabase
    BY <1>5 DEF WritePair, memVars
  <2>5. Unwritable(gDatabase)' <=> Unwritable(gDatabase)
    BY <2>4 DEF Unwritable
  <2> QED BY <2>1, <2>3, <2>4, <2>5
<1>6. CASE CloseTemp
  <2>1. CASE Finish(FALSE) /\ UNCHANGED temp
    BY <1>6, <2>1 DEF CloseTemp, Finish, memVars
  <2>2. CASE (\E n \in Flushed : temp' = File(gDatabase, n)) /\ ~error /\ UNCHANGED error
    <3>1. temp'.dict = gDatabase /\ (CloseFails \/ temp' = File(gDatabase, Items(gDatabase)))
      BY <2>2 DEF Flushed, File
    <3> QED BY <1>6, <2>2, <3>1 DEF CloseTemp, Finish, memVars
  <2> QED BY <1>6, <2>1, <2>2 DEF CloseTemp
<1>7. CASE Rename
  <2>1. main' = main \/ CloseFails \/ main' = File(gDatabase, Items(gDatabase))
    BY <1>7 DEF Rename
  <2>2. (main = NoFile \/ CloseFails \/ Complete(main))'
    BY <2>1 DEF File
  <2> QED BY <1>7, <2>2 DEF Rename, Finish, memVars
<1>8. CASE Restart
  BY <1>8 DEF Restart
<1>9. CASE UNCHANGED vars
  BY <1>9 DEF vars, Unwritable
<1> QED BY <1>1, <1>2, <1>3, <1>4, <1>5, <1>6, <1>7, <1>8, <1>9, CallsKeepSave DEF Next, SaveDict

LEMMA InitDictInv == Init => DictInv
  BY DEF Init, DictInv

LEMMA NextDictInv ==
    ASSUME SaveInv, DictInv, [Next]_vars
    PROVE  DictInv'
<1>1. CASE RegistryCall
  BY <1>1 DEF RegistryCall, knRegSet, knRegGet, knRegHas, knRegDelete, knRegCount,
              knRegKeys, Rejected, dbVars, saveVars, DictInv, Partial, Items, Return
<1>2. CASE DatabaseCall
  <2>1. UNCHANGED <<main, i>> /\ pc' # "rename"
    BY <1>2, CallsKeepSave DEF saveVars, StartSave
  <2>2. gDatabase' \in Seq(Pairs)
    <3>1. CASE \E a \in DbKeys, b \in DbValues :
                  ToString[a] # NoBlob /\ ToString[b] # NoBlob /\ knDbSet(ToString[a], ToString[b])
      BY <3>1, BlobsOfArguments, GetDBType, PutType DEF knDbSet, Strings
    <3>2. CASE \E a \in DbKeys : ToString[a] # NoBlob /\ knDbDelete(ToString[a])
      BY <3>2, GetDBType, DropType DEF knDbDelete
    <3>3. CASE \E a \in DbKeys : \/ knDbGet(ToString[a])
                                 \/ knDbHas(ToString[a])
                                 \/ knDbSetFails(ToString[a])
      BY <3>3, GetDBType DEF knDbGet, knDbHas, knDbSetFails
    <3>4. CASE \E a \in DbKeys \cup DbValues : Rejected(a)
      BY <3>4 DEF Rejected, dbVars, DictInv
    <3> QED BY <1>2, <3>1, <3>2, <3>3, <3>4 DEF DatabaseCall
  <2> QED BY <2>1, <2>2 DEF DictInv, Partial, Items
<1>3. CASE OpenTemp \/ WriteHeader \/ WritePair
  <2>1. UNCHANGED <<main, gDatabase>> /\ i' \in {0, i, i + 1} /\ pc' # "rename"
    BY <1>3 DEF OpenTemp, WriteHeader, WritePair, Finish, memVars
  <2> QED BY <2>1 DEF DictInv, Partial, Items
<1>4. CASE CloseTemp
  <2>1. UNCHANGED <<main, gDatabase>> /\ i' \in {0, i}
    BY <1>4 DEF CloseTemp, Finish, memVars
  <2>2. pc' = "rename" => \E n \in Flushed : temp' = File(gDatabase, n)
    BY <1>4 DEF CloseTemp, Finish
  <2>3. Flushed \subseteq 0..Items(gDatabase)
    BY DEF Flushed, DictInv, Items
  <2>4. pc' = "rename" => Partial(temp')
    BY <2>2, <2>3 DEF File, Partial, DictInv
  <2> QED BY <2>1, <2>4 DEF DictInv, Partial, Items
<1>5. CASE Rename
  <2>1. UNCHANGED gDatabase /\ i' = 0 /\ pc' = "idle" /\ main' \in {main, temp} /\ Partial(temp)
    BY <1>5 DEF Rename, Finish, memVars, DictInv
  <2> QED BY <2>1 DEF DictInv, Partial, Items
<1>6. CASE Restart
  BY <1>6 DEF Restart, DictInv, Partial, Items
<1>7. CASE UNCHANGED vars
  BY <1>7 DEF vars, DictInv, Partial, Items
<1> QED BY <1>1, <1>2, <1>3, <1>4, <1>5, <1>6, <1>7 DEF Next, SaveDict

------------------------------------------------------------------------------
\* The file at the path of the database is absent, or it is whole and holds the
\* dictionary that was saved: no failed save and no kill exposes a part.
THEOREM MainFileIsExact ==
    ASSUME ~CloseFails
    PROVE  Spec => []MainFileExact
<1>1. SaveInv => MainFileExact
  BY DEF SaveInv, MainFileExact, LoadDict
<1> QED BY <1>1, InitSaveInv, NextSaveInv, InitDictInv, NextDictInv, PTL DEF Spec

LEMMA Distinct ==
    ASSUME NEW c \in Changes
    PROVE  /\ Append(c, TRUE) # Append(c, FALSE)
           /\ \A b \in BOOLEAN : Append(c, b) # <<"restart">>
<1> DEFINE A == {c[1], c[2], TRUE, FALSE}
<1>1. c \in Seq(A) /\ Len(c) = 2
  <2>1. PICK op, k : c = <<op, k>>
    BY DEF Changes
  <2>2. c[1] = op /\ c[2] = k /\ Len(c) = 2
    BY <2>1
  <2> QED BY <2>1, <2>2
<1>2. \A b \in BOOLEAN : Len(Append(c, b)) = 3 /\ Append(c, b)[3] = b
  <2> SUFFICES ASSUME NEW b \in A
               PROVE  Len(Append(c, b)) = 3 /\ Append(c, b)[3] = b
    OBVIOUS
  <2> HIDE DEF A
  <2> QED BY <1>1
<1>3. Len(<<"restart">>) = 1
  OBVIOUS
<1>4. Append(c, TRUE)[3] = TRUE /\ Append(c, FALSE)[3] = FALSE
  BY <1>2
<1>5. \A b \in BOOLEAN : Append(c, b) # <<"restart">>
  BY <1>2, <1>3
<1> QED BY <1>4, <1>5

\* Whatever fails: only a save that reports success changes the file, a save that reports
\* success has put the database there, and one that reports failure met a failure of the
\* system or an empty string.
THEOREM SavesReportTruly == Spec => ReportsAreTrue
<1> DEFINE Truly == /\ main' # main => Reports(TRUE)
                    /\ Reports(TRUE) => main'.dict = gDatabase /\ (CloseFails \/ Complete(main'))
                    /\ Reports(FALSE) => fault' \/ Unwritable(gDatabase)
<1>1. ASSUME SaveInv, [Next]_vars
      PROVE  Truly
  <2>1. CASE RegistryCall \/ DatabaseCall
    BY <2>1, CallsKeepSave DEF StartSave, saveVars, Reports
  <2>2. CASE (OpenTemp \/ WriteHeader \/ WritePair) /\ pc' # "idle"
    BY <2>2 DEF OpenTemp, WriteHeader, WritePair, memVars, Reports
  <2>3. CASE /\ pc # "idle" /\ Finish(FALSE) /\ UNCHANGED <<main, gDatabase>>
             /\ fault' = TRUE \/ (error /\ fault' = fault)
    <3>1. ~Reports(TRUE)
      BY <1>1, <2>3, Distinct DEF SaveInv, Finish, Reports
    <3>2. CASE fault' = TRUE
      BY <2>3, <3>1, <3>2
    <3>3. CASE error /\ fault' = fault
      BY <1>1, <2>3, <3>1, <3>3 DEF SaveInv
    <3> QED BY <2>3, <3>2, <3>3
  <2>4. CASE CloseTemp /\ pc' # "idle"
    BY <2>4 DEF CloseTemp, memVars, Reports
  <2>5. CASE pc = "rename" /\ main' = temp /\ Finish(TRUE)
    <3>1. Reports(TRUE)
      BY <2>5 DEF Finish, Reports
    <3>2. ~Reports(FALSE)
      BY <1>1, <2>5, Distinct DEF SaveInv, Finish, Reports
    <3>3. CloseFails \/ Complete(main')
      BY <1>1, <2>5 DEF SaveInv, Complete, File, Items
    <3> QED BY <1>1, <2>5, <3>1, <3>2, <3>3 DEF SaveInv
  <2>6. CASE Restart
    <3>1. ~Reports(TRUE) /\ ~Reports(FALSE)
      BY <1>1, <2>6, Distinct DEF SaveInv, Restart, Reports
    <3> QED BY <2>6, <3>1 DEF Restart
  <2>7. CASE UNCHANGED vars
    BY <2>7 DEF vars, Reports
  <2>8. CASE SaveDict
    <3> HIDE DEF Truly
    <3>1. CASE OpenTemp
      <4>1. pc # "idle" /\ UNCHANGED <<main, gDatabase>>
        BY <3>1 DEF OpenTemp, memVars
      <4>2. CASE fault' = TRUE /\ Finish(FALSE)
        BY <2>3, <4>1, <4>2
      <4>3. CASE pc' = "header"
        BY <2>2, <3>1, <4>3
      <4> QED BY <3>1, <4>2, <4>3 DEF OpenTemp
    <3>2. CASE WriteHeader \/ WritePair
      BY <2>2, <3>2 DEF WriteHeader, WritePair
    <3>3. CASE CloseTemp
      BY <1>1, <2>3, <2>4, <3>3 DEF CloseTemp, memVars, SaveInv
    <3>4. CASE Rename
      <4>1. pc = "rename" /\ UNCHANGED gDatabase
        BY <3>4 DEF Rename, memVars
      <4>2. CASE fault' = TRUE /\ Finish(FALSE) /\ main' = main
        BY <2>3, <4>1, <4>2
      <4>3. CASE main' = temp /\ Finish(TRUE)
        BY <2>5, <4>1, <4>3
      <4> QED BY <3>4, <4>2, <4>3 DEF Rename
    <3> QED BY <2>8, <3>1, <3>2, <3>3, <3>4 DEF SaveDict
  <2> HIDE DEF Truly
  <2> QED BY <1>1, <2>1, <2>6, <2>7, <2>8 DEF Next
<1> QED BY <1>1, InitSaveInv, NextSaveInv, InitDictInv, NextDictInv, PTL DEF Spec, ReportsAreTrue
------------------------------------------------------------------------------
(***************************************************************************)
(* The refinement.  What GetDB finds is what the store recalls: all of the *)
(* file, or a part of it.                                                  *)
(***************************************************************************)
LEMMA SamePart == ASSUME NEW d PROVE Parts(d) = Store!Parts(d)
  BY DEF Parts, Store!Parts

LEMMA GetDBRecalled ==
    ASSUME ~CloseFails, SaveInv, DictInv
    PROVE  GetDB \subseteq Store!Recalled
<1>1. CASE loaded
  BY <1>1 DEF GetDB, Store!Recalled
<1>2. CASE ~loaded
  <2>1. << >> \in Seq(Pairs)
    OBVIOUS
  <2>2. OnDisk \in Seq(Pairs)
    BY <2>1 DEF OnDisk, DictInv, Partial
  <2>3. OnDisk \in Parts(OnDisk) /\ << >> \in Parts(OnDisk)
    BY <2>2, PartsType
  <2>4. \/ LoadDict(main) = {OnDisk}
        \/ TableFails /\ LoadDict(main) = Parts(OnDisk)
    BY DEF SaveInv, LoadDict, OnDisk, Loaded
  <2> QED BY <1>2, <2>3, <2>4, SamePart DEF GetDB, Store!Recalled
<1> QED BY <1>1, <1>2

LEMMA QueryRefines ==
    ASSUME SaveInv, pc = "idle", UNCHANGED <<gRegistry, dbVars, saveVars>>
    PROVE  Store!Query(ret')
  BY DEF Store!Query, Store!Return, OnDisk, dbVars, saveVars, SaveInv

LEMMA LookRefines ==
    ASSUME SaveInv, pc = "idle", UNCHANGED <<gRegistry, saveVars>>, loaded' = TRUE,
           NEW d, gDatabase' = d
    PROVE  Store!Look(d, ret')
  BY DEF Store!Look, Store!Return, OnDisk, saveVars, SaveInv

LEMMA StartSaveRefines ==
    ASSUME SaveInv, NEW d, gDatabase' = d, NEW op, NEW k, StartSave(op, k)
    PROVE  Store!Change(op, k, d)
  BY DEF Store!Change, StartSave, OnDisk, SaveInv

LEMMA RegistryCallRefines ==
    ASSUME SaveInv, RegistryCall
    PROVE  Store!RegistryCall
<1> USE BlobsOfArguments
<1>1. CASE \E a \in RegKeys, b \in RegValues :
              ToString[a] # NoBlob /\ ToString[b] # NoBlob /\ knRegSet(ToString[a], ToString[b])
  <2>1. PICK k \in Blobs, v \in Blobs : knRegSet(k, v)
    BY <1>1
  <2>2. CASE ret' = <<"knRegSet", k, TRUE>> /\ gRegistry' = Put(gRegistry, k, v)
    <3>1. Store!RegSet(k, v)
      BY <2>1, <2>2 DEF knRegSet, Store!RegSet, Store!Return, Return, dbVars, saveVars, OnDisk,
                        SaveInv, Put, Store!Put, Contains, Store!Contains, IndexIn,
                        Store!IndexIn, Pair, Store!Pair
    <3> QED BY <3>1 DEF Store!RegistryCall
  <2>3. CASE ret' = <<"knRegSet", k, FALSE>> /\ UNCHANGED gRegistry
    <3>1. Store!Query(<<"knRegSet", k, FALSE>>)
      BY <2>1, <2>3, QueryRefines DEF knRegSet, Return
    <3> QED BY <3>1 DEF Store!RegistryCall
  <2> QED BY <2>1, <2>2, <2>3 DEF knRegSet, Return
<1>2. CASE \E a \in RegKeys : ToString[a] # NoBlob /\ knRegDelete(ToString[a])
  <2>1. PICK k \in Blobs : knRegDelete(k)
    BY <1>2
  <2>2. Store!RegDelete(k)
    BY <2>1 DEF knRegDelete, Store!RegDelete, Store!Return, Return, dbVars, saveVars, OnDisk,
                SaveInv, Drop, Store!Drop, Contains, Store!Contains, IndexIn, Store!IndexIn
  <2> QED BY <2>2 DEF Store!RegistryCall
<1>3. CASE \E a \in RegKeys : ToString[a] # NoBlob /\ knRegGet(ToString[a])
  <2>1. PICK k \in Blobs : knRegGet(k)
    BY <1>3
  <2>2. Store!Query(<<"knRegGet", k, Store!Found(gRegistry, k)>>)
    <3>1. ret' = <<"knRegGet", k, Store!Found(gRegistry, k)>>
      BY <2>1 DEF knRegGet, Return, Found, Store!Found, Contains, Store!Contains, Lookup,
                  Store!Lookup, IndexIn, Store!IndexIn
    <3> QED BY <2>1, <3>1, QueryRefines DEF knRegGet, Return
  <2> QED BY <2>2 DEF Store!RegistryCall
<1>4. CASE \E a \in RegKeys : ToString[a] # NoBlob /\ knRegHas(ToString[a])
  <2>1. PICK k \in Blobs : knRegHas(k)
    BY <1>4
  <2>2. Store!Query(<<"knRegHas", k, Store!Contains(gRegistry, k)>>)
    BY <2>1, QueryRefines DEF knRegHas, Return, Contains, Store!Contains
  <2> QED BY <2>2 DEF Store!RegistryCall
<1>5. CASE \E a \in RegKeys \cup RegValues : Rejected(a)
  <2>1. Store!Query(<<"rejected", Nil, Nil>>)
    BY <1>5, QueryRefines DEF Rejected, Return
  <2> QED BY <2>1 DEF Store!RegistryCall
<1>6. CASE knRegCount
  <2>1. Store!Query(<<"knRegCount", Nil, Len(gRegistry)>>)
    BY <1>6, QueryRefines DEF knRegCount, Return
  <2> QED BY <2>1 DEF Store!RegistryCall
<1>7. CASE knRegKeys
  <2>1. Store!Query(<<"knRegKeys", Nil, [n \in 1..Len(gRegistry) |-> gRegistry[n].key]>>)
    BY <1>7, QueryRefines DEF knRegKeys, Return
  <2> QED BY <2>1 DEF Store!RegistryCall
<1> QED BY <1>1, <1>2, <1>3, <1>4, <1>5, <1>6, <1>7 DEF RegistryCall

LEMMA DatabaseCallRefines ==
    ASSUME ~CloseFails, SaveInv, DictInv, DatabaseCall
    PROVE  Store!Next
<1> USE BlobsOfArguments
<1>1. CASE \E a \in DbKeys, b \in DbValues :
              ToString[a] # NoBlob /\ ToString[b] # NoBlob /\ knDbSet(ToString[a], ToString[b])
  <2>1. PICK k \in Blobs, v \in Blobs : knDbSet(k, v)
    BY <1>1
  <2>2. PICK d \in GetDB : gDatabase' = Put(d, k, v)
    BY <2>1 DEF knDbSet
  <2>3. Put(d, k, v) = Store!Put(d, k, v)
    BY DEF Put, Store!Put, Contains, Store!Contains, IndexIn, Store!IndexIn, Pair, Store!Pair
  <2>4. Store!Change("knDbSet", k, Store!Put(d, k, v))
    BY <2>1, <2>2, <2>3, StartSaveRefines DEF knDbSet
  <2> QED BY <2>4, GetDBRecalled DEF Store!Next, Store!DatabaseCall
<1>2. CASE \E a \in DbKeys : ToString[a] # NoBlob /\ knDbDelete(ToString[a])
  <2>1. PICK k \in Blobs : knDbDelete(k)
    BY <1>2
  <2>2. PICK d \in GetDB : gDatabase' = Drop(d, k)
    BY <2>1 DEF knDbDelete
  <2>3. Drop(d, k) = Store!Drop(d, k)
    BY DEF Drop, Store!Drop, Contains, Store!Contains, IndexIn, Store!IndexIn
  <2>4. Store!Change("knDbDelete", k, Store!Drop(d, k))
    BY <2>1, <2>2, <2>3, StartSaveRefines DEF knDbDelete
  <2> QED BY <2>4, GetDBRecalled DEF Store!Next, Store!DatabaseCall
<1>3. CASE \E a \in DbKeys : ToString[a] # NoBlob /\ knDbGet(ToString[a])
  <2>1. PICK k \in Blobs : knDbGet(k)
    BY <1>3
  <2>2. PICK d \in GetDB : gDatabase' = d /\ ret' = <<"knDbGet", k, Found(d, k)>>
    BY <2>1 DEF knDbGet
  <2>3. Found(d, k) = Store!Found(d, k)
    BY DEF Found, Store!Found, Contains, Store!Contains, Lookup, Store!Lookup, IndexIn,
           Store!IndexIn
  <2>4. Store!Look(d, <<"knDbGet", k, Store!Found(d, k)>>)
    BY <2>1, <2>2, <2>3, LookRefines DEF knDbGet
  <2> QED BY <2>4, GetDBRecalled DEF Store!Next, Store!DatabaseCall
<1>4. CASE \E a \in DbKeys : ToString[a] # NoBlob /\ knDbHas(ToString[a])
  <2>1. PICK k \in Blobs : knDbHas(k)
    BY <1>4
  <2>2. PICK d \in GetDB : gDatabase' = d /\ ret' = <<"knDbHas", k, Contains(d, k)>>
    BY <2>1 DEF knDbHas
  <2>3. Store!Look(d, <<"knDbHas", k, Store!Contains(d, k)>>)
    BY <2>1, <2>2, LookRefines DEF knDbHas, Contains, Store!Contains
  <2> QED BY <2>3, GetDBRecalled DEF Store!Next, Store!DatabaseCall
<1>5. CASE \E a \in DbKeys : ToString[a] # NoBlob /\ knDbSetFails(ToString[a])
  <2>1. PICK k \in Blobs : knDbSetFails(k)
    BY <1>5
  <2>2. PICK d \in GetDB : gDatabase' = d
    BY <2>1 DEF knDbSetFails
  <2>3. Store!Look(d, <<"knDbSet", k, FALSE>>)
    BY <2>1, <2>2, LookRefines DEF knDbSetFails, Return
  <2> QED BY <2>3, GetDBRecalled DEF Store!Next, Store!DatabaseCall
<1>6. CASE \E a \in DbKeys \cup DbValues : Rejected(a)
  <2>1. Store!Query(<<"rejected", Nil, Nil>>)
    BY <1>6, QueryRefines DEF Rejected, Return
  <2> QED BY <2>1 DEF Store!Next, Store!RegistryCall
<1> QED BY <1>1, <1>2, <1>3, <1>4, <1>5, <1>6 DEF DatabaseCall

LEMMA SaveDictRefines ==
    ASSUME ~CloseFails, SaveInv, SaveDict
    PROVE  Store!Next \/ UNCHANGED Store!vars
<1>1. loaded /\ UNCHANGED memVars /\ call # Idle
  BY DEF SaveDict, OpenTemp, WriteHeader, WritePair, CloseTemp, Rename, SaveInv
<1>2. CASE UNCHANGED <<main, call, ret>>
  BY <1>1, <1>2 DEF Store!vars, memVars, OnDisk
<1>3. CASE Finish(FALSE) /\ UNCHANGED main
  <2>1. Store!NotSaved
    BY <1>1, <1>3 DEF Finish, Store!NotSaved, memVars, OnDisk
  <2> QED BY <2>1 DEF Store!Next
<1>4. CASE Finish(TRUE) /\ main' = temp /\ pc = "rename"
  <2>1. OnDisk' = gDatabase
    BY <1>4 DEF SaveInv, OnDisk, File, NoFile
  <2>2. Store!Saved
    BY <1>1, <1>4, <2>1 DEF Finish, Store!Saved, memVars
  <2> QED BY <2>2 DEF Store!Next
<1> QED BY <1>2, <1>3, <1>4 DEF SaveDict, OpenTemp, WriteHeader, WritePair, CloseTemp, Rename

LEMMA InitRefines == Init => Store!Init
  BY DEF Init, Store!Init, OnDisk, NoFile

LEMMA RestartRefines == Restart => Store!Restart
  BY DEF Restart, Store!Restart, OnDisk

\* The registry and the database are the two maps of DurableStore: a change that
\* reports success has reached the disk whole, one that reports failure has not,
\* and a process that is killed at any step comes back with the last saved map, or
\* with a part of it if its table cannot grow or the file cannot be opened.
THEOREM RegImplementsDurableStore ==
    ASSUME ~CloseFails
    PROVE  Spec => ImplementsDurableStore
<1>1. ASSUME SaveInv, DictInv, [Next]_vars
      PROVE  [Store!Next]_(Store!vars)
  <2>1. CASE RegistryCall
    BY <1>1, <2>1, RegistryCallRefines DEF Store!Next
  <2>2. CASE DatabaseCall
    BY <1>1, <2>2, DatabaseCallRefines
  <2>3. CASE SaveDict
    BY <1>1, <2>3, SaveDictRefines
  <2>4. CASE Restart
    BY <2>4, RestartRefines DEF Store!Next
  <2>5. CASE UNCHANGED vars
    BY <2>5 DEF vars, Store!vars, OnDisk
  <2> QED BY <1>1, <2>1, <2>2, <2>3, <2>4, <2>5 DEF Next
<1> QED BY <1>1, InitSaveInv, NextSaveInv, InitDictInv, NextDictInv, InitRefines, PTL
        DEF Spec, ImplementsDurableStore, Store!Spec
==============================================================================
