--------------------------- MODULE EntryFlowProofs ---------------------------
(* That no dictionary, order of operations or choice of rows makes the     *)
(* merging code lose what a dictionary says, the two copies of the         *)
(* cleaning code disagree, a row unreachable by its word or by the forms   *)
(* the rules make of it, or the reports contradict each other. One         *)
(* inductive invariant, IInv, carries what MergeProofs says of the         *)
(* operators through the life of the entries.                              *)
EXTENDS MergeProofs

----------------------------------------------------------------------------
(* The invariant. *)

(* Entries that were parsed of some original, with known words. *)
IsKnown(entries) ==
    IsParsed(entries) /\ \A e \in Range(entries) : e.word \in AllWords

(* The files: an original of the library, entries parsed of it, and the    *)
(* entries that were merged.                                               *)
FilesOK ==
    /\ raw \in Library
    /\ DOMAIN parsed = DOMAIN raw
    /\ \A d \in DOMAIN raw : parsed[d] = None \/ IsKnown(parsed[d])
    /\ DOMAIN merged \subseteq DOMAIN raw
    /\ \A d \in DOMAIN merged : IsKnown(merged[d])

(* unified.json is a finite set of rows, of dictionaries that were         *)
(* merged.                                                                 *)
UnifiedOK ==
    /\ AreRows(unified)
    /\ IsFiniteSet(unified)
    /\ IsFrom(unified, DOMAIN merged, AllWords)

(* Before improve there is one row for each key, and nothing was lost: a   *)
(* dictionary that is merged now finds the row that says what others       *)
(* said, and only one.                                                     *)
MergedOK == improved = "never" => OneEach(unified) /\ NothingLost

(* After improve every entry is clean. *)
CleanedOK == improved = "last" => \A u \in unified : IsClean(u.entry)

(* The table: every row is found by its norm. *)
TableOK ==
    /\ IsFiniteSet(DOMAIN table)
    /\ \A id \in DOMAIN table :
           /\ IsRow(table[id])
           /\ table[id].entry.word \in AllWords
           /\ table[id].norm = NormalizeWord(table[id].entry.word)

(* The table that load makes of the rows it keeps. *)
LoadedFrom(kept) ==
    [id \in {RowId(u.entry) : u \in kept} |-> Row(CHOOSE u \in kept : RowId(u.entry) = id)]

(* A fresh table was made of unified.json as it is. *)
LoadedOK == fresh => \E kept \in Loadable(unified) : table = LoadedFrom(kept)

(* The inductive invariant. *)
IInv == FilesOK /\ UnifiedOK /\ MergedOK /\ CleanedOK /\ TableOK /\ LoadedOK

(* It holds at the start. *)
LEMMA InitIInv ==
    ASSUME Init
    PROVE  IInv
<1>1. FilesOK
    BY DEF Init, FilesOK
<1>2. UnifiedOK
    BY FS_EmptySet DEF Init, UnifiedOK, AreRows, IsFrom
<1>3. MergedOK
    BY DEF Init, MergedOK, OneEach, NothingLost
<1>4. CleanedOK /\ LoadedOK
    BY DEF Init, CleanedOK, LoadedOK
<1>5. TableOK
    BY FS_EmptySet DEF Init, TableOK
<1> QED BY <1>1, <1>2, <1>3, <1>4, <1>5 DEF IInv

(* What is parsed of the library is known. *)
LEMMA LibraryIsKnown ==
    ASSUME NoneIsApart, NEW r \in Library, NEW d \in DOMAIN r
    PROVE  IsKnown(ParseDictionary(d, r[d]))
<1>1. IsParsed(ParseDictionary(d, r[d]))
    BY LibraryIsClosed, LibraryIsWritten, ParsersMakeEntries
<1>2. \A e \in Range(ParseDictionary(d, r[d])) : e.word \in LibraryWords
    BY DEF LibraryWords
<1> QED BY <1>1, <1>2 DEF IsKnown, AllWords

(* cleanOriginal keeps it: the library is closed. *)
LEMMA CleanOriginalIInv ==
    ASSUME IInv, NEW d \in Dict, CleanOriginal(d)
    PROVE  IInv'
<1>1. raw' \in Library /\ DOMAIN raw' = DOMAIN raw
    BY LibraryIsClosed DEF IInv, FilesOK, CleanOriginal, Dict
<1>2. UNCHANGED <<parsed, unified, table, merged, improved, fresh>>
    BY DEF CleanOriginal
<1>3. FilesOK'
    BY <1>1, <1>2 DEF IInv, FilesOK
<1>4. UnifiedOK' /\ MergedOK' /\ CleanedOK' /\ TableOK' /\ LoadedOK'
    BY <1>2 DEF IInv, UnifiedOK, MergedOK, NothingLost, CleanedOK, TableOK, LoadedOK
<1> QED BY <1>3, <1>4 DEF IInv

(* parse keeps it. *)
LEMMA ParseIInv ==
    ASSUME NoneIsApart, IInv, NEW d \in Dict, Parse(d)
    PROVE  IInv'
<1>1. UNCHANGED <<raw, unified, table, merged, improved, fresh>>
      /\ parsed' = [parsed EXCEPT ![d] = ParseDictionary(d, raw[d])]
    BY DEF Parse
<1>2. IsKnown(ParseDictionary(d, raw[d]))
    BY LibraryIsKnown DEF IInv, FilesOK, Dict
<1>3. FilesOK'
    BY <1>1, <1>2 DEF IInv, FilesOK, Dict
<1>4. UnifiedOK' /\ MergedOK' /\ CleanedOK' /\ TableOK' /\ LoadedOK'
    BY <1>1 DEF IInv, UnifiedOK, MergedOK, NothingLost, CleanedOK, TableOK, LoadedOK
<1> QED BY <1>3, <1>4 DEF IInv

(* If there is one row for each key, reading unified.json keeps all. *)
LEMMA KeptRows ==
    ASSUME NEW rows, NEW kept \in OnePerKey(rows)
    PROVE  /\ kept \subseteq rows /\ OneEach(kept)
           /\ OneEach(rows) => kept = rows
<1>1. /\ kept \subseteq rows
      /\ {EntryKey(u.entry) : u \in kept} = {EntryKey(u.entry) : u \in rows}
      /\ \A u, v \in kept : u # v => EntryKey(u.entry) # EntryKey(v.entry)
    BY DEF OnePerKey
<1>2. ASSUME OneEach(rows), NEW u \in rows PROVE u \in kept
  <2>1. EntryKey(u.entry) \in {EntryKey(v.entry) : v \in kept}
      BY <1>1
  <2>2. PICK v \in kept : EntryKey(v.entry) = EntryKey(u.entry)
      BY <2>1
  <2> QED BY <1>1, <1>2, <2>2 DEF OneEach
<1> QED BY <1>1, <1>2 DEF OneEach

(* Merging a dictionary keeps it. *)
LEMMA UnifyStepIInv ==
    ASSUME NoneIsApart, IInv, NEW d \in Dict, UnifyStep(d)
    PROVE  IInv'
<1>1. PICK kept \in OnePerKey(unified) :
          unified' = MergeDictionary(d, d \in NeologismSlugs, kept, parsed[d])
    BY DEF UnifyStep
<1>2. /\ parsed[d] # None
      /\ merged' = [x \in DOMAIN merged \cup {d} |-> IF x = d THEN parsed[d] ELSE merged[x]]
      /\ improved' = IF improved = "never" THEN "never" ELSE "before"
      /\ fresh' = FALSE
      /\ UNCHANGED <<raw, parsed, table>>
    BY DEF UnifyStep
<1>3. IsKnown(parsed[d])
    BY <1>2 DEF IInv, FilesOK, Dict
<1>4. kept \subseteq unified /\ OneEach(kept) /\ (OneEach(unified) => kept = unified)
    BY KeptRows
<1>5. /\ DOMAIN merged' = DOMAIN merged \cup {d}
      /\ merged'[d] = parsed[d]
      /\ \A x \in DOMAIN merged : x # d => merged'[x] = merged[x]
    BY <1>2
<1>6. Extended(unified', kept, d, Range(parsed[d]), DOMAIN merged', AllWords)
  <2>1. AreRows(kept) /\ IsFiniteSet(kept) /\ IsFrom(kept, DOMAIN merged', AllWords)
    <3>1. IsFiniteSet(kept)
        BY <1>4, FS_Subset DEF IInv, UnifiedOK
    <3> QED BY <1>4, <1>5, <3>1 DEF IInv, UnifiedOK, AreRows, IsFrom
  <2>2. IsParsed(parsed[d]) /\ \A e \in Range(parsed[d]) : e.word \in AllWords
      BY <1>3 DEF IsKnown
  <2> QED BY <1>1, <1>4, <1>5, <2>1, <2>2, MergeDictionaryExtends
<1>7. FilesOK'
    BY <1>2, <1>3, <1>5 DEF IInv, FilesOK, Dict
<1>8. UnifiedOK'
    BY <1>6 DEF UnifiedOK, Extended
<1>9. MergedOK'
  <2> SUFFICES ASSUME improved' = "never" PROVE OneEach(unified') /\ NothingLost'
      BY DEF MergedOK
  <2>1. improved = "never"
      BY <1>2
  <2>2. OneEach(unified) /\ NothingLost /\ kept = unified
      BY <1>4, <2>1 DEF IInv, MergedOK
  <2>3. \A x \in DOMAIN merged : \A e \in Range(merged[x]) : Covers(unified, x, e)
      BY <2>1, <2>2 DEF NothingLost, Covers
  <2>4. \A x \in DOMAIN merged' : \A e \in Range(merged'[x]) : Covers(unified', x, e)
    <3> TAKE x \in DOMAIN merged'
    <3> TAKE e \in Range(merged'[x])
    <3>1. CASE x = d
        BY <1>5, <1>6, <3>1 DEF Extended
    <3>2. CASE x # d
      <4>1. Covers(unified, x, e)
          BY <1>5, <2>3, <3>2
      <4>2. Keeps(unified', unified)
          BY <1>6, <2>2 DEF Extended
      <4> QED BY <4>1, <4>2, CoversStill
    <3> QED BY <3>1, <3>2
  <2>5. NothingLost'
      BY <2>4 DEF NothingLost, Covers
  <2> QED BY <1>6, <2>5 DEF Extended
<1>10. CleanedOK' /\ LoadedOK'
    BY <1>2 DEF CleanedOK, LoadedOK
<1>11. TableOK'
    BY <1>2 DEF IInv, TableOK
<1> QED BY <1>7, <1>8, <1>9, <1>10, <1>11 DEF IInv

(* improve keeps it. *)
LEMMA ImproveIInv ==
    ASSUME NoneIsApart, IInv, Improve
    PROVE  IInv'
<1>1. /\ unified' = {Unified(CleanEntry(u.entry), u.sources) : u \in unified}
      /\ improved' = "last" /\ fresh' = FALSE
      /\ UNCHANGED <<raw, parsed, table, merged>>
    BY DEF Improve
<1>2. ASSUME NEW v \in unified'
      PROVE  /\ IsUnified(v) /\ IsClean(v.entry)
             /\ v.sources \subseteq DOMAIN merged /\ v.entry.word \in AllWords
  <2>1. PICK u \in unified : v = Unified(CleanEntry(u.entry), u.sources)
      BY <1>1
  <2>2. /\ v = Unified(v.entry, v.sources) /\ v.entry = CleanEntry(u.entry)
        /\ v.sources = u.sources
      BY <2>1 DEF Unified
  <2>3. /\ IsEntry(u.entry) /\ HasLists(u.entry)
        /\ u.sources \subseteq DOMAIN merged /\ u.entry.word \in AllWords
      BY DEF IInv, UnifiedOK, AreRows, IsUnified, IsFrom
  <2>4. /\ IsEntry(v.entry) /\ HasLists(v.entry) /\ IsClean(v.entry)
        /\ v.entry.word \in AllWords
      BY <2>2, <2>3, CleanEntryIsClean
  <2> QED BY <2>2, <2>3, <2>4 DEF IsUnified
<1>3. IsFiniteSet(unified')
  <2>1. IsFiniteSet(unified)
      BY DEF IInv, UnifiedOK
  <2> DEFINE f == [u \in unified |-> Unified(CleanEntry(u.entry), u.sources)]
  <2>2. unified' = {f[u] : u \in unified}
      BY <1>1
  <2>3. f \in [unified -> unified']
      BY <2>2
  <2>4. \A v \in unified' : \E u \in unified : f[u] = v
      BY <2>2
  <2> HIDE DEF f
  <2>5. f \in Surjection(unified, unified')
      BY <2>3, <2>4 DEF Surjection
  <2> QED BY <2>1, <2>5, FS_Surjection
<1>4. UnifiedOK'
    BY <1>1, <1>2, <1>3 DEF UnifiedOK, AreRows, IsFrom
<1>5. CleanedOK'
    BY <1>2 DEF CleanedOK
<1>6. MergedOK' /\ LoadedOK' /\ FilesOK' /\ TableOK'
    BY <1>1 DEF IInv, MergedOK, LoadedOK, FilesOK, TableOK
<1> QED BY <1>4, <1>5, <1>6 DEF IInv

(* load keeps it. *)
LEMMA LoadIInv ==
    ASSUME NoneIsApart, IInv, Load
    PROVE  IInv'
<1>1. PICK kept \in Loadable(unified) : table' = LoadedFrom(kept)
    BY DEF Load, LoadedFrom
<1>2. UNCHANGED <<raw, parsed, unified, merged, improved>>
    BY DEF Load
<1>3. kept \subseteq unified
    BY DEF Loadable
<1>4. DOMAIN table' = {RowId(u.entry) : u \in kept}
    BY <1>1 DEF LoadedFrom
<1>5. ASSUME NEW id \in DOMAIN table'
      PROVE  /\ IsRow(table'[id])
             /\ table'[id].entry.word \in AllWords
             /\ table'[id].norm = NormalizeWord(table'[id].entry.word)
  <2> DEFINE u == CHOOSE u \in kept : RowId(u.entry) = id
  <2>1. u \in kept
      BY <1>4
  <2>2. table'[id] = Row(u)
      BY <1>1, <1>4 DEF LoadedFrom
  <2> HIDE DEF u
  <2>3. IsUnified(u) /\ u.entry.word \in AllWords
      BY <1>3, <2>1 DEF IInv, UnifiedOK, AreRows, IsFrom
  <2> QED BY <2>2, <2>3, RowIsRow
<1>6. IsFiniteSet(DOMAIN table')
  <2>1. IsFiniteSet(kept)
      BY <1>3, FS_Subset DEF IInv, UnifiedOK
  <2> DEFINE f == [u \in kept |-> RowId(u.entry)]
  <2>2. f \in [kept -> DOMAIN table'] /\ \A id \in DOMAIN table' : \E u \in kept : f[u] = id
      BY <1>4
  <2> HIDE DEF f
  <2>3. f \in Surjection(kept, DOMAIN table')
      BY <2>2 DEF Surjection
  <2> QED BY <2>1, <2>3, FS_Surjection
<1>7. TableOK'
    BY <1>5, <1>6 DEF TableOK
<1>8. LoadedOK'
    BY <1>1, <1>2 DEF LoadedOK
<1>9. FilesOK' /\ UnifiedOK' /\ MergedOK' /\ CleanedOK'
    BY <1>2 DEF IInv, FilesOK, UnifiedOK, MergedOK, NothingLost, CleanedOK
<1> QED BY <1>7, <1>8, <1>9 DEF IInv

(* improve-entries keeps it. *)
LEMMA ImproveEntriesIInv ==
    ASSUME IInv, NEW ids, ImproveEntries(ids)
    PROVE  IInv'
<1>1. /\ table' = [id \in DOMAIN table |-> IF id \in ids THEN ImproveRow(table[id])
                                           ELSE table[id]]
      /\ fresh' = FALSE
      /\ UNCHANGED <<raw, parsed, unified, merged, improved>>
    BY DEF ImproveEntries
<1>2. TableOK'
  <2>1. DOMAIN table' = DOMAIN table
      BY <1>1
  <2>2. ASSUME NEW id \in DOMAIN table
        PROVE  /\ IsRow(table'[id])
               /\ table'[id].entry.word \in AllWords
               /\ table'[id].norm = NormalizeWord(table'[id].entry.word)
    <3>1. /\ IsRow(table[id])
          /\ table[id].entry.word \in AllWords
          /\ table[id].norm = NormalizeWord(table[id].entry.word)
        BY DEF IInv, TableOK
    <3>2. CASE id \in ids
      <4>1. table'[id] = ImproveRow(table[id])
          BY <1>1, <3>2
      <4> QED BY <3>1, <4>1, ImprovedRowIsRow
    <3>3. CASE id \notin ids
      <4>1. table'[id] = table[id]
          BY <1>1, <3>3
      <4> QED BY <3>1, <4>1
    <3> QED BY <3>2, <3>3
  <2> QED BY <2>1, <2>2 DEF IInv, TableOK
<1>3. FilesOK' /\ UnifiedOK' /\ MergedOK' /\ CleanedOK' /\ LoadedOK'
    BY <1>1 DEF IInv, FilesOK, UnifiedOK, MergedOK, NothingLost, CleanedOK, LoadedOK
<1> QED BY <1>2, <1>3 DEF IInv

(* IInv is an invariant: the files, unified.json and the table are what    *)
(* the merging, cleaning and loading code takes them to be, whatever the   *)
(* library and the order of operations.                                    *)
THEOREM IInvariant ==
    ASSUME NoneIsApart
    PROVE  Spec => []IInv
<1>1. Init => IInv
    BY InitIInv
<1>2. IInv /\ [Next]_vars => IInv'
  <2> SUFFICES ASSUME IInv, [Next]_vars PROVE IInv'
      OBVIOUS
  <2>1. CASE UNCHANGED vars
      BY <2>1 DEF vars, IInv, FilesOK, UnifiedOK, MergedOK, NothingLost, CleanedOK, TableOK,
                  LoadedOK
  <2>2. ASSUME NEW d \in Dict, CleanOriginal(d) PROVE IInv'
      BY <2>2, CleanOriginalIInv
  <2>3. ASSUME NEW d \in Dict, Parse(d) PROVE IInv'
      BY <2>3, ParseIInv
  <2>4. ASSUME NEW d \in Dict, UnifyStep(d) PROVE IInv'
      BY <2>4, UnifyStepIInv
  <2>5. CASE Improve
      BY <2>5, ImproveIInv
  <2>6. CASE Load
      BY <2>6, LoadIInv
  <2>7. ASSUME NEW ids, ImproveEntries(ids) PROVE IInv'
      BY <2>7, ImproveEntriesIInv
  <2> QED BY <2>1, <2>2, <2>3, <2>4, <2>5, <2>6, <2>7 DEF Next
<1> QED BY <1>1, <1>2, PTL DEF Spec

----------------------------------------------------------------------------
(* What follows from it. *)

(* unified.json and the table hold well-formed entries, of dictionaries    *)
(* that were merged: every field is there or absent, only rows have the    *)
(* null of JSON, and once improve has run no list of examples, phrases or  *)
(* citations in unified.json is there and empty, whatever was merged.      *)
THEOREM TypeCorrect ==
    ASSUME NoneIsApart
    PROVE  Spec => []TypeOK
<1>1. IInv => TypeOK
  <2> SUFFICES ASSUME IInv PROVE TypeOK
      OBVIOUS
  <2>1. Sources \subseteq DOMAIN merged /\ DOMAIN merged \subseteq Dict
      BY DEF IInv, UnifiedOK, IsFrom, Sources, FilesOK, Dict
  <2>2. \A u \in unified : IsUnified(u) /\ (improved = "last" => NoEmptyList(u.entry))
      BY DEF IInv, UnifiedOK, AreRows, CleanedOK, IsClean
  <2>3. \A r \in Rows : IsRow(r)
      BY DEF IInv, TableOK, Rows
  <2> QED BY <2>1, <2>2, <2>3 DEF TypeOK
<1> QED BY <1>1, IInvariant, PTL

(* Whatever the dictionaries say and in whatever order they are merged,    *)
(* unifyStep loses nothing of it before improve runs: every translation,   *)
(* example, phrase, citation, field and form of a merged entry is in the   *)
(* row of its key.                                                         *)
THEOREM MergingLosesNothing ==
    ASSUME NoneIsApart
    PROVE  Spec => []NothingLost
<1>1. IInv => NothingLost
    BY DEF IInv, MergedOK, NothingLost
<1> QED BY <1>1, IInvariant, PTL

(* Whatever improve has cleaned, improve-entries has nothing left to       *)
(* change in the row that is loaded from it, unless two translations       *)
(* became equal when they were cut.                                        *)
THEOREM CleaningIsSettled ==
    ASSUME NoneIsApart
    PROVE  Spec => []CleaningSettles
<1>1. IInv => CleaningSettles
  <2> SUFFICES ASSUME IInv, improved = "last", NEW u \in unified,
                      NoneRepeated(u.entry.meanings)
               PROVE  ImproveRow(Row(u)) = Row(u)
      BY DEF CleaningSettles
  <2>1. IsUnified(u) /\ IsClean(u.entry)
      BY DEF IInv, UnifiedOK, AreRows, CleanedOK
  <2> QED BY <2>1, CleanSettles
<1> QED BY <1>1, IInvariant, PTL

(* A word that has a translation and a class in a merged dictionary can    *)
(* be looked up once the table is loaded, and its translations are there   *)
(* if no other row of unified.json competes for its id.                    *)
THEOREM LoadedWordsAreFound ==
    ASSUME NoneIsApart
    PROVE  Spec => []WordsReachTheTable
<1>1. IInv => WordsReachTheTable
  <2> SUFFICES ASSUME IInv, fresh, improved = "never",
                      NEW d \in DOMAIN merged, NEW e \in Range(merged[d]),
                      Translations(e) # {}, NormalizeWord(e.word) # "",
                      e.info["nounClass"] # None
               PROVE  \E id \in Lookup(table, e.word) :
                          /\ id[2] = e.homonym
                          /\ Cardinality({u \in unified : RowId(u.entry) = id}) = 1 =>
                                 Translations(e) \subseteq Translations(table[id].entry)
      BY DEF WordsReachTheTable
  <2>1. PICK kept \in Loadable(unified) : table = LoadedFrom(kept)
      BY DEF IInv, LoadedOK
  <2>2. PICK u \in unified : EntryKey(u.entry) = EntryKey(e) /\ Includes(u.entry, e)
    <3>1. EntryKey(e) # NoKey
        BY DEF EntryKey, NoKey
    <3> QED BY <3>1 DEF IInv, MergedOK, NothingLost
  <2>3. /\ NormalizeWord(u.entry.word) = NormalizeWord(e.word)
        /\ u.entry.homonym = e.homonym
        /\ u.entry.info["nounClass"] = e.info["nounClass"]
        /\ Translations(e) \subseteq Translations(u.entry)
      BY <2>2 DEF EntryKey, Includes
  <2>4. Acceptable(u.entry)
    <3>1. u.entry.word # ""
        BY <2>3, WordsAreWritten
    <3>2. u.entry.meanings # <<>>
      <4>1. ASSUME u.entry.meanings = <<>> PROVE Translations(u.entry) = {}
          BY <4>1, EmptyIsList DEF Translations
      <4> QED BY <2>3, <4>1
    <3> QED BY <2>3, <3>1, <3>2 DEF Acceptable
  <2> DEFINE id == RowId(u.entry)
             w == CHOOSE v \in kept : RowId(v.entry) = id
  <2>5. /\ kept \subseteq unified
        /\ id \in {RowId(v.entry) : v \in kept}
      BY <2>4 DEF Loadable
  <2>6. w \in kept /\ RowId(w.entry) = id
      BY <2>5
  <2>7. id \in DOMAIN table /\ table[id] = Row(w)
      BY <2>1, <2>5 DEF LoadedFrom
  <2> HIDE DEF w
  <2>8. IsUnified(w)
      BY <2>5, <2>6 DEF IInv, UnifiedOK, AreRows
  <2>9. table[id].norm = NormalizeWord(e.word)
    <3>1. w.entry.word = u.entry.word
        BY <2>6 DEF RowId
    <3> QED BY <2>3, <2>7, <2>8, <3>1, RowIsRow
  <2>10. id \in Lookup(table, e.word)
      BY <2>7, <2>9 DEF Lookup, Where
  <2>11. ASSUME Cardinality({v \in unified : RowId(v.entry) = id}) = 1
         PROVE  Translations(e) \subseteq Translations(table[id].entry)
    <3> DEFINE same == {v \in unified : RowId(v.entry) = id}
    <3>1. IsFiniteSet(same)
        BY FS_Subset DEF IInv, UnifiedOK
    <3>2. \E x : same = {x}
      <4> HIDE DEF same
      <4> QED BY <2>11, <3>1, FS_Singleton DEF same
    <3>3. u \in same /\ w \in same
        BY <2>5, <2>6
    <3>4. w = u
      <4> HIDE DEF same
      <4> QED BY <3>2, <3>3
    <3>5. table[id].entry.meanings = u.entry.meanings
        BY <2>7, <2>8, <3>4, RowIsRow
    <3>6. Translations(table[id].entry) = Translations(u.entry)
        BY <3>5 DEF Translations
    <3> QED BY <2>3, <3>6
  <2>12. id[2] = e.homonym
      BY <2>3 DEF RowId
  <2> QED BY <2>10, <2>11, <2>12
<1> QED BY <1>1, IInvariant, PTL

(* Every row is found by its word in both writings of the palochka, by     *)
(* lookup and, unless it takes the word for Russian, by search; so also    *)
(* after improve-entries changed the word.                                 *)
THEOREM RowsFound ==
    ASSUME NoneIsApart
    PROVE  Spec => []RowsAreFound
<1>1. IInv => RowsAreFound
  <2> SUFFICES ASSUME IInv, NEW id \in DOMAIN table,
                      NEW q \in {table[id].entry.word, InCapitals(table[id].entry.word)}
               PROVE  /\ id \in Lookup(table, q)
                      /\ DetectLanguage(q) # "ru" => id \in Search(table, q).data
      BY DEF RowsAreFound
  <2> DEFINE w == table[id].entry.word
  <2>1. w \in AllWords /\ table[id].norm = NormalizeWord(w)
      BY DEF IInv, TableOK
  <2>2. NormalizeWord(q) = NormalizeWord(w) /\ HasPart(NormalizeWord(w), NormalizeWord(w))
      BY <2>1, WordsAreWritten
  <2>3. id \in Lookup(table, q)
      BY <2>1, <2>2 DEF Lookup, Where
  <2>4. ASSUME DetectLanguage(q) # "ru" PROVE id \in Search(table, q).data
    <3>1. ByWord(table[id], q)
        BY <2>1, <2>2 DEF ByWord
    <3> QED BY <2>4, <3>1 DEF Search, Where
  <2> QED BY <2>3, <2>4
<1> QED BY <1>1, IInvariant, PTL

----------------------------------------------------------------------------
(* Counting. *)

(* The sum of f over S. *)
SumOf(f, S) == MapThenSumSet(LAMBDA x : f[x], S)

(* The function on sets by which MapThenSumSet is defined. *)
IsSum(g, f, S) ==
    g = [s \in SUBSET S |->
            IF s = {} THEN 0
            ELSE f[CHOOSE x \in s : TRUE] + g[s \ {CHOOSE x \in s : TRUE}]]

(* SumOf is the value of the one that CHOOSE takes. *)
LEMMA SumIsIter == \A f, S : SumOf(f, S) = (CHOOSE g : IsSum(g, f, S))[S]
BY DEF SumOf, MapThenSumSet, MapThenFoldSet, IsSum

(* All that the parts P of s have. *)
All(P, s) == UNION {P[x] : x \in s}

(* The parts P, one for each of S, are of D and share nothing. *)
ArePartsOf(P, S, D) ==
    /\ \A x \in S : P[x] \subseteq D
    /\ \A x, y \in S : x # y => P[x] \cap P[y] = {}

(* Two sets that share nothing have as many elements as both. *)
LEMMA CardinalityOfTwo ==
    ASSUME NEW A, NEW B, IsFiniteSet(A), IsFiniteSet(B), A \cap B = {}
    PROVE  /\ Cardinality(A \cup B) = Cardinality(A) + Cardinality(B)
           /\ Cardinality(A) \in Nat /\ Cardinality(B) \in Nat
<1>1. /\ Cardinality(A \cup B) = Cardinality(A) + Cardinality(B) - Cardinality(A \cap B)
      /\ Cardinality(A) \in Nat /\ Cardinality(B) \in Nat
    BY FS_Union, FS_CardinalityType
<1>2. Cardinality(A \cap B) = 0
    BY FS_EmptySet
<1> QED BY <1>1, <1>2

(* One part more adds its elements. *)
LEMMA OnePartMore ==
    ASSUME NEW S, NEW P, NEW D, IsFiniteSet(D), ArePartsOf(P, S, D),
           NEW s \in SUBSET S, NEW x \in s
    PROVE  /\ Cardinality(All(P, s)) = Cardinality(P[x]) + Cardinality(All(P, s \ {x}))
           /\ Cardinality(P[x]) \in Nat /\ Cardinality(All(P, s \ {x})) \in Nat
<1>1. P[x] \subseteq D /\ All(P, s \ {x}) \subseteq D
    BY DEF ArePartsOf, All
<1>2. IsFiniteSet(P[x]) /\ IsFiniteSet(All(P, s \ {x}))
    BY <1>1, FS_Subset
<1>3. All(P, s) = P[x] \cup All(P, s \ {x})
    BY DEF All
<1>4. P[x] \cap All(P, s \ {x}) = {}
  <2>1. ASSUME NEW y \in s \ {x} PROVE P[x] \cap P[y] = {}
      BY DEF ArePartsOf
  <2> QED BY <2>1 DEF All
<1> QED BY <1>2, <1>3, <1>4, CardinalityOfTwo

(* The sum of the sizes of parts is the size of their union, by            *)
(* induction over the number of parts.                                     *)
LEMMA SumOfParts ==
    ASSUME NEW S, IsFiniteSet(S), NEW f, NEW P, NEW D, IsFiniteSet(D),
           ArePartsOf(P, S, D), \A x \in S : f[x] = Cardinality(P[x])
    PROVE  SumOf(f, S) = Cardinality(All(P, S))
<1> DEFINE Pick(s) == CHOOSE x \in s : TRUE
<1>1. ASSUME NEW s \in SUBSET S, s # {}
      PROVE  /\ Pick(s) \in s
             /\ Cardinality(All(P, s)) = f[Pick(s)] + Cardinality(All(P, s \ {Pick(s)}))
  <2> DEFINE x == Pick(s)
  <2>1. x \in s
      BY <1>1
  <2> HIDE DEF x
  <2>2. f[x] = Cardinality(P[x])
      BY <2>1
  <2>3. Cardinality(All(P, s)) = f[x] + Cardinality(All(P, s \ {x}))
      BY <2>1, <2>2, OnePartMore
  <2> QED BY <2>1, <2>3 DEF x
<1>2. Cardinality(All(P, {})) = 0
  <2>1. All(P, {}) = {}
      BY DEF All
  <2> QED BY <2>1, FS_EmptySet
<1> DEFINE g == CHOOSE g : IsSum(g, f, S)
<1>3. IsSum(g, f, S)
  <2> DEFINE h == [s \in SUBSET S |-> Cardinality(All(P, s))]
             Body(s) == IF s = {} THEN 0
                        ELSE f[CHOOSE x \in s : TRUE] + h[s \ {CHOOSE x \in s : TRUE}]
  <2>1. ASSUME NEW s \in SUBSET S PROVE h[s] = Body(s)
    <3>1. CASE s = {}
        BY <1>2, <3>1
    <3>2. CASE s # {}
      <4> DEFINE x == Pick(s)
      <4>1. x \in s /\ Cardinality(All(P, s)) = f[x] + Cardinality(All(P, s \ {x}))
          BY <1>1, <3>2
      <4>2. s \ {x} \in SUBSET S
          OBVIOUS
      <4>3. h[s \ {x}] = Cardinality(All(P, s \ {x}))
          BY <4>2
      <4> QED BY <3>2, <4>1, <4>3
    <3> QED BY <3>1, <3>2
  <2>2. h = [s \in SUBSET S |-> Body(s)]
    <3> HIDE DEF Body
    <3> QED BY <2>1
  <2>3. IsSum(h, f, S)
    <3> HIDE DEF h
    <3> QED BY <2>2 DEF IsSum
  <2> QED BY <2>3
<1>4. SumOf(f, S) = g[S]
    BY SumIsIter
<1> HIDE DEF g
<1> DEFINE T == {n \in Nat : \A s \in SUBSET S :
                    Cardinality(s) = n => g[s] = Cardinality(All(P, s))}
<1>5. 0 \in T
  <2>1. ASSUME NEW s \in SUBSET S, Cardinality(s) = 0 PROVE g[s] = Cardinality(All(P, s))
    <3>1. IsFiniteSet(s)
        BY FS_Subset
    <3>2. s = {}
        BY <2>1, <3>1, FS_EmptySet
    <3>3. g[s] = 0
        BY <1>3, <3>2 DEF IsSum
    <3> QED BY <1>2, <3>2, <3>3
  <2> QED BY <2>1
<1>6. ASSUME NEW n \in Nat, n \in T PROVE n + 1 \in T
  <2>1. ASSUME NEW s \in SUBSET S, Cardinality(s) = n + 1
        PROVE  g[s] = Cardinality(All(P, s))
    <3> DEFINE x == Pick(s)
    <3>1. IsFiniteSet(s)
        BY FS_Subset
    <3>2. s # {}
        BY <2>1, FS_EmptySet
    <3>3. x \in s /\ Cardinality(All(P, s)) = f[x] + Cardinality(All(P, s \ {x}))
        BY <1>1, <3>2
    <3>4. g[s] = f[x] + g[s \ {x}]
        BY <1>3, <3>2 DEF IsSum
    <3> HIDE DEF x
    <3>5. Cardinality(s \ {x}) = (n + 1) - 1
        BY <2>1, <3>1, <3>3, FS_RemoveElement
    <3>6. Cardinality(s \ {x}) = n
        BY <3>5
    <3>7. s \ {x} \in SUBSET S
        OBVIOUS
    <3>8. g[s \ {x}] = Cardinality(All(P, s \ {x}))
        BY <1>6, <3>6, <3>7
    <3> QED BY <3>3, <3>4, <3>8
  <2> QED BY <2>1
<1>7. Nat \subseteq T
  <2> HIDE DEF T
  <2> QED BY <1>5, <1>6, Keeping!SetInduction
<1>8. Cardinality(S) \in Nat
    BY FS_CardinalityType
<1> QED BY <1>4, <1>7, <1>8

----------------------------------------------------------------------------
(* The counts of the reports. *)

(* Every row has one of the six levels. *)
LEMMA LevelsSum ==
    ASSUME TableOK
    PROVE  TotalOf(Levels(table)) = QualityStats(table).total
<1> DEFINE P == [l \in 1 .. 6 |-> {id \in DOMAIN table : table[id].cefr = l}]
<1>1. DOMAIN Levels(table) = 1 .. 6
    BY DEF Levels
<1>2. \A l \in 1 .. 6 : Levels(table)[l] = Cardinality(P[l])
    BY DEF Levels, Where
<1>3. ArePartsOf(P, 1 .. 6, DOMAIN table)
    BY DEF ArePartsOf
<1>4. All(P, 1 .. 6) = DOMAIN table
  <2>1. \A id \in DOMAIN table : table[id].cefr \in 1 .. 6
      BY DEF TableOK, IsRow
  <2> QED BY <2>1 DEF All
<1>5. IsFiniteSet(1 .. 6) /\ IsFiniteSet(DOMAIN table)
  <2>1. 1 \in Int /\ 6 \in Int
      OBVIOUS
  <2>2. IsFiniteSet(1 .. 6)
      BY <2>1, FS_Interval
  <2> QED BY <2>2 DEF TableOK
<1> HIDE DEF P
<1>6. SumOf(Levels(table), 1 .. 6) = Cardinality(DOMAIN table)
    BY <1>2, <1>3, <1>4, <1>5, SumOfParts
<1>7. TotalOf(Levels(table)) = SumOf(Levels(table), 1 .. 6)
    BY <1>1 DEF TotalOf, SumOf
<1>8. QualityStats(table).total = Cardinality(DOMAIN table)
    BY DEF QualityStats
<1> QED BY <1>6, <1>7, <1>8

(* The part of speech of a row, *)
PosOf(id) == table[id].entry.info["partOfSpeech"]

(* the rows that have one, *)
WithPos == {id \in DOMAIN table : PosOf(id) # None}

(* and those that have none. *)
WithoutPos == {id \in DOMAIN table : PosOf(id) = None}

(* Together they are all rows. *)
LEMMA PosSplit ==
    ASSUME TableOK
    PROVE  /\ Cardinality(WithPos) + QualityStats(table).noPartOfSpeech = Cardinality(DOMAIN table)
           /\ QualityStats(table).noPartOfSpeech = Cardinality(WithoutPos)
<1>1. QualityStats(table).noPartOfSpeech = Cardinality(WithoutPos)
    BY DEF QualityStats, Where, NoPos, Field, WithoutPos, PosOf
<1>2. IsFiniteSet(WithPos) /\ IsFiniteSet(WithoutPos)
    BY FS_Subset DEF TableOK, WithPos, WithoutPos
<1>3. WithPos \cap WithoutPos = {} /\ WithPos \cup WithoutPos = DOMAIN table
    BY DEF WithPos, WithoutPos
<1> QED BY <1>1, <1>2, <1>3, CardinalityOfTwo

(* Every row with a part of speech is counted for that one. *)
LEMMA PosSum ==
    ASSUME NoneIsApart, TableOK
    PROVE  TotalOf(PosDistribution(table)) = Cardinality(WithPos)
<1> DEFINE known == {PosOf(id) : id \in DOMAIN table} \ {None}
           P == [p \in known |-> {id \in DOMAIN table : PosOf(id) = p}]
           f == PosDistribution(table)
<1>1. f = [p \in known |-> Cardinality(Where(table, LAMBDA r : Is(Field(r, "partOfSpeech"), p)))]
    BY DEF PosDistribution, Field, PosOf
<1>2. ASSUME NEW p \in known
      PROVE  Where(table, LAMBDA r : Is(Field(r, "partOfSpeech"), p)) = P[p]
  <2>1. \A id \in DOMAIN table : Is(PosOf(id), p) = TRUE <=> PosOf(id) = p
      BY NullIsApart DEF Is
  <2>2. Where(table, LAMBDA r : Is(Field(r, "partOfSpeech"), p)) =
            {id \in DOMAIN table : Is(PosOf(id), p) = TRUE}
      BY DEF Where, Field, PosOf
  <2> QED BY <2>1, <2>2
<1> DEFINE g == [p \in known |-> Cardinality(P[p])]
<1>3. f = g
    BY <1>1, <1>2
<1>4. IsFiniteSet(DOMAIN table)
    BY DEF TableOK
<1>5. IsFiniteSet(known)
  <2> DEFINE h == [id \in DOMAIN table |-> PosOf(id)]
             all == {PosOf(id) : id \in DOMAIN table}
  <2>1. h \in [DOMAIN table -> all] /\ \A p \in all : \E id \in DOMAIN table : h[id] = p
      OBVIOUS
  <2> HIDE DEF h, all
  <2>2. h \in Surjection(DOMAIN table, all)
      BY <2>1 DEF Surjection
  <2>3. IsFiniteSet(all)
      BY <1>4, <2>2, FS_Surjection
  <2> QED BY <2>3, FS_Subset DEF all
<1>6. ArePartsOf(P, known, DOMAIN table)
    BY DEF ArePartsOf
<1>7. All(P, known) = WithPos
  <2>1. ASSUME NEW id \in WithPos PROVE PosOf(id) \in known /\ id \in P[PosOf(id)]
      BY DEF WithPos
  <2>2. ASSUME NEW p \in known PROVE P[p] \subseteq WithPos
      BY DEF WithPos
  <2> HIDE DEF P, known
  <2> QED BY <2>1, <2>2 DEF All
<1>8. \A p \in known : f[p] = Cardinality(P[p])
    BY <1>3
<1>9. DOMAIN f = known
    BY <1>3
<1> HIDE DEF P, known, f
<1>10. SumOf(f, known) = Cardinality(WithPos)
    BY <1>4, <1>5, <1>6, <1>7, <1>8, SumOfParts
<1>11. TotalOf(f) = SumOf(f, known)
    BY <1>9 DEF TotalOf, SumOf
<1> QED BY <1>10, <1>11 DEF f

(* The buckets of the parts of speech share no row, and "other" takes      *)
(* the rows with a part of speech that none of them takes.                 *)
LEMMA BucketsSum ==
    ASSUME NoneIsApart, TableOK
    PROVE  /\ TotalOf([b \in DOMAIN EntriesStats(table) \ {"total"} |-> EntriesStats(table)[b]]) =
                  Cardinality(WithPos)
           /\ EntriesStats(table)["total"] = Cardinality(DOMAIN table)
<1> DEFINE In(b) == {id \in DOMAIN table : PosOf(id) \in PosBucket[b]}
           names == {"noun", "verb", "adj", "adv"}
           other == WithPos \ UNION {In(b) : b \in names}
           S == names \cup {"other"}
           P == [b \in S |-> IF b = "other" THEN other ELSE In(b)]
           f == [b \in DOMAIN EntriesStats(table) \ {"total"} |-> EntriesStats(table)[b]]
<1>1. DOMAIN PosBucket = names
    BY DEF PosBucket
<1>2. WithPos = Where(table, LAMBDA r : ~NoPos(r))
    BY DEF WithPos, Where, NoPos, Field, PosOf
<1>3. EntriesStats(table) =
          [b \in names \cup {"other", "total"} |->
              IF b = "total" THEN Cardinality(DOMAIN table)
              ELSE IF b = "other" THEN Cardinality(other) ELSE Cardinality(In(b))]
    BY <1>1, <1>2, Zenon DEF EntriesStats, Field, PosOf
<1>4. EntriesStats(table)["total"] = Cardinality(DOMAIN table)
    BY <1>3
<1>5. DOMAIN f = S
    BY <1>3
<1>6. \A b \in S : f[b] = Cardinality(P[b])
    BY <1>3
<1>7. ArePartsOf(P, S, DOMAIN table)
  <2>1. \A b, c \in names : b # c => PosBucket[b] \cap PosBucket[c] = {}
      BY DEF PosBucket
  <2>2. \A b, c \in names : b # c => In(b) \cap In(c) = {}
      BY <2>1
  <2>3. \A b \in names : In(b) \cap other = {}
      OBVIOUS
  <2>4. other \subseteq DOMAIN table /\ \A b \in names : In(b) \subseteq DOMAIN table
      BY DEF WithPos
  <2>5. "other" \notin names
      OBVIOUS
  <2>6. P["other"] = other /\ \A b \in names : P[b] = In(b)
      BY <2>5
  <2>7. \A b \in S : b \in names \/ b = "other"
      OBVIOUS
  <2> HIDE DEF P, In, names, other
  <2> QED BY <2>2, <2>3, <2>4, <2>6, <2>7 DEF ArePartsOf
<1>8. All(P, S) = WithPos
  <2>1. \A b \in names : In(b) \subseteq WithPos
    <3>1. \A b \in names : None \notin PosBucket[b]
        BY DEF PosBucket, NoneIsApart
    <3> QED BY <3>1 DEF WithPos
  <2>2. P["other"] = other /\ \A b \in names : P[b] = In(b)
      OBVIOUS
  <2>3. \A b \in S : b \in names \/ b = "other"
      OBVIOUS
  <2>4. "other" \in S /\ names \subseteq S
      OBVIOUS
  <2>5. WithPos \subseteq other \cup UNION {In(b) : b \in names}
      OBVIOUS
  <2>6. other \subseteq WithPos
      OBVIOUS
  <2> HIDE DEF P, In, names, other, S
  <2> QED BY <2>1, <2>2, <2>3, <2>4, <2>5, <2>6 DEF All
<1>9. IsFiniteSet(S) /\ IsFiniteSet(DOMAIN table)
  <2>1. IsFiniteSet({"noun"}) /\ IsFiniteSet({"verb"}) /\ IsFiniteSet({"adj"})
        /\ IsFiniteSet({"adv"}) /\ IsFiniteSet({"other"})
      BY FS_Singleton
  <2>2. IsFiniteSet({"noun"} \cup {"verb"}) /\ IsFiniteSet({"adj"} \cup {"adv"})
      BY <2>1, FS_Union
  <2>3. IsFiniteSet(({"noun"} \cup {"verb"}) \cup ({"adj"} \cup {"adv"}))
      BY <2>2, FS_Union
  <2>4. IsFiniteSet((({"noun"} \cup {"verb"}) \cup ({"adj"} \cup {"adv"})) \cup {"other"})
      BY <2>1, <2>3, FS_Union
  <2>5. S = (({"noun"} \cup {"verb"}) \cup ({"adj"} \cup {"adv"})) \cup {"other"}
      OBVIOUS
  <2> HIDE DEF S
  <2> QED BY <2>4, <2>5 DEF TableOK
<1> HIDE DEF P, S, f
<1>10. SumOf(f, S) = Cardinality(WithPos)
    BY <1>6, <1>7, <1>8, <1>9, SumOfParts
<1>11. TotalOf(f) = SumOf(f, S)
    BY <1>5 DEF TotalOf, SumOf
<1> QED BY <1>4, <1>10, <1>11 DEF f

(* Levels, parts of speech and their buckets add up. *)
LEMMA CountsAgree ==
    ASSUME NoneIsApart, TableOK
    PROVE  CountsAddUp
<1>1. QualityStats(table).total = Cardinality(DOMAIN table)
    BY DEF QualityStats
<1> QED BY <1>1, LevelsSum, PosSplit, PosSum, BucketsSum DEF CountsAddUp

----------------------------------------------------------------------------
(* Problems. *)

(* The rows that have the problem p. *)
WithProblem(p) ==
    {id \in DOMAIN table :
        CASE p = "no-meanings" -> NoMeanings(table[id])
          [] p = "no-pos" -> NoPos(table[id])
          [] p = "no-class" -> NoClass(table[id]) = TRUE
          [] OTHER -> NoExamples(table[id])}

(* Those are what buildProblemsFilter selects. *)
LEMMA ListsOfProblems ==
    /\ \A p \in ProblemType : FindProblems(table, p) = WithProblem(p)
    /\ FindProblems(table, "all") = {id \in DOMAIN table : AnyProblem(table[id])}
<1>1. \A r : /\ (NoMeanings(r) = TRUE) = NoMeanings(r)
             /\ (NoPos(r) = TRUE) = NoPos(r)
             /\ (NoExamples(r) = TRUE) = NoExamples(r)
             /\ (AnyProblem(r) = TRUE) = AnyProblem(r)
    BY DEF NoMeanings, NoPos, NoExamples, AnyProblem
<1>2. \A r : /\ ProblemFilter("no-meanings", r) = NoMeanings(r)
             /\ ProblemFilter("no-pos", r) = NoPos(r)
             /\ ProblemFilter("no-class", r) = NoClass(r)
             /\ ProblemFilter("no-examples", r) = NoExamples(r)
             /\ ProblemFilter("all", r) = AnyProblem(r)
    BY DEF ProblemFilter
<1>3. \A p : FindProblems(table, p) = {id \in DOMAIN table : ProblemFilter(p, table[id]) = TRUE}
    BY DEF FindProblems, Where
<1>4. FindProblems(table, "all") = {id \in DOMAIN table : AnyProblem(table[id])}
    BY <1>1, <1>2, <1>3
<1>5. /\ FindProblems(table, "no-meanings") = {id \in DOMAIN table : NoMeanings(table[id])}
      /\ FindProblems(table, "no-pos") = {id \in DOMAIN table : NoPos(table[id])}
      /\ FindProblems(table, "no-class") = {id \in DOMAIN table : NoClass(table[id]) = TRUE}
      /\ FindProblems(table, "no-examples") = {id \in DOMAIN table : NoExamples(table[id])}
    BY <1>1, <1>2, <1>3
<1>6. /\ WithProblem("no-meanings") = {id \in DOMAIN table : NoMeanings(table[id])}
      /\ WithProblem("no-pos") = {id \in DOMAIN table : NoPos(table[id])}
      /\ WithProblem("no-class") = {id \in DOMAIN table : NoClass(table[id]) = TRUE}
      /\ WithProblem("no-examples") = {id \in DOMAIN table : NoExamples(table[id])}
    BY DEF WithProblem
<1> QED BY <1>4, <1>5, <1>6 DEF ProblemType

(* A row has any problem if it has one of the four. *)
LEMMA ProblemsOfAll ==
    {id \in DOMAIN table : AnyProblem(table[id])} = UNION {WithProblem(p) : p \in ProblemType}
<1>1. /\ WithProblem("no-meanings") = {id \in DOMAIN table : NoMeanings(table[id])}
      /\ WithProblem("no-pos") = {id \in DOMAIN table : NoPos(table[id])}
      /\ WithProblem("no-class") = {id \in DOMAIN table : NoClass(table[id]) = TRUE}
      /\ WithProblem("no-examples") = {id \in DOMAIN table : NoExamples(table[id])}
    BY DEF WithProblem
<1>2. \A id : id \in UNION {WithProblem(p) : p \in ProblemType}
                  <=> \/ id \in WithProblem("no-meanings") \/ id \in WithProblem("no-pos")
                      \/ id \in WithProblem("no-class") \/ id \in WithProblem("no-examples")
    BY DEF ProblemType
<1> QED BY <1>1, <1>2 DEF AnyProblem

(* A row with a problem is one that is shown with some. *)
LEMMA ProblemsShown ==
    ASSUME NEW r
    PROVE  Problems(r) # {} <=> AnyProblem(r)
<1> DEFINE A == NoMeanings(r)
           B == NoPos(r)
           C == NoClass(r)
           D == NoExamples(r)
<1>1. Problem(r) # {} <=> A = TRUE \/ B = TRUE \/ C = TRUE \/ D = TRUE
  <2>1. Problem(r) = {p \in {<<"no-meanings", A>>, <<"no-pos", B>>,
                             <<"no-class", C>>, <<"no-examples", D>>} : p[2] = TRUE}
      BY DEF Problem
  <2> DEFINE a == <<"no-meanings", A>>
             b == <<"no-pos", B>>
             c == <<"no-class", C>>
             d == <<"no-examples", D>>
  <2>2. a[2] = A /\ b[2] = B /\ c[2] = C /\ d[2] = D
      OBVIOUS
  <2>3. Problem(r) = {p \in {a, b, c, d} : p[2] = TRUE}
      BY <2>1
  <2> HIDE DEF A, B, C, D, a, b, c, d
  <2> QED BY <2>2, <2>3
<1>2. Problems(r) # {} <=> Problem(r) # {}
    BY DEF Problems
<1>3. (A = TRUE) = A /\ (B = TRUE) = B /\ (D = TRUE) = D
    BY DEF NoMeanings, NoPos, NoExamples
<1> QED BY <1>1, <1>2, <1>3 DEF AnyProblem

(* The problems that are counted are those that are listed. *)
LEMMA ProblemsAreThose == ProblemsAgree
<1>1. FindProblems(table, "all") = UNION {FindProblems(table, p) : p \in ProblemType}
    BY ListsOfProblems, ProblemsOfAll
<1>2. QualityStats(table).problemsUnique = Cardinality(FindProblems(table, "all"))
  <2>1. Where(table, AnyProblem) = {id \in DOMAIN table : AnyProblem(table[id])}
      BY DEF Where, AnyProblem
  <2> QED BY <2>1, ListsOfProblems DEF QualityStats
<1>3. FindProblems(table, "all") = {id \in DOMAIN table : Problems(table[id]) # {}}
    BY ListsOfProblems, ProblemsShown
<1>4. /\ QualityStats(table).noMeanings = Cardinality(WithProblem("no-meanings"))
      /\ QualityStats(table).nounsWithoutClass = Cardinality(WithProblem("no-class"))
      /\ QualityStats(table).noPartOfSpeech = Cardinality(WithProblem("no-pos"))
      /\ QualityStats(table).noExamples = Cardinality(WithProblem("no-examples"))
  <2>1. /\ Where(table, NoMeanings) = WithProblem("no-meanings")
        /\ Where(table, NoClass) = WithProblem("no-class")
        /\ Where(table, NoPos) = WithProblem("no-pos")
        /\ Where(table, NoExamples) = WithProblem("no-examples")
      BY DEF Where, WithProblem, NoMeanings, NoPos, NoExamples
  <2> QED BY <2>1 DEF QualityStats
<1>5. {"no-meanings", "no-class", "no-pos", "no-examples"} \subseteq ProblemType
    BY DEF ProblemType
<1> QED BY <1>1, <1>2, <1>3, <1>4, <1>5, ListsOfProblems DEF ProblemsAgree

----------------------------------------------------------------------------
(* Sources. *)

(* The rows of a source, *)
OfSource(s) == {id \in DOMAIN table : s \in table[id].sources}

(* and those with one of these numbers of problems. *)
Numbered(s, ns) == {id \in OfSource(s) : ProblemsCount(table[id]) \in ns}

(* listEntries by source selects the rows of the source. *)
LEMMA ListOfSource ==
    ASSUME NEW s
    PROVE  ListEntries(table, [source |-> s]) = OfSource(s)
<1> DEFINE filter == [source |-> s]
<1>1. DOMAIN filter = {"source"} /\ filter["source"] = s
    OBVIOUS
<1> HIDE DEF filter
<1>2. ASSUME NEW r PROVE Matches(filter, r) <=> s \in r.sources
  <2>1. {"pos", "nounClass", "cefr"} \cap DOMAIN filter = {} /\ "source" \in DOMAIN filter
      BY <1>1
  <2> QED BY <1>1, <2>1 DEF Matches
<1>3. ListEntries(table, filter) = {id \in DOMAIN table : Matches(filter, table[id]) = TRUE}
    BY DEF ListEntries, Where
<1>4. ListEntries(table, filter) = OfSource(s)
  <2>1. \A r : (Matches(filter, r) = TRUE) <=> Matches(filter, r)
      BY DEF Matches
  <2> QED BY <1>2, <1>3, <2>1 DEF OfSource
<1> QED BY <1>4 DEF filter

(* The number of problems is at most four, or Null. *)
LEMMA NumberOfProblems ==
    ASSUME NEW r
    PROVE  ProblemsCount(r) \in {Null} \cup 0 .. 4
<1>1. Null \notin BOOLEAN /\ Null \notin 0 .. 4
    BY NullIsApart
<1>2. \A p \in BOOLEAN \cup {Null} : AsInt(p) \in {Null} \cup 0 .. 1
    BY <1>1 DEF AsInt
<1>3. /\ NoMeanings(r) \in BOOLEAN \cup {Null} /\ NoPos(r) \in BOOLEAN \cup {Null}
      /\ NoClass(r) \in BOOLEAN \cup {Null} /\ NoExamples(r) \in BOOLEAN \cup {Null}
    BY DEF NoMeanings, NoPos, NoExamples, NoClass, And
<1>4. \A n \in 1 .. 3 : \A a \in {Null} \cup 0 .. 1 : \A b \in {Null} \cup 0 .. n :
          Plus(a, b) \in {Null} \cup 0 .. n + 1
    BY <1>1 DEF Plus
<1>5. Plus(AsInt(NoClass(r)), AsInt(NoExamples(r))) \in {Null} \cup 0 .. 2
    BY <1>2, <1>3, <1>4
<1>6. Plus(AsInt(NoPos(r)), Plus(AsInt(NoClass(r)), AsInt(NoExamples(r))))
          \in {Null} \cup 0 .. 3
    BY <1>2, <1>3, <1>4, <1>5
<1> QED BY <1>2, <1>3, <1>4, <1>6 DEF ProblemsCount

(* It is Null only for a row without part of speech, which has that        *)
(* problem at least.                                                       *)
LEMMA UnknownHasProblems ==
    ASSUME NoneIsApart, NEW r, ProblemsCount(r) = Null
    PROVE  Problems(r) # {}
<1>1. Null \notin BOOLEAN /\ Null \notin 0 .. 4
    BY NullIsApart
<1>2. \A p \in BOOLEAN : AsInt(p) \in 0 .. 1
    BY <1>1 DEF AsInt
<1>3. NoMeanings(r) \in BOOLEAN /\ NoPos(r) \in BOOLEAN /\ NoExamples(r) \in BOOLEAN
    BY DEF NoMeanings, NoPos, NoExamples
<1>4. \A n \in 1 .. 3 : \A a \in 0 .. 1 : \A b \in 0 .. n : Plus(a, b) \in 0 .. n + 1
    BY <1>1 DEF Plus
<1>5. NoClass(r) \notin BOOLEAN
  <2>1. SUFFICES ASSUME NoClass(r) \in BOOLEAN PROVE FALSE
      OBVIOUS
  <2>2. Plus(AsInt(NoClass(r)), AsInt(NoExamples(r))) \in 0 .. 2
      BY <1>2, <1>3, <1>4, <2>1
  <2>3. Plus(AsInt(NoPos(r)), Plus(AsInt(NoClass(r)), AsInt(NoExamples(r)))) \in 0 .. 3
      BY <1>2, <1>3, <1>4, <2>2
  <2>4. ProblemsCount(r) \in 0 .. 4
      BY <1>2, <1>3, <1>4, <2>3 DEF ProblemsCount
  <2> QED BY <1>1, <2>4
<1>6. Field(r, "partOfSpeech") = None
  <2>1. None # "suS."
      BY DEF NoneIsApart
  <2> QED BY <1>5, <2>1 DEF NoClass, And, Is
<1>7. AnyProblem(r)
    BY <1>6 DEF AnyProblem, NoPos
<1> QED BY <1>7, ProblemsShown

(* The rows of a source are each counted once. *)
LEMMA SourcesAddUp ==
    ASSUME NoneIsApart, TableOK, NEW s
    PROVE  SourceAddsUp(s)
<1> DEFINE ok == Numbered(s, {0})
           warn == Numbered(s, {1})
           err == Numbered(s, 2 .. 4)
           unknown == {id \in OfSource(s) : ProblemsCount(table[id]) = Null}
<1>1. BySource(table, s) = [total |-> Cardinality(OfSource(s)), ok |-> Cardinality(ok),
                            warn |-> Cardinality(warn), err |-> Cardinality(err)]
    BY DEF BySource, OfSource, Numbered
<1>2. SourceCount(table, s) = Cardinality(OfSource(s))
    BY DEF SourceCount, OfSource
<1>3. unknown = {id \in ListEntries(table, [source |-> s]) : ProblemsCount(table[id]) = Null}
    BY ListOfSource
<1>4. IsFiniteSet(OfSource(s))
    BY FS_Subset DEF TableOK, OfSource
<1>5. /\ OfSource(s) = ((ok \cup warn) \cup err) \cup unknown
      /\ ok \cap warn = {} /\ (ok \cup warn) \cap err = {}
      /\ ((ok \cup warn) \cup err) \cap unknown = {}
  <2>1. \A id \in OfSource(s) : ProblemsCount(table[id]) \in {Null} \cup 0 .. 4
      BY NumberOfProblems
  <2>2. 0 .. 4 = {0} \cup {1} \cup 2 .. 4 /\ Null \notin 0 .. 4
      BY NullIsApart
  <2> QED BY <2>1, <2>2 DEF Numbered
<1>6. /\ IsFiniteSet(ok) /\ IsFiniteSet(warn) /\ IsFiniteSet(err) /\ IsFiniteSet(unknown)
      /\ IsFiniteSet(ok \cup warn) /\ IsFiniteSet((ok \cup warn) \cup err)
    BY <1>4, <1>5, FS_Subset
<1> HIDE DEF ok, warn, err, unknown
<1>7. /\ Cardinality(ok \cup warn) = Cardinality(ok) + Cardinality(warn)
      /\ Cardinality((ok \cup warn) \cup err) = Cardinality(ok \cup warn) + Cardinality(err)
      /\ Cardinality(OfSource(s)) =
             Cardinality((ok \cup warn) \cup err) + Cardinality(unknown)
      /\ Cardinality(ok) \in Nat /\ Cardinality(warn) \in Nat /\ Cardinality(err) \in Nat
      /\ Cardinality(unknown) \in Nat
    BY <1>5, <1>6, CardinalityOfTwo
<1>8. \A id \in unknown : Problems(table[id]) # {}
    BY UnknownHasProblems DEF unknown
<1> QED BY <1>1, <1>2, <1>3, <1>7, <1>8 DEF SourceAddsUp

(* The reports agree with each other, whatever is in the table: counts     *)
(* with listings, and levels, parts of speech, buckets and sources with    *)
(* the total.                                                              *)
THEOREM ReportsAgreeAlways ==
    ASSUME NoneIsApart
    PROVE  Spec => []ReportsAgree
<1>1. IInv => ReportsAgree
    BY CountsAgree, ProblemsAreThose, SourcesAddUp DEF IInv, ReportsAgree
<1> QED BY <1>1, IInvariant, PTL

----------------------------------------------------------------------------
(* Paradigms. *)

(* None is not a paradigm, and no stem with an ending is None. Like        *)
(* NoneIsApart, this is beyond what TLC evaluates.                         *)
NoneIsNoForm == None # [c \in Case |-> None[c]] /\ \A s, t : s \o t # None

(* Storing the forms of a paradigm puts each in its own slot, the plural   *)
(* forms if there are some, and leaves alone what is not a case.           *)
LEMMA StoredForms ==
    ASSUME NEW forms, NEW g
    PROVE  /\ \A c \in Case : Stored(forms, g)[c] = forms.singular[c]
           /\ forms.plural # None =>
                  \A c \in Case : Stored(forms, g)[PluralOf[c]] = forms.plural[c]
           /\ \A s \in {"plural", "verbPresent", "verbPast", "verbParticiple"} :
                  Stored(forms, g)[s] = g[s]
<1> DEFINE others == {"plural", "verbPresent", "verbPast", "verbParticiple"}
<1>1. \A c \in Case : c \in GrammarSlot /\ PluralOf[c] \in GrammarSlot
    BY DEF GrammarSlot
<1>2. \A c \in Case : PluralOf[c] \notin Case /\ PluralOf[c] \notin others
    BY DEF Case, PluralOf
<1>3. \A c, d \in Case : PluralOf[c] = PluralOf[d] => c = d
    BY DEF Case, PluralOf
<1>4. others \subseteq GrammarSlot /\ others \cap Case = {}
    BY DEF GrammarSlot, Case
<1>5. \A c \in Case : Stored(forms, g)[c] = forms.singular[c]
    BY <1>1 DEF Stored
<1>6. ASSUME forms.plural # None, NEW c \in Case
      PROVE  Stored(forms, g)[PluralOf[c]] = forms.plural[c]
  <2>1. (CHOOSE d \in Case : PluralOf[d] = PluralOf[c]) = c
      BY <1>3
  <2> QED BY <1>1, <1>2, <1>6, <2>1 DEF Stored
<1>7. ASSUME NEW s \in others PROVE Stored(forms, g)[s] = g[s]
  <2>1. s \in GrammarSlot /\ s \notin Case /\ \A c \in Case : PluralOf[c] # s
      BY <1>2, <1>4
  <2> HIDE DEF others
  <2> QED BY <2>1 DEF Stored
<1> QED BY <1>5, <1>6, <1>7

(* The paradigm of a word with its own forms stored is the same,           *)
(* whatever the word and whatever was stored before.                       *)
LEMMA DeclensionSettles ==
    ASSUME NoneIsNoForm, NEW w, NEW g
    PROVE  /\ Declension(w, Stored(Declension(w, g), g)).singular = Declension(w, g).singular
           /\ Declension(w, Stored(Declension(w, g), g)).plural = Declension(w, g).plural
<1> DEFINE forms == Declension(w, g)
           stored == Stored(forms, g)
           stem == Given(g, "obliqueStem", GuessObliqueStem(w))
           type == Given(g, "declensionType", DetectType(g))
           base == GuessObliqueStem(g["plural"])
<1>1. /\ forms.singular = BuildSingular(stem, type, g)
      /\ forms.plural = IF g["plural"] = None THEN None ELSE BuildPlural(base, g)
    BY DEF Declension
<1>2. \A c \in Case : forms.singular[c] # None
  <2>1. \A c \in Case : FormCase(stem, type, c) # None
      BY DEF FormCase, NoneIsNoForm
  <2>2. \A c \in Case : forms.singular[c] = Given(g, c, FormCase(stem, type, c))
      BY <1>1 DEF BuildSingular
  <2> HIDE DEF forms, stem, type
  <2> QED BY <2>1, <2>2 DEF Given
<1>3. /\ \A c \in Case : stored[c] = forms.singular[c]
      /\ forms.plural # None => \A c \in Case : stored[PluralOf[c]] = forms.plural[c]
      /\ stored["plural"] = g["plural"]
    BY StoredForms
<1> HIDE DEF stored, forms
<1>4. Declension(w, stored).singular = forms.singular
  <2>1. ASSUME NEW s, NEW t PROVE BuildSingular(s, t, stored) = [c \in Case |-> forms.singular[c]]
      BY <1>2, <1>3 DEF BuildSingular, Given
  <2>2. forms.singular = [c \in Case |-> forms.singular[c]]
      BY <1>1 DEF BuildSingular
  <2>3. \E s, t : Declension(w, stored).singular = BuildSingular(s, t, stored)
      BY DEF Declension
  <2> QED BY <2>1, <2>2, <2>3
<1>5. Declension(w, stored).plural = forms.plural
  <2>1. CASE g["plural"] = None
      BY <1>1, <1>3, <2>1 DEF Declension
  <2>2. CASE g["plural"] # None
    <3>1. forms.plural = BuildPlural(base, g)
        BY <1>1, <2>2
    <3>2. forms.plural = [c \in Case |-> forms.plural[c]]
        BY <3>1 DEF BuildPlural
    <3>3. \A c \in Case : forms.plural[c] # None
      <4>1. \A c \in Case : FormPluralCase(base, c) # None
          BY DEF FormPluralCase, NoneIsNoForm
      <4>2. \A c \in Case : forms.plural[c] = Given(g, PluralOf[c], FormPluralCase(base, c))
          BY <3>1 DEF BuildPlural
      <4> HIDE DEF base
      <4> QED BY <4>1, <4>2 DEF Given
    <3>4. Declension(w, stored).plural = BuildPlural(base, stored)
        BY <1>3, <2>2 DEF Declension
    <3>5. CASE forms.plural # None
        BY <1>3, <3>2, <3>3, <3>4, <3>5 DEF BuildPlural, Given
    <3>6. forms.plural # None
        BY <3>2 DEF NoneIsNoForm
    <3> QED BY <3>5, <3>6
  <2> QED BY <2>1, <2>2
<1> QED BY <1>4, <1>5 DEF stored, forms

(* An editor who stores the forms the site shows changes nothing of what   *)
(* it shows: neither the declension, though the type that is detected      *)
(* may change, nor the conjugation.                                        *)
THEOREM StoredFormsSettle ==
    ASSUME NoneIsNoForm
    PROVE  Spec => []FormsSettle
<1>1. FormsSettle
  <2> SUFFICES ASSUME NEW r \in Rows
               PROVE  LET g == RowGrammar(r)
                          w == r.entry.word
                          forms == Declension(w, g)
                          again == Declension(w, Stored(forms, g))
                      IN  /\ again.singular = forms.singular
                          /\ again.plural = forms.plural
                          /\ ShowsConjugation(Field(r, "partOfSpeech"), g) =>
                                 Conjugation(w, Stored(forms, g)) = Conjugation(w, g)
      BY DEF FormsSettle
  <2> DEFINE g == RowGrammar(r)
             w == r.entry.word
             stored == Stored(Declension(w, g), g)
  <2>1. \A f \in {"verbPresent", "verbPast", "verbParticiple"} : stored[f] = g[f]
      BY StoredForms
  <2> HIDE DEF stored, g
  <2>2. Conjugation(w, stored) = Conjugation(w, g)
      BY <2>1 DEF Conjugation, Given
  <2> QED BY <2>2, DeclensionSettles DEF stored, g
<1> QED BY <1>1, PTL

(* The forms of the singular of a word whose stem and case are not given   *)
(* are its stem with the endings of its type.                              *)
LEMMA SingularIs ==
    ASSUME NEW w, NEW g, g["obliqueStem"] = None, NEW c \in Case, g[c] = None
    PROVE  Declension(w, g).singular[c] =
               GuessObliqueStem(w) \o Singular[Given(g, "declensionType", DetectType(g))][c]
<1> DEFINE stem == Given(g, "obliqueStem", GuessObliqueStem(w))
           type == Given(g, "declensionType", DetectType(g))
<1>1. Declension(w, g).singular = BuildSingular(stem, type, g)
    BY DEF Declension
<1>2. stem = GuessObliqueStem(w)
    BY DEF Given
<1> HIDE DEF stem, type
<1>3. Declension(w, g).singular[c] = Given(g, c, FormCase(stem, type, c))
    BY <1>1 DEF BuildSingular
<1>4. Declension(w, g).singular[c] = stem \o Singular[type][c]
    BY <1>3 DEF Given, FormCase
<1> QED BY <1>2, <1>4 DEF type

(* Every ending the rules of declension add is one lemmatisation knows. *)
LEMMA EndingsAreKnown ==
    ASSUME NEW t \in 1 .. 4, NEW c \in Case
    PROVE  Singular[t][c] \in Endings
<1> DEFINE all == {"an", "na", "o", "ca", "x", "e", "al",
                   "nan", "nna", "no", "nca", "nax", "ne", "nal",
                   "in", "ina", "a", "ica", "ix", "iga", "il",
                   "Cun", "Cunna", "Co", "Cu'nca", "Cux", "Cu'nga", "Cul"}
<1>1. all \subseteq Endings
    BY DEF Endings, EndingsOfFour, OtherEndings
<1>2. t \in {1, 2, 3, 4}
    OBVIOUS
<1>3. Singular[t][c] \in all
  <2>1. CASE t = 1
      BY <2>1 DEF Singular, Forms, Case
  <2>2. CASE t = 2
      BY <2>2 DEF Singular, Forms, Case
  <2>3. CASE t = 3
      BY <2>3 DEF Singular, Forms, Case
  <2>4. CASE t = 4
      BY <2>4 DEF Singular, Forms, Case
  <2> QED BY <1>2, <2>1, <2>2, <2>3, <2>4
<1> HIDE DEF all
<1> QED BY <1>1, <1>3

(* A word in plain letters is a candidate for the lemma of its stem with   *)
(* an ending: the ending is stripped, and a vowel that the stem lost is    *)
(* one of the five that are tried.                                         *)
LEMMA WordIsCandidate ==
    ASSUME NEW w \in AllWords, PlainWord(w), NEW e \in Endings
    PROVE  w \in Candidates(GuessObliqueStem(w) \o e)
<1> DEFINE s == GuessObliqueStem(w)
           form == s \o e
           last == Char(w, Len(w))
           five == {"a", "e", "i", "o", "u"}
           bases == {Drop(form, Len(x)) : x \in {y \in Endings : /\ EndsWith(form, y)
                                                                 /\ Len(form) > Len(y) + 1}}
<1>1. /\ Len(s) \in Nat /\ Len(e) \in Nat /\ Len(form) = Len(s) + Len(e)
      /\ EndsWith(form, e) /\ Drop(form, Len(e)) = s /\ MapChars(LowerChar, form) = form
      /\ s # w => w = s \o last /\ last \in Chars(w)
    BY StemsAreWritten
<1>2. Len(s) > 1 /\ Chars(w) \cap {"j", "Y", "H", "1", "I", "~", "^", "E", "U", "A"} = {}
    BY DEF PlainWord
<1>3. s # w => last \in {"a", "e", "Y", "i", "o", "u", "E", "U", "A"}
    BY DEF GuessObliqueStem
<1>4. Candidates(form) = bases \cup {b \o v : b \in bases, v \in five}
    BY <1>1 DEF Candidates, StripEndings
<1> HIDE DEF s, form, last
<1>5. s \in bases
  <2>1. Len(form) > Len(e) + 1
      BY <1>1, <1>2
  <2> QED BY <1>1, <2>1
<1>6. s # w => last \in five
    BY <1>1, <1>2, <1>3
<1> HIDE DEF bases
<1>7. w = s \/ \E v \in five : w = s \o v
    BY <1>1, <1>6
<1> HIDE DEF five
<1>8. w \in Candidates(form)
    BY <1>4, <1>5, <1>7
<1> QED BY <1>8 DEF s, form

(* So every form the rules make of a row's word leads back to the row. *)
LEMMA RowFoundAgain ==
    ASSUME TableOK, NEW r \in Rows
    PROVE  WordFoundAgain(r)
<1> DEFINE g == RowGrammar(r)
           w == r.entry.word
           type == Given(g, "declensionType", DetectType(g))
<1>1. w \in AllWords /\ r.norm = NormalizeWord(w) /\ IsRow(r)
    BY DEF TableOK, Rows
<1>2. type \in 1 .. 4
  <2>1. g = NoGrammar \/ IsGrammar(g)
      BY <1>1 DEF RowGrammar, IsRow, IsEntry
  <2>2. g["declensionType"] = None \/ g["declensionType"] \in 1 .. 4
    <3>1. "declensionType" \in GrammarSlot
        BY DEF GrammarSlot
    <3> HIDE DEF g
    <3> QED BY <2>1, <3>1 DEF NoGrammar, IsGrammar
  <2>3. DetectType(g) \in 1 .. 4
    <3> HIDE DEF g
    <3> QED BY DEF DetectType
  <2> HIDE DEF g
  <2> QED BY <2>2, <2>3 DEF Given
<1>3. ASSUME PlainWord(w), g["obliqueStem"] = None, NEW c \in Case, g[c] = None
      PROVE  r.norm \in Lemmas(Declension(w, g).singular[c], {x.norm : x \in Rows})
  <2>1. r.norm = w
      BY <1>1, <1>3, StemsAreWritten
  <2> HIDE DEF g, type
  <2>2. Declension(w, g).singular[c] = GuessObliqueStem(w) \o Singular[type][c]
      BY <1>3, SingularIs DEF type
  <2>3. Singular[type][c] \in Endings
      BY <1>2, EndingsAreKnown
  <2> HIDE DEF w
  <2>4. w \in Candidates(Declension(w, g).singular[c])
      BY <1>1, <1>3, <2>2, <2>3, WordIsCandidate
  <2> QED BY <2>1, <2>4 DEF Lemmas
<1> QED BY <1>3 DEF WordFoundAgain

(* What stands at the end of the instrumental of a word in each type. *)
LEMMA InstrumentalEnds ==
    ASSUME NEW w \in AllWords,
           ~Ends(GuessObliqueStem(w), {"n", "r", "i", "Cu", "Cu'", "CuH"})
    PROVE  LET s == GuessObliqueStem(w)
           IN  /\ \A f \in TypeEndings : ~EndsWith(s \o "ca", f)
               /\ EndsWith(s \o "nca", "nca") /\ ~EndsWith(s \o "nca", "ica")
               /\ \A f \in {"Cunca", "Cu'nca", "CuHnca"} : ~EndsWith(s \o "nca", f)
               /\ EndsWith(s \o "ica", "ica")
               /\ \A f \in {"Cunca", "Cu'nca", "CuHnca"} : ~EndsWith(s \o "ica", f)
               /\ EndsWith(s \o "Cu'nca", "Cu'nca")
<1> DEFINE s == GuessObliqueStem(w)
           E == {"ca", "nca", "ica", "Cu'nca"}
<1>1. E \subseteq Endings
    BY DEF Endings, EndingsOfFour, OtherEndings
<1>2. /\ s # None
      /\ \A e \in E : \A f \in TypeEndings :
             EndsWith(s \o e, f) <=>
                 EndsWith(e, f) \/ (EndsWith(f, e) /\ EndsWith(s, Drop(f, Len(e))))
      /\ \A end \in {"Cun", "Cu'n", "CuHn"} : EndsWith(s, end) => EndsWith(s, "n")
    BY <1>1, StemsAreWritten
<1>3. \A end \in {"n", "r", "i", "Cu", "Cu'", "CuH"} : ~EndsWith(s, end)
    BY <1>2 DEF Ends
<1> HIDE DEF s
<1>4. ASSUME NEW f \in TypeEndings PROVE ~EndsWith(s \o "ca", f)
  <2>1. ~EndsWith("ca", f) /\ Len("ca") = 2
      BY EndingsAreSpelt
  <2>2. <<f, Drop(f, 2)>> \in {<<"Cunca", "Cun">>, <<"Cu'nca", "Cu'n">>, <<"CuHnca", "CuHn">>,
                              <<"ica", "i">>, <<"nca", "n">>, <<"rca", "r">>}
      BY EndingsAreSpelt
  <2>3. Drop(f, 2) \in {"Cun", "Cu'n", "CuHn", "i", "n", "r"}
      BY <2>2
  <2>4. ~EndsWith(s, Drop(f, 2))
      BY <1>2, <1>3, <2>3
  <2> QED BY <1>2, <2>1, <2>4
<1>5. /\ EndsWith(s \o "nca", "nca") /\ ~EndsWith(s \o "nca", "ica")
      /\ \A f \in {"Cunca", "Cu'nca", "CuHnca"} : ~EndsWith(s \o "nca", f)
  <2>1. {"nca", "ica", "Cunca", "Cu'nca", "CuHnca"} \subseteq TypeEndings
      BY DEF TypeEndings
  <2>2. {f \in TypeEndings : EndsWith("nca", f)} = {"nca"}
      BY EndingsAreSpelt
  <2>3. {f \in TypeEndings : EndsWith(f, "nca")} = {"Cunca", "Cu'nca", "CuHnca", "nca"}
      BY EndingsAreSpelt
  <2>4. /\ Len("nca") = 3 /\ Drop("Cunca", 3) = "Cu" /\ Drop("Cu'nca", 3) = "Cu'"
        /\ Drop("CuHnca", 3) = "CuH"
      BY EndingsAreSpelt
  <2>5. EndsWith("nca", "nca") /\ ~EndsWith("nca", "ica") /\ ~EndsWith("ica", "nca")
      BY <2>1, <2>2, <2>3
  <2>6. \A f \in {"Cunca", "Cu'nca", "CuHnca"} : ~EndsWith("nca", f)
      BY <2>1, <2>2
  <2>7. EndsWith(s \o "nca", "nca") /\ ~EndsWith(s \o "nca", "ica")
      BY <1>2, <2>1, <2>5
  <2>8. ~EndsWith(s, "Cu") /\ ~EndsWith(s, "Cu'") /\ ~EndsWith(s, "CuH")
      BY <1>3
  <2> QED BY <1>2, <2>1, <2>4, <2>6, <2>7, <2>8
<1>6. /\ EndsWith(s \o "ica", "ica")
      /\ \A f \in {"Cunca", "Cu'nca", "CuHnca"} : ~EndsWith(s \o "ica", f)
  <2>1. {"ica", "Cunca", "Cu'nca", "CuHnca"} \subseteq TypeEndings
      BY DEF TypeEndings
  <2>2. {f \in TypeEndings : EndsWith("ica", f)} = {"ica"}
      BY EndingsAreSpelt
  <2>3. {f \in TypeEndings : EndsWith(f, "ica")} = {"ica"}
      BY EndingsAreSpelt
  <2> QED BY <1>2, <2>1, <2>2, <2>3
<1>7. EndsWith(s \o "Cu'nca", "Cu'nca")
  <2>1. {f \in TypeEndings : EndsWith("Cu'nca", f)} = {"nca", "Cu'nca"}
      BY EndingsAreSpelt
  <2> QED BY <1>2, <2>1
<1> QED BY <1>4, <1>5, <1>6, <1>7 DEF s

(* The type is read off the instrumental, if there is one. *)
LEMMA DetectedByInstrumental ==
    ASSUME NEW g, NEW instr, g["instrumental"] = instr, instr # None
    PROVE  DetectType(g) = IF Ends(instr, {"Cunca", "Cu'nca", "CuHnca"}) THEN 4
                           ELSE IF Ends(instr, {"ica"}) THEN 3
                           ELSE IF Ends(instr, {"nca", "rca"}) THEN 2 ELSE 1
<1> DEFINE four == Ends(instr, {"Cunca", "Cu'nca", "CuHnca"})
           three == Ends(instr, {"ica"})
           two == Ends(instr, {"nca", "rca"})
           other == IF Ends(g["genitive"], {"Cun"}) THEN 4
                    ELSE IF Ends(g["genitive"], {"in"}) THEN 3 ELSE 1
<1>1. DetectType(g) = IF instr # None
                      THEN IF four THEN 4 ELSE IF three THEN 3 ELSE IF two THEN 2 ELSE 1
                      ELSE other
    BY Zenon DEF DetectType
<1> QED BY <1>1

(* The type is found again from the instrumental. *)
LEMMA TypesAreFoundAgain ==
    ASSUME NEW w \in AllWords
    PROVE  TypeFoundAgain(w)
<1> DEFINE s == GuessObliqueStem(w)
           ends == {"n", "r", "i", "Cu", "Cu'", "CuH"}
<1> SUFFICES ASSUME ~Ends(s, ends), NEW t \in 1 .. 4
             PROVE  LET typed == [NoGrammar EXCEPT !["declensionType"] = t]
                    IN  DetectType(Stored(Declension(w, typed), NoGrammar)) = t
    BY DEF TypeFoundAgain
<1> DEFINE typed == [NoGrammar EXCEPT !["declensionType"] = t]
           forms == Declension(w, typed)
           g == Stored(forms, NoGrammar)
           instr == s \o Singular[t]["instrumental"]
<1>1. "instrumental" \in Case
    BY DEF Case
<1>2. /\ typed["declensionType"] = t /\ typed["obliqueStem"] = None
      /\ typed["instrumental"] = None
    BY DEF NoGrammar, GrammarSlot, Case
<1>3. Given(typed, "declensionType", DetectType(typed)) = t
    BY <1>2, NoneIsNoType DEF Given
<1> HIDE DEF typed
<1>4. forms.singular["instrumental"] = instr
  <2>1. Declension(w, typed).singular["instrumental"] =
            GuessObliqueStem(w) \o Singular[Given(typed, "declensionType", DetectType(typed))]["instrumental"]
      BY <1>1, <1>2, SingularIs
  <2> QED BY <1>3, <2>1
<1>5. g["instrumental"] = instr
    BY <1>1, <1>4, StoredForms
<1> HIDE DEF g, forms
<1>6. instr # None
    BY <1>1, EndingsAreKnown, StemsAreWritten
<1>7. DetectType(g) = IF Ends(instr, {"Cunca", "Cu'nca", "CuHnca"}) THEN 4
                      ELSE IF Ends(instr, {"ica"}) THEN 3
                      ELSE IF Ends(instr, {"nca", "rca"}) THEN 2 ELSE 1
    BY <1>5, <1>6, DetectedByInstrumental
<1>8. /\ t = 1 => instr = s \o "ca"
      /\ t = 2 => instr = s \o "nca"
      /\ t = 3 => instr = s \o "ica"
      /\ t = 4 => instr = s \o "Cu'nca"
  <2>1. Singular[1]["instrumental"] = "ca"
      BY DEF Singular, Forms
  <2>2. Singular[2]["instrumental"] = "nca"
      BY DEF Singular, Forms
  <2>3. Singular[3]["instrumental"] = "ica"
      BY DEF Singular, Forms
  <2>4. Singular[4]["instrumental"] = "Cu'nca"
      BY DEF Singular, Forms
  <2> HIDE DEF s
  <2> QED BY <2>1, <2>2, <2>3, <2>4
<1>9. /\ \A f \in TypeEndings : ~EndsWith(s \o "ca", f)
      /\ EndsWith(s \o "nca", "nca") /\ ~EndsWith(s \o "nca", "ica")
      /\ \A f \in {"Cunca", "Cu'nca", "CuHnca"} : ~EndsWith(s \o "nca", f)
      /\ EndsWith(s \o "ica", "ica")
      /\ \A f \in {"Cunca", "Cu'nca", "CuHnca"} : ~EndsWith(s \o "ica", f)
      /\ EndsWith(s \o "Cu'nca", "Cu'nca")
    BY InstrumentalEnds
<1>10. TypeEndings = {"Cunca", "Cu'nca", "CuHnca"} \cup {"ica", "nca", "rca"}
    BY DEF TypeEndings
<1> HIDE DEF s, instr
<1>11. ASSUME t = 1 PROVE DetectType(g) = t
    BY <1>6, <1>7, <1>8, <1>9, <1>10, <1>11 DEF Ends
<1>12. ASSUME t = 2 PROVE DetectType(g) = t
    BY <1>6, <1>7, <1>8, <1>9, <1>12 DEF Ends
<1>13. ASSUME t = 3 PROVE DetectType(g) = t
    BY <1>6, <1>7, <1>8, <1>9, <1>13 DEF Ends
<1>14. ASSUME t = 4 PROVE DetectType(g) = t
    BY <1>6, <1>7, <1>8, <1>9, <1>14 DEF Ends
<1> QED BY <1>11, <1>12, <1>13, <1>14 DEF g, forms, typed

(* What the rules of declension make of the words of the table is read     *)
(* back, whatever the words: lemmatisation finds the row of the word, and  *)
(* the detection of the type the type, though each has endings of its own. *)
THEOREM FormsAreReadBack ==
    ASSUME NoneIsApart
    PROVE  Spec => []FormsLeadBack
<1>1. IInv => FormsLeadBack
  <2> SUFFICES ASSUME IInv, NEW r \in Rows
               PROVE  WordFoundAgain(r) /\ TypeFoundAgain(r.entry.word)
      BY DEF FormsLeadBack
  <2>1. TableOK
      BY DEF IInv
  <2>2. r.entry.word \in AllWords
      BY <2>1 DEF TableOK, Rows
  <2> QED BY <2>1, <2>2, RowFoundAgain, TypesAreFoundAgain
<1> QED BY <1>1, IInvariant, PTL

----------------------------------------------------------------------------
(* The action property. *)

(* Whatever the originals, cleaning one changes nothing but the order of   *)
(* the entries parsed from it, and of Ismailov, whose parsers put          *)
(* articles together in their order, nothing of what is told of any word   *)
(* and class.                                                              *)
THEOREM CleaningOriginalsIsSafe ==
    ASSUME NoneIsApart
    PROVE  Spec => CleanOriginalIsSafe
<1> DEFINE Alike == \A d \in Dict \ HandWritten :
               SameParsed(d, ParseDictionary(d, raw[d]), ParseDictionary(d, raw'[d]))
<1>1. ASSUME IInv, NEW c \in Dict, CleanOriginal(c) PROVE Alike
  <2> SUFFICES ASSUME NEW d \in Dict \ HandWritten
               PROVE  SameParsed(d, ParseDictionary(d, raw[d]), ParseDictionary(d, raw'[d]))
      OBVIOUS
  <2>1. raw \in Library /\ raw' = [raw EXCEPT ![c] = DeduplicateAndSort(raw[c])]
      BY <1>1 DEF IInv, FilesOK, CleanOriginal
  <2>2. CASE d # c
    <3>1. raw'[d] = raw[d]
        BY <2>1, <2>2
    <3> QED BY <3>1 DEF SameParsed
  <2>3. CASE d = c
    <3> DEFINE a == raw[d]
               b == DeduplicateAndSort(a)
    <3>1. raw'[d] = b
        BY <2>1, <2>3 DEF Dict
    <3>2. d \in Slug /\ IsList(a) /\ \A x \in Range(a) : IsMarkup(d, x)
        BY <2>1, LibraryIsClosed, LibraryIsWritten DEF Dict
    <3>3. d = "ismailov-nah-ru" => AreCeRu(a)
        BY <3>2 DEF AreCeRu, IsMarkup
    <3>4. d = "ismailov-ru-nah" => AreRuCe(a)
        BY <3>2 DEF AreRuCe, IsMarkup
    <3>5. IsList(b) /\ Range(b) \subseteq Range(a) /\ Range(Dedup(b)) = Range(Dedup(a))
        BY <3>2, CleanedHasSame
    <3> HIDE DEF a, b
    <3>6. CASE d \in IsmailovSlugs
      <4>1. Told(ParseDictionary(d, a)) = Told(ParseDictionary(d, b))
          BY <3>2, <3>3, <3>4, <3>5, <3>6, SameTold
      <4> QED BY <3>1, <3>6, <4>1 DEF SameParsed, a
    <3>7. CASE d \notin IsmailovSlugs
      <4>1. Range(ParseDictionary(d, a)) = Range(ParseDictionary(d, b))
          BY <3>2, <3>5, <3>7, SameEntries
      <4> QED BY <3>1, <3>7, <4>1 DEF SameParsed, a
    <3> QED BY <3>6, <3>7
  <2> QED BY <2>2, <2>3
<1>2. IInv /\ [Next]_vars => [raw' # raw => Alike]_vars
  <2> SUFFICES ASSUME IInv, Next, raw' # raw PROVE Alike
      BY DEF vars
  <2>1. \E c \in Dict : CleanOriginal(c)
      BY DEF Next, Parse, UnifyStep, Improve, Load, ImproveEntries
  <2> HIDE DEF Alike
  <2> QED BY <1>1, <2>1
<1> QED BY <1>2, IInvariant, PTL DEF Spec, CleanOriginalIsSafe

=============================================================================
