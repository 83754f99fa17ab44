------------------------------- MODULE Parsers -------------------------------
(* How the articles of a dictionary become entries: the parsers of 12 of   *)
(* the dictionaries (src/merge/parsers). The markup of an article is left  *)
(* out: an article is a record [id, word, word1, text, entry] where word,  *)
(* word1 and text hold what the parser of its dictionary finds in these    *)
(* fields, and entry is an entry written by hand (None in an article).     *)
EXTENDS MergeEntries

Joined(s, mark) ==
    FoldLeft(LAMBDA sofar, x : IF sofar = "" THEN x ELSE sofar \o mark \o x, "", s)
Known(x) == x # None
FirstOf(s, default) == IF s = <<>> THEN default ELSE Head(s)
SomeOrNone(s) == IF s = <<>> THEN None ELSE s
NonEmpty(w) == IF w = "" THEN None ELSE w

----------------------------------------------------------------------------
(* What the parsers share (utils.ts).                                      *)

(* Seeded bug: articles are one when they are about one word. *)
DedupByWord(raws) ==
    FoldLeft(LAMBDA sofar, r : IF \E x \in Range(sofar) : <<x.id, x.word>> = <<r.id, r.word>>
                               THEN sofar ELSE Append(sofar, r),
             <<>>, raws)

ArticleKey(r) == <<r.id, r.word, r.text>>
Dedup(raws) == AppendNew(ArticleKey, <<>>, raws)

(* cleanOriginal rewrites the file of a dictionary without repeated        *)
(* articles, in the order of their ids; 0 is an article without id.        *)
InsertById(sorted, r) ==
    Append(Filter(sorted, LAMBDA x : x.id <= r.id), r) \o Filter(sorted, LAMBDA x : ~(x.id <= r.id))
DeduplicateAndSort(raws) == FoldLeft(InsertById, <<>>, Dedup(raws))

(* The letters of the classes; yu stands for the class of j. *)
ClassMap == [v |-> "vu", j |-> "ju", d |-> "du", b |-> "bu", U |-> "ju"]
ExpandClass(letter) == IF letter \in DOMAIN ClassMap THEN ClassMap[letter] ELSE None
ExpandClassCompound(letters) ==
    LET classes == Each(ExpandClass, letters)
    IN  IF None \in Range(classes) THEN None ELSE Joined(classes, "/")

(* A sample of POS_MAP. *)
NahPos == [noun |-> "c1erdoS", verb |-> "xandoS", adj |-> "bilgaldoS", num |-> "teraxdoS"]
PosName == [noun |-> "suS.", verb |-> "gl.", adj |-> "pril.", num |-> "Cisl."]
PosToNah(pos) ==
    LET named == {p \in DOMAIN PosName : PosName[p] = pos}
    IN  IF named = {} THEN None ELSE NahPos[CHOOSE p \in named : TRUE]

StripStressMarks(w) == MapChars(LAMBDA c : IF c = "~" THEN "" ELSE c, w)
LowerFirst(w) == IF w = "" THEN w ELSE LowerChar(Char(w, 1)) \o SubSeq(w, 2, Len(w))
Plain(t) == [t EXCEPT !.body = StripStressMarks(@), !.pad = FALSE]

(* extractExamples: a pair needs its Chechen side only. *)
ExtractExamples(pairs) == Filter(pairs, LAMBDA p : ~IsBlank(p.nah))

NahSide(p) == p.nah

(* extractDashExamples: pairs with the dash in the bold text, then those   *)
(* with the dash outside, if their Chechen side is new.                    *)
ExtractDashExamples(pairs) ==
    LET full == Filter(pairs, LAMBDA p : ~IsBlank(p.nah) /\ ~IsBlank(p.ru))
        Side(out) == Each(LAMBDA p : Phrase(p.nah, p.ru), Filter(full, LAMBDA p : p.outside = out))
    IN  AppendNew(NahSide, Side(FALSE), Side(TRUE))

MeaningWith(translation, note, examples) ==
    [Meaning(translation) EXCEPT !.note = note, !.examples = SomeOrNone(examples)]

(* An entry with the given fields, the others absent. *)
NewEntry(word, fields, meanings) ==
    [ParsedEntry(word) EXCEPT
        !.info = [f \in Scalar |-> IF f \in DOMAIN fields THEN fields[f] ELSE None],
        !.meanings = meanings]

WithForms(e, grammar) == [e EXCEPT !.grammar = grammar]
WithPhrases(e, number, phrases) == [e EXCEPT !.homonym = number, !.phraseology = phrases]

(* The entries of the articles that have one. *)
ParseEach(Article(_), raws) ==
    LET all == [i \in DOMAIN raws |-> Article(raws[i])] IN Filter(all, Known)

----------------------------------------------------------------------------
(* Computer dictionary. word: [text, classes], where classes are the pairs *)
(* <<letters, plural letter>> in parentheses after it; text: [class,       *)
(* gloss, pairs].                                                          *)

PairClass(pair) ==
    IF Len(pair[1]) > 1 THEN ExpandClassCompound(pair[1]) ELSE ExpandClass(Head(pair[1]))

(* Of two pairs the second counts: that of the inanimate. *)
ExtractClassFromWord(classes) ==
    CASE Len(classes) = 0 -> [sing |-> None, plur |-> None]
      [] Len(classes) = 1 -> [sing |-> PairClass(classes[1]), plur |-> ExpandClass(classes[1][2])]
      [] OTHER -> [sing |-> IF Len(classes[2][1]) > 1 THEN None ELSE PairClass(classes[2]),
                   plur |-> ExpandClass(classes[2][2])]

(* A headword without palochka is taken for Russian.                       *)
IsNahToRu(w) == Chars(w) \cap {"1", "I"} # {}

ComputerArticle(r) ==
    LET headword == IF r.word1 # "" THEN r.word1 ELSE r.word.text
        inWord == ExtractClassFromWord(r.word.classes)
        inText == IF inWord.sing # None \/ r.text.class = None THEN [sing |-> None, plur |-> None]
                  ELSE ExtractClassFromWord(<<r.text.class>>)
        found == ExtractDashExamples(r.text.pairs)
        examples == IF IsNahToRu(headword) THEN found
                    ELSE Each(LAMBDA p : Phrase(p.ru, p.nah), found)
        clean == StripStressMarks(headword)
    IN  IF headword = "" \/ r.broken \/ IsBlank(r.text.gloss) THEN None
        ELSE NewEntry(LowerFirst(clean),
                      [wordAccented |-> IF headword = clean THEN None ELSE headword,
                       nounClass |-> IF inWord.sing # None THEN inWord.sing ELSE inText.sing,
                       nounClassPlural |-> IF inText.plur # None THEN inText.plur ELSE inWord.plur,
                       domain |-> "computer"],
                      << MeaningWith(Plain(r.text.gloss), FALSE, examples) >>)

ParseComputer(raws) == ParseEach(ComputerArticle, Dedup(raws))

----------------------------------------------------------------------------
(* Anatomy, in both directions. text: [gloss, parens, note], where parens  *)
(* are [text, latin]. The last of them with Latin letters is the Latin     *)
(* name, the others stay.                                                  *)

AnatomyArticle(r) ==
    LET latin == {i \in DOMAIN r.text.parens : r.text.parens[i].latin}
        kept == SelectSeq([i \in DOMAIN r.text.parens |->
                              IF latin # {} /\ i = Max(latin) THEN "" ELSE r.text.parens[i].text],
                          LAMBDA p : p # "")
        translation == [r.text.gloss EXCEPT !.body = Joined(SelectSeq(<<@>> \o kept,
                                                                      LAMBDA p : p # ""), " "),
                                            !.pad = FALSE]
    IN  IF r.word = "" \/ IsBlank(translation) THEN None
        ELSE NewEntry(LowerFirst(StripStressMarks(r.word)),
                      [latinName |-> IF latin = {} THEN None ELSE r.text.parens[Max(latin)].text,
                       domain |-> "anatomy"],
                      << MeaningWith(translation, r.text.note, <<>>) >>)

ParseAnatomy(raws) == ParseEach(AnatomyArticle, Dedup(raws))

----------------------------------------------------------------------------
(* Geology (Daukaev). word: [text, tags], where a tag is [mark, desc];     *)
(* text: [gloss, tags], where a tag is [class, rest]. The labels of the    *)
(* meaning are left out.                                                   *)

DaukaevDomain(mark) ==
    CASE mark = "m-l" -> "geology:mineral"
      [] mark = "g.p." -> "geology:rock"
      [] mark = "p.n." -> "geology:paleontology"
      [] OTHER -> "geology"

DaukaevArticle(r) ==
    LET marks == SelectSeq([i \in DOMAIN r.word.tags |-> r.word.tags[i].mark], Known)
        classes == SelectSeq([i \in DOMAIN r.text.tags |-> r.text.tags[i].class], Known)
        rest == SelectSeq([i \in DOMAIN r.text.tags |-> r.text.tags[i].rest], LAMBDA t : t # "")
        words == SelectSeq(<<r.text.gloss.body>> \o rest, LAMBDA t : t # "")
        translation == Plain([r.text.gloss EXCEPT !.body = Joined(words, " ")])
    IN  IF r.word.text = "" \/ IsBlank(translation) THEN None
        ELSE NewEntry(StripStressMarks(r.word.text),
                      [nounClass |-> FirstOf(classes, None),
                       domain |-> DaukaevDomain(FirstOf(marks, None))],
                      << MeaningWith(translation, \E t \in Range(r.word.tags) : t.desc, <<>>) >>)

ParseDaukaev(raws) == ParseEach(DaukaevArticle, Dedup(raws))

----------------------------------------------------------------------------
(* Collected words and neologisms: written by hand, not deduplicated.      *)

CollectedArticle(r) ==
    IF r.entry # None
    THEN IF r.entry.word = "" \/ r.entry.meanings = <<>> THEN None ELSE r.entry
    ELSE IF r.word = "" \/ IsBlank(r.text) THEN None
    ELSE NewEntry(r.word, <<>>, << Meaning(Trim(r.text)) >>)

ParseCollected(raws) == ParseEach(CollectedArticle, raws)

NeologismArticle(r) ==
    LET e == CollectedArticle(r)
    IN  IF e = None THEN None
        ELSE [e EXCEPT !.info["styleLabel"] = IF @ = None THEN "Neol" ELSE @]

ParseNeologisms(raws) == ParseEach(NeologismArticle, raws)

----------------------------------------------------------------------------
(* Mathematics (Umarhadjiev). word: [text, number, class]; text: [grammar, *)
(* ref, numbered, segments], where grammar is None or [plural, forms], ref *)
(* the word of a cross-reference and a segment is [gloss, pairs].          *)

ObliqueForms(forms) ==
    LET slots == << "genitive", "dative", "ergative", "instrumental" >>
        At(s) == {i \in DOMAIN forms : i <= 4 /\ slots[i] = s}
    IN  [s \in Range(slots) |-> IF At(s) = {} THEN None
                                ELSE NonEmpty(StripStressMarks(forms[Max(At(s))]))]

GrammarOf(plural, forms) ==
    [s \in GrammarSlot |->
        IF s = "plural" THEN NonEmpty(StripStressMarks(plural))
        ELSE IF s \in DOMAIN ObliqueForms(forms) THEN ObliqueForms(forms)[s] ELSE None]

(* A segment without gloss is dropped; if none has one, the text counts as *)
(* one, of which the numbers are left; without numbers, its examples are   *)
(* its meanings.                                                           *)
UmarhadjievMeanings(t) ==
    LET glossed == Filter(t.segments, LAMBDA s : ~IsBlank(s.gloss))
        pairs == FoldLeft(LAMBDA sofar, s : sofar \o s.pairs, <<>>, t.segments)
        examples == ExtractExamples(pairs)
    IN  IF glossed # <<>>
        THEN Each(LAMBDA s : MeaningWith(Plain(s.gloss), FALSE, ExtractExamples(s.pairs)), glossed)
        ELSE IF t.numbered THEN << MeaningWith(Text("1"), FALSE, examples) >>
        ELSE Each(LAMBDA p : MeaningWith(p.ru, FALSE, << p >>), examples)

Numerals == {"odin", "dva", "sto"}

(* The number of a homonym is cut off and forgotten. *)
UmarhadjievArticle(r) ==
    LET crossed == r.text.ref # None
        meanings == IF crossed THEN << MeaningWith(Text(r.text.ref), TRUE, <<>>) >>
                    ELSE UmarhadjievMeanings(r.text)
        pos == IF ~crossed /\ meanings # <<>> /\ Lower(Head(meanings).translation).body \in Numerals
               THEN "Cisl." ELSE None
        g == r.text.grammar
    IN  IF r.word.text = "" \/ meanings = <<>> THEN None
        ELSE WithForms(NewEntry(StripStressMarks(r.word.text),
                                [partOfSpeech |-> pos, partOfSpeechNah |-> PosToNah(pos),
                                 nounClass |-> ExpandClass(r.word.class), domain |-> "math"],
                                meanings),
                       IF g = None THEN None ELSE GrammarOf(g.plural, g.forms))

ParseUmarhadjiev(raws) == ParseEach(UmarhadjievArticle, Dedup(raws))

----------------------------------------------------------------------------
(* Law (Abdurashidov). The fields of an article are already apart: text is *)
(* None and more is [section, translation, class, plural, forms, wordNote, *)
(* translationNote, obsolete, subs], where class is a sequence of letters, *)
(* plural None or <<word, letter>>, translationNote "" if there is none.   *)

ParseClassString(letters) ==
    LET classes == SelectSeq(Each(ExpandClass, letters), Known)
        unique == AppendNew(LAMBDA c : c, <<>>, classes)
    IN  IF unique = <<>> THEN None ELSE Joined(unique, "/")

SubEntries(subs) == Filter(subs, LAMBDA p : ~(p.nah = Text("") /\ p.ru = Text("")))

(* Of sub-entries that are all blank an empty list of examples is left.    *)
LawMeaning(translation, note, subs, examples) ==
    [Meaning(translation) EXCEPT !.note = note,
                                 !.examples = IF subs = <<>> THEN None ELSE examples]

CeRuGrammar(more) ==
    IF more.plural = None /\ more.forms = <<>> THEN None
    ELSE GrammarOf(IF more.plural = None THEN "" ELSE more.plural[1], more.forms)

CeRuArticle(r) ==
    LET noted == IF r.more.translationNote = "" \/ HasPart(r.more.translation.body, r.more.translationNote)
                 THEN r.more.translation
                 ELSE [r.more.translation EXCEPT !.body = @ \o " (" \o r.more.translationNote \o ")"]
    IN  IF r.word = "" THEN None
        ELSE WithForms(
                 NewEntry(r.word,
                          [nounClass |-> ParseClassString(r.more.class),
                           nounClassPlural |->
                               IF r.more.plural = None THEN None ELSE ExpandClass(r.more.plural[2]),
                           domain |-> "law",
                           styleLabel |-> IF r.more.obsolete THEN "ust" ELSE None],
                          IF r.more.translation = None THEN <<>>
                          ELSE << LawMeaning(noted, r.more.wordNote, r.more.subs,
                                            SubEntries(r.more.subs)) >>),
                 CeRuGrammar(r.more))

(* The sides of an article and of its sub-entries change places. *)
RuCeArticle(r) ==
    IF r.word = "" \/ r.more.translation = None \/ IsBlank(r.more.translation) THEN None
    ELSE NewEntry(r.more.translation.body,
                  [nounClass |-> ParseClassString(r.more.class), domain |-> "law"],
                  << LawMeaning(Text(r.word), r.more.translationNote # "", r.more.subs,
                                Each(LAMBDA p : Phrase(p.ru, p.nah), SubEntries(r.more.subs))) >>)

AbdurashidovArticle(r) ==
    IF r.more.section = "ru_ce" THEN RuCeArticle(r) ELSE CeRuArticle(r)

ParseAbdurashidov(raws) == ParseEach(AbdurashidovArticle, raws)

----------------------------------------------------------------------------
(* Karasaev and Maciev, from Russian. word, word1: [stem, number], number  *)
(* 0 if none; text: [tags, numbered, segments, phrases]. A tag in italics  *)
(* is [kind, value, see]: a part of speech, a marker (of gender or         *)
(* aspect), a label or see, and whether it also says see. A segment is     *)
(* [tags, refs, deriv, gloss, pairs]: the words it refers to, what it is   *)
(* derived from (None or a text), the text outside examples, the examples. *)

SeeTag == [kind |-> "see", value |-> None, see |-> TRUE]

TakeTag(tags, kind) ==
    IF tags = <<>> \/ FirstOf(tags, SeeTag).kind # kind THEN [value |-> None, rest |-> tags]
    ELSE [value |-> Head(tags).value,
          rest |-> (IF Head(tags).see THEN << SeeTag >> ELSE <<>>) \o Tail(tags)]

(* The part of speech is looked for in the whole text, but the first tag   *)
(* of the text is removed for it, whatever it says.                        *)
ExtractPartOfSpeech(t) ==
    LET all == t.tags \o FlattenSeq([i \in DOMAIN t.segments |-> t.segments[i].tags])
        named == SelectSeq(all, LAMBDA tag : tag.kind = "pos")
    IN  IF named = <<>> THEN None ELSE Head(named).value

DropFirstTag(t) ==
    LET tagged == {i \in DOMAIN t.segments : t.segments[i].tags # <<>>}
    IN  IF t.tags # <<>> THEN [t EXCEPT !.tags = Tail(@)]
        ELSE IF tagged = {} THEN t ELSE [t EXCEPT !.segments[Min(tagged)].tags = Tail(@)]

MarkerPos == [gender |-> "suS.", aspect |-> "gl."]

IsGarbage(t) == Len(t.body) < 2 \/ t.body \in {"ili", "tZ"}
ExtractRuNahExamples(pairs) ==
    Filter(pairs, LAMBDA p : ~IsBlank(p.ru) /\ ~IsGarbage(p.nah))

(* A segment that is a derivation and nothing else has no note; before a   *)
(* gloss the derivation is lost. Without gloss the note stands for it, or  *)
(* else all the text of the segment.                                       *)
SegmentMeaning(s) ==
    LET labelled == TakeTag(TakeTag(s.tags, "marker").rest, "label")
        notes == (IF labelled.value = None THEN <<>> ELSE << labelled.value >>) \o
                 (IF s.refs = <<>> THEN <<>> ELSE << "sm. " \o Joined(s.refs, ", ") >>)
        pieces == (IF s.deriv = None THEN <<>> ELSE << s.deriv.body >>) \o
                  FlattenSeq([i \in DOMAIN s.pairs |-> << s.pairs[i].ru.body, s.pairs[i].nah.body >>])
        instead == IF notes # <<>> THEN Joined(notes, " ") ELSE Joined(pieces, " ")
    IN  IF s.deriv # None /\ IsBlank(s.gloss) /\ s.pairs = <<>> THEN Meaning(s.deriv)
        ELSE MeaningWith(IF IsBlank(s.gloss) THEN Text(instead) ELSE Plain(s.gloss),
                         notes # <<>> /\ ~IsBlank(s.gloss),
                         ExtractRuNahExamples(s.pairs))

HoldsText(s) == \/ s.tags # <<>> \/ s.refs # <<>> \/ s.deriv # None
                \/ s.pairs # <<>> \/ ~IsBlank(s.gloss)

(* What stands before the first number is lost with its tags.              *)
ParseMeanings(t, tags) ==
    LET segments == IF t.numbered THEN Filter(t.segments, HoldsText)
                    ELSE << [Head(t.segments) EXCEPT !.tags = tags \o @] >>
    IN  IF segments = <<>> THEN << Meaning(Text("1)")) >> ELSE Each(SegmentMeaning, segments)

KarasaevArticle(r) ==
    LET raw == IF r.word1 # None THEN r.word1 ELSE r.word
        named == ExtractPartOfSpeech(r.text)
        t == IF named = None THEN r.text ELSE DropFirstTag(r.text)
        marker == TakeTag(t.tags, "marker")
        style == TakeTag(marker.rest, "label")
        pos == IF named # None THEN named
               ELSE IF marker.value # None THEN MarkerPos[marker.value] ELSE None
    IN  IF raw.stem \in {"", "-[", "3"} THEN None
        ELSE WithPhrases(
                 NewEntry(StripStressMarks(raw.stem),
                          [wordAccented |-> IF r.word = raw THEN None ELSE NonEmpty(r.word.stem),
                           partOfSpeech |-> pos, partOfSpeechNah |-> PosToNah(pos),
                           styleLabel |-> style.value],
                          ParseMeanings(t, style.rest)),
                 raw.number, SomeOrNone(ExtractRuNahExamples(r.text.phrases)))

ParseKarasaev(raws) == ParseEach(KarasaevArticle, Dedup(raws))

----------------------------------------------------------------------------
(* Ismailov, in both directions. Parts of speech of single meanings, other *)
(* spellings of a word and the class of a plural are left out. From        *)
(* Chechen, word: [words, class, parens], class the parts of [..-..], if   *)
(* any; text: [lead, class, pos, gloss, pairs], where lead is None or the  *)
(* plural and class before the dash, class what else is in parentheses. To *)
(* Chechen, text is the sequence of the meanings, each [gloss, suffix,     *)
(* class].                                                                 *)

NormalizeSingleClass(part) == IF part = "U" THEN "ju" ELSE IF part = "b" THEN "bu" ELSE part

(* Of several classes the last is that of the plural. *)
ParseClassBracket(parts) ==
    LET classes == Each(NormalizeSingleClass, parts)
    IN  CASE Len(parts) = 0 -> [sing |-> None, plur |-> None]
          [] Len(parts) = 1 -> [sing |-> classes[1], plur |-> classes[1]]
          [] OTHER -> [sing |-> Joined(Front(classes), "/"), plur |-> Last(classes)]

PluralOnly(plural) == IF plural = "" THEN None ELSE [NoGrammar EXCEPT !["plural"] = plural]

(* A meaning an entry has already gives its examples to it. *)
AddSense(meanings, m) ==
    LET same == {i \in DOMAIN meanings : meanings[i].translation = m.translation}
    IN  IF IsBlank(m.translation) \/ same = {} THEN Append(meanings, m)
        ELSE IF m.examples = None THEN meanings
        ELSE [meanings EXCEPT ![Min(same)].examples = IF @ = None THEN m.examples ELSE @ \o m.examples]

(* An entry is of one sense, until entries of one word and class are one. *)
IsmailovEntry(word, class, grammar, sense) ==
    WithForms(NewEntry(word, [nounClass |-> class.sing, nounClassPlural |-> class.plur],
                       << sense >>),
              grammar)

(* What a second entry of a word and class adds to the first. *)
AddToEntry(t, e) ==
    [t EXCEPT !.info = FirstWins(@, e.info),
              !.grammar = IF @ = None THEN e.grammar ELSE @,
              !.meanings = AddSense(@, Head(e.meanings))]

(* entryMap: entries of one word and class are one. *)
AddByClass(entries, e) ==
    LET same == {i \in DOMAIN entries : /\ entries[i].word = e.word
                                        /\ entries[i].info["nounClass"] = e.info["nounClass"]}
    IN  IF same = {} THEN Append(entries, e)
        ELSE [entries EXCEPT ![Min(same)] = AddToEntry(@, e)]

(* The class is looked for in the word, before the dash, in the text: what *)
(* is looked for no more stays in the translation.                         *)
IsmailovCeRuArticle(r) ==
    LET inWord == ParseClassBracket(r.word.class)
        words == [i \in DOMAIN r.word.words |->
                     LET w == StripStressMarks(r.word.words[i]) IN IF i = 1 THEN LowerFirst(w) ELSE w]
        word == Joined(words, " ")
        lead == IF inWord.sing = None THEN r.text.lead ELSE None
        classed == inWord.sing = None /\ lead = None
        class == IF inWord.sing # None THEN inWord
                 ELSE ParseClassBracket(IF lead # None THEN lead.class ELSE r.text.class)
        plural == IF inWord.sing # None THEN FirstOf(r.word.parens, "")
                  ELSE IF lead # None THEN Joined(Front(words) \o << lead.plural >>, " ") ELSE ""
        left == (IF lead = None /\ r.text.lead # None
                 THEN << r.text.lead.plural, Joined(r.text.lead.class, "-") >> ELSE <<>>)
                \o << r.text.gloss.body >>
                \o (IF classed THEN <<>> ELSE r.text.class)
        translation == Plain([r.text.gloss EXCEPT !.body = Joined(SelectSeq(left, LAMBDA t : t # ""), " ")])
        examples == Filter(r.text.pairs, LAMBDA p : ~IsBlank(p.nah) /\ ~IsBlank(p.ru))
    IN  IF word = "" \/ (IsBlank(translation) /\ r.text.pos = None /\ examples = <<>>) THEN None
        ELSE IsmailovEntry(word, class, PluralOnly(plural), MeaningWith(translation, FALSE, examples))

ParseIsmailovCeRu(raws) == FoldLeft(AddByClass, <<>>, ParseEach(IsmailovCeRuArticle, Dedup(raws)))

(* The suffix of the plural is put behind the translation. *)
IsmailovRuCeEntry(word, m) ==
    LET class == ParseClassBracket(m.class)
        translation == Plain(m.gloss)
    IN  IF word = "" \/ IsBlank(translation) THEN None
        ELSE IsmailovEntry(StripStressMarks(word), class,
                           IF m.suffix = "" THEN None ELSE PluralOnly(translation.body \o m.suffix),
                           Meaning(translation))

ParseIsmailovRuCe(raws) ==
    LET Entries(r) == ParseEach(LAMBDA m : IsmailovRuCeEntry(r.word, m), r.text)
    IN  FoldLeft(LAMBDA sofar, r : FoldLeft(AddByClass, sofar, Entries(r)), <<>>, Dedup(raws))

----------------------------------------------------------------------------
(* Sport (Aslahanov). text: [lemma, parens, block, inside, extra, rest]:   *)
(* block is None or the grammar [sing, plur, plural, forms] with letters   *)
(* of classes, inside says that it stands in parentheses, parens that      *)
(* there are any; extra is [classes, plural], which are looked for in the  *)
(* rest.                                                                   *)

ClassesOf(letters) == AppendNew(LAMBDA c : c, <<>>, SelectSeq(Each(ExpandClass, letters), Known))
JoinedClasses(classes) == IF classes = <<>> THEN None ELSE Joined(classes, "/")

(* Classes in the rest are put behind those of the block, which count as   *)
(* one, and are then those of the plural too.                              *)
MergeExtraGrammar(class, letters) ==
    LET all == AppendNew(LAMBDA c : c, IF class.sing = None THEN <<>> ELSE << class.sing >>,
                         ClassesOf(letters))
    IN  IF letters = <<>> \/ all = <<>> THEN class
        ELSE [sing |-> Joined(all, "/"), plur |-> Joined(all, "/")]

(* A mark of class outside parentheses makes all of the text a grammar: if *)
(* there are no parentheses before it, no translation is left.             *)
AslahanovTranslation(t) ==
    IF t.block = None THEN Plain(t.lemma)
    ELSE IF ~t.inside THEN IF t.parens THEN Plain(t.lemma) ELSE Text("")
    ELSE Plain([t.lemma EXCEPT !.body = Joined(SelectSeq(<< @, t.rest >>, LAMBDA p : p # ""), " ")])

AslahanovBlock(t) ==
    IF t.block = None THEN [sing |-> <<>>, plur |-> <<>>, plural |-> "", forms |-> <<>>]
    ELSE t.block
AslahanovExtra(t) ==
    IF t.block # None /\ t.inside THEN t.extra ELSE [classes |-> <<>>, plural |-> ""]

AslahanovGrammar(t) ==
    LET b == AslahanovBlock(t)
        plural == IF b.plural # "" THEN b.plural ELSE AslahanovExtra(t).plural
    IN  IF plural = "" /\ b.forms = <<>> /\ ClassesOf(b.plur) = <<>> THEN None
        ELSE GrammarOf(plural, b.forms)

AslahanovArticle(r) ==
    LET headword == IF r.word1 # None THEN r.word1 ELSE r.word
        t == r.text
        b == AslahanovBlock(t)
        class == MergeExtraGrammar([sing |-> JoinedClasses(ClassesOf(b.sing)),
                                    plur |-> JoinedClasses(ClassesOf(b.plur))],
                                   AslahanovExtra(t).classes)
    IN  IF headword = "" \/ IsBlank(AslahanovTranslation(t)) THEN None
        ELSE WithForms(NewEntry(StripStressMarks(headword),
                                [nounClass |-> class.sing, nounClassPlural |-> class.plur,
                                 domain |-> "sport"],
                                << Meaning(AslahanovTranslation(t)) >>),
                       AslahanovGrammar(t))

ParseAslahanov(raws) == ParseEach(AslahanovArticle, Dedup(raws))

----------------------------------------------------------------------------
(* getParser, for the dictionaries whose parsers are here. *)
Slug == {"karasaev-maciev-ru-nah", "daukaev-ru-nah", "abdurashidov", "umarhadjiev-ahmatukaev",
         "nah-ru-anatomy", "ru-nah-anatomy", "nah-ru-computer", "ismailov-nah-ru",
         "ismailov-ru-nah", "aslahanov-ru-nah", "collected", "neologisms"}

ParseDictionary(slug, raws) ==
    CASE slug = "karasaev-maciev-ru-nah" -> ParseKarasaev(raws)
      [] slug = "daukaev-ru-nah" -> ParseDaukaev(raws)
      [] slug = "abdurashidov" -> ParseAbdurashidov(raws)
      [] slug = "umarhadjiev-ahmatukaev" -> ParseUmarhadjiev(raws)
      [] slug \in {"nah-ru-anatomy", "ru-nah-anatomy"} -> ParseAnatomy(raws)
      [] slug = "nah-ru-computer" -> ParseComputer(raws)
      [] slug = "ismailov-nah-ru" -> ParseIsmailovCeRu(raws)
      [] slug = "ismailov-ru-nah" -> ParseIsmailovRuCe(raws)
      [] slug = "aslahanov-ru-nah" -> ParseAslahanov(raws)
      [] slug = "collected" -> ParseCollected(raws)
      [] slug = "neologisms" -> ParseNeologisms(raws)

=============================================================================
