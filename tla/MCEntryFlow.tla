----------------------------- MODULE MCEntryFlow -----------------------------
(* Original dictionaries small enough for TLC: four sets of them, each     *)
(* with words the dictionaries share and the cases that make merging,      *)
(* cleaning and loading go wrong.                                          *)
EXTENDS EntryFlow

Article(id, word, text) ==
    [id |-> id, word |-> word, word1 |-> None, text |-> text, entry |-> None]
ByHand(entry) == [id |-> 0, word |-> entry.word, word1 |-> None, text |-> None, entry |-> entry]

T(body) == Text(body)
Capital(body) == [Text(body) EXCEPT !.upper = TRUE, !.pad = TRUE]
Long(body, far) == [Text(body) EXCEPT !.mid = "more", !.far = far]
Pair(nah, ru) == Phrase(T(nah), T(ru))

Entry(word, homonym, class, pos, meanings) ==
    [ParsedEntry(word) EXCEPT !.homonym = homonym, !.info["nounClass"] = class,
                              !.info["partOfSpeech"] = pos, !.meanings = meanings]
With(translation, examples) == [Meaning(translation) EXCEPT !.examples = examples]

----------------------------------------------------------------------------
(* Words by hand and of computers: a word in two writings, one of them     *)
(* with a character of no width; homonyms; a repeated translation; broken  *)
(* examples and phrases, and lists of none; grammar with given and missing *)
(* forms.                                                                  *)

Grammar == [NoGrammar EXCEPT !["instrumental"] = "niCu'nca", !["plural"] = "nexaS",
                             !["pluralDative"] = "nexana"]

Collected == <<
    ByHand([Entry("neka", 1, "vu", "suS.",
                  << With(T("man"), << Pair("neka", "neka"), Pair("neka vu", "a man") >>),
                     With(Capital("man"), << Pair("neka du", "men") >>),
                     With(T(""), <<>>) >>)
            EXCEPT !.grammar = Grammar, !.phraseology = << Pair("neka", "") >>]),
    ByHand([Entry("neka", 2, None, "gl.", << [Meaning(T("")) EXCEPT !.note = TRUE] >>)
            EXCEPT !.grammar = [NoGrammar EXCEPT !["verbPresent"] = "neku",
                                                 !["verbPast"] = "nekna"]]),
    ByHand([Entry("b1ov^", 0, "bu", None, << With(Long("tower", "a"), << Pair("b1ov", "tower") >>),
                                            Meaning(Long("tower", "b")) >>)
            EXCEPT !.info["styleLabel"] = "prost", !.phraseology = <<>>,
                   !.citations = << Long("verse", "x"), T("") >>]) >>

Neologisms == << ByHand(Entry("neka", 1, "vu", None, << With(T("man"), << Pair("neka", "he") >>) >>)),
                 Article(2, "b1ov", T("rook")) >>

Computer == <<
    [id |-> 7, word |-> [text |-> "b1o~v", classes |-> << << <<"b">>, "d" >> >>], word1 |-> "",
     broken |-> FALSE, entry |-> None,
     text |-> [class |-> None, gloss |-> T("tower"),
               pairs |-> << [nah |-> T("b1ov lar"), ru |-> T("tower case"), outside |-> TRUE],
                            [nah |-> T("b1ov lar"), ru |-> T("case"), outside |-> FALSE] >>]],
    [id |-> 5, word |-> [text |-> "redaktor", classes |-> << << <<"v", "j">>, "b" >>, << <<"j">>, "j" >> >>],
     word1 |-> "redaktor", broken |-> FALSE, entry |-> None,
     text |-> [class |-> None, gloss |-> T("editor"), pairs |-> <<>>]] >>

----------------------------------------------------------------------------
(* From Russian: the same word as a noun without class, as a mineral, and  *)
(* as a term of law in both directions; repeated and unsorted articles.    *)

Tag(kind, value, see) == [kind |-> kind, value |-> value, see |-> see]
Segment(tags, refs, gloss, pairs) ==
    [tags |-> tags, refs |-> refs, deriv |-> None, gloss |-> gloss, pairs |-> pairs]
Karasaev == <<
    Article(9, [stem |-> "mel", number |-> 0],
            [tags |-> << Tag("marker", "gender", FALSE) >>, numbered |-> TRUE,
             segments |-> << Segment(<<>>, <<>>, T("maxka"), << Pair("maxka tas", "mel belyj") >>),
                             Segment(<< Tag("label", "perr", TRUE) >>, << "melok" >>, T(""), <<>>) >>,
             phrases |-> << Pair("i", "mel"), Pair("maxka sanna", "kak mel") >>]),
    Article(4, [stem |-> "me~l", number |-> 2],
            [tags |-> << Tag("pos", "pril.", FALSE), Tag("label", "ust", FALSE) >>, numbered |-> FALSE,
             segments |-> << [Segment(<<>>, <<>>, T(""), <<>>) EXCEPT !.deriv = T("ot meloC")] >>,
             phrases |-> <<>>]),
    Article(9, [stem |-> "mel", number |-> 0],
            [tags |-> << Tag("marker", "gender", FALSE) >>, numbered |-> TRUE,
             segments |-> << Segment(<<>>, <<>>, T("maxka"), << Pair("maxka tas", "mel belyj") >>),
                             Segment(<< Tag("label", "perr", TRUE) >>, << "melok" >>, T(""), <<>>) >>,
             phrases |-> << Pair("i", "mel"), Pair("maxka sanna", "kak mel") >>]),
    Article(4, [stem |-> "me~l", number |-> 2],
            [tags |-> <<>>, numbered |-> FALSE,
             segments |-> << Segment(<<>>, <<>>, T("meloC"), <<>>) >>, phrases |-> <<>>]) >>

Daukaev == <<
    Article(2, [text |-> "mel", tags |-> << [mark |-> "g.p.", desc |-> TRUE] >>],
            [gloss |-> Capital("maxka"), tags |-> << [class |-> None, rest |-> "k1ajn"] >>]),
    Article(1, [text |-> "maxka", tags |-> <<>>],
            [gloss |-> T("mel"), tags |-> << [class |-> "du", rest |-> ""] >>]) >>

Law(section, word, translation, class, plural, forms, note, obsolete, subs) ==
    [id |-> 1, word |-> word, word1 |-> None, text |-> None, entry |-> None,
     more |-> [section |-> section, translation |-> translation, class |-> class, plural |-> plural,
               forms |-> forms, wordNote |-> FALSE, translationNote |-> note,
               obsolete |-> obsolete, subs |-> subs]]
Abdurashidov == <<
    Law("ce_ru", "maxka", T("doroga"), << "d" >>, << "maxkaS", "d" >>, << "maxkin", "maxkina" >>, "put'",
        TRUE, << Pair("maxka bar", "put'") >>),
    Law("ru_ce", "mel", T("maxka"), << "d", "b" >>, None, <<>>, "", FALSE, << Pair("", "") >>),
    Law("ce_ru", "xilla", None, <<>>, None, <<>>, "", FALSE, <<>>) >>

----------------------------------------------------------------------------
(* Mathematics and anatomy: homonyms whose numbers are lost, a numeral, a  *)
(* cross-reference, meanings made of examples, names in parentheses.       *)

Umarhadjiev == <<
    Article(1, [text |-> "abade", number |-> 1, class |-> "U"],
            [grammar |-> [plural |-> "abadeS", forms |-> << "abaden", "abadena", "abadeno" >>],
             ref |-> None, numbered |-> TRUE,
             segments |-> << [gloss |-> T("infinity"), pairs |-> << Pair("abade bu", "") >>],
                             [gloss |-> T(""), pairs |-> <<>>] >>]),
    Article(1, [text |-> "abade", number |-> 2, class |-> "U"],
            [grammar |-> None, ref |-> None, numbered |-> FALSE,
             segments |-> << [gloss |-> T(""), pairs |-> << Pair("abade ju", "eternity") >>] >>]),
    Article(2, [text |-> "cxa1", number |-> 0, class |-> None],
            [grammar |-> None, ref |-> None, numbered |-> FALSE,
             segments |-> << [gloss |-> T("odin"), pairs |-> <<>>] >>]),
    Article(3, [text |-> "lar", number |-> 0, class |-> "j"],
            [grammar |-> None, ref |-> "abade", numbered |-> FALSE, segments |-> <<>>]) >>

AnatomyFrom == <<
    Article(8, "lar", [gloss |-> T("trace"), note |-> TRUE,
                       parens |-> << [text |-> "mark", latin |-> FALSE],
                                     [text |-> "vestigium", latin |-> TRUE] >>]),
    Article(3, "1ad", [gloss |-> T("bow"), note |-> FALSE,
                       parens |-> << [text |-> "arcus", latin |-> TRUE] >>]),
    Article(8, "lar", [gloss |-> T("trace"), note |-> TRUE,
                       parens |-> << [text |-> "mark", latin |-> FALSE],
                                     [text |-> "vestigium", latin |-> TRUE] >>]) >>
AnatomyTo == << Article(4, "Iad", [gloss |-> T(""), note |-> TRUE,
                                   parens |-> << [text |-> "arcus", latin |-> TRUE] >>]),
                Article(6, "abade", [gloss |-> T("eternity"), note |-> FALSE, parens |-> <<>>]) >>

----------------------------------------------------------------------------
(* Ismailov and sport: a word with and without class and of several; its   *)
(* plural in the word, before the dash and as a suffix; repeated senses;   *)
(* grammar in and out of parentheses.                                      *)

IsmailovFrom == <<
    Article(5, [words |-> << "lor" >>, class |-> << "vu", "U", "b" >>, parens |-> <<>>],
            [lead |-> None, class |-> <<>>, pos |-> None,
             gloss |-> T("doctor"), pairs |-> << Pair("lor ju", "she is a doctor") >>]),
    Article(3, [words |-> << "lor" >>, class |-> << "vu", "U", "b" >>, parens |-> << "loraS" >>],
            [lead |-> [plural |-> "loraS", class |-> << "bu" >>], class |-> <<>>, pos |-> None,
             gloss |-> T("doctor"), pairs |-> << Pair("lor vu", "a doctor"), Pair("lor", "") >>]),
    Article(3, [words |-> << "lor" >>, class |-> <<>>, parens |-> <<>>],
            [lead |-> None, class |-> <<>>, pos |-> "gl.", gloss |-> T(""), pairs |-> <<>>]),
    Article(4, [words |-> << "b1ar", "lor" >>, class |-> <<>>, parens |-> <<>>],
            [lead |-> [plural |-> "loraS", class |-> << "vu", "bu" >>], class |-> <<>>, pos |-> None,
             gloss |-> T("oculist"), pairs |-> <<>>]),
    Article(6, [words |-> << "lor" >>, class |-> << "vu", "ju", "bu" >>, parens |-> <<>>],
            [lead |-> None, class |-> << "du" >>, pos |-> None, gloss |-> T(""), pairs |-> <<>>]),
    Article(7, [words |-> << "lor" >>, class |-> << "vu", "U", "bu" >>, parens |-> <<>>],
            [lead |-> None, class |-> <<>>, pos |-> None,
             gloss |-> T("doctor"), pairs |-> << Pair("vajn lor", "our doctor") >>]) >>

Sense(gloss, suffix, class) == [gloss |-> gloss, suffix |-> suffix, class |-> class]
IsmailovTo == <<
    Article(2, "lor", << Sense(T("doktor"), "aS", << "vu", "bu" >>), Sense(T("vraC"), "", <<>>) >>),
    Article(2, "lor", << Sense(T("vraC"), "i", <<>>), Sense(T(""), "", << "b" >>) >>) >>

Sport(id, word, lemma, parens, block, inside, classes, rest) ==
    Article(id, word, [lemma |-> lemma, parens |-> parens, block |-> block, inside |-> inside,
                       extra |-> [classes |-> classes, plural |-> "lorxoS"], rest |-> rest])
Aslahanov == <<
    Sport(1, "lor", T("lorxo"), TRUE,
          [sing |-> << "v", "j" >>, plur |-> << "b" >>, plural |-> "", forms |-> << "lorxon", "lorxona" >>],
          TRUE, << "v", "j" >>, "sportan"),
    Sport(2, "topp", T("topp"), FALSE,
          [sing |-> << "j" >>, plur |-> <<>>, plural |-> "", forms |-> <<>>], FALSE, <<>>, ""),
    Sport(3, "lorxo", T("doktor"), FALSE, None, FALSE, <<>>, "") >>

Originals == {
    [slug \in {"ismailov-nah-ru", "ismailov-ru-nah", "aslahanov-ru-nah"} |->
        CASE slug = "ismailov-nah-ru" -> IsmailovFrom
          [] slug = "ismailov-ru-nah" -> IsmailovTo
          [] OTHER -> Aslahanov],
    [slug \in {"collected", "neologisms", "nah-ru-computer"} |->
        CASE slug = "collected" -> Collected
          [] slug = "neologisms" -> Neologisms
          [] OTHER -> Computer],
    [slug \in {"karasaev-maciev-ru-nah", "daukaev-ru-nah", "abdurashidov"} |->
        CASE slug = "karasaev-maciev-ru-nah" -> Karasaev
          [] slug = "daukaev-ru-nah" -> Daukaev
          [] OTHER -> Abdurashidov],
    [slug \in {"umarhadjiev-ahmatukaev", "nah-ru-anatomy", "ru-nah-anatomy"} |->
        CASE slug = "umarhadjiev-ahmatukaev" -> Umarhadjiev
          [] slug = "nah-ru-anatomy" -> AnatomyFrom
          [] OTHER -> AnatomyTo] }

(* With what cleanOriginal can make of some of them. *)
SmallLibrary ==
    UNION {{[d \in DOMAIN r |-> IF d \in cleaned THEN DeduplicateAndSort(r[d]) ELSE r[d]] :
               cleaned \in SUBSET DOMAIN r} : r \in Originals}

=============================================================================
