----------------------------- MODULE WordForms -----------------------------
(* The words of the dictionary and their forms: normalisation, language    *)
(* of a query, declension, lemmatisation and conjugation.                  *)
(*                                                                         *)
(* A word is a string with one character for each Cyrillic letter, in      *)
(* lower case: C and S are che and sha, E, U and A the vowels e, yu, ya, Y *)
(* is yo and j short i, ' and H the soft and the hard sign; 1 is the       *)
(* palochka U+04CF and I the capital one U+04C0, the one upper case that   *)
(* matters; ~ is a combining tilde, ^ a character of no width.             *)
EXTENDS Naturals, Sequences, FiniteSets

CONSTANT None

Char(w, i) == SubSeq(w, i, i)
Chars(w) == {Char(w, i) : i \in 1 .. Len(w)}
EndsWith(w, s) == Len(s) <= Len(w) /\ SubSeq(w, Len(w) - Len(s) + 1, Len(w)) = s
HasPart(w, s) == \E i \in 0 .. (Len(w) - Len(s)) : SubSeq(w, i + 1, i + Len(s)) = s
Drop(w, n) == SubSeq(w, 1, Len(w) - n)

MapChars(F(_), w) ==
    LET mapped[i \in 0 .. Len(w)] == IF i = 0 THEN "" ELSE mapped[i - 1] \o F(Char(w, i))
    IN  mapped[Len(w)]

----------------------------------------------------------------------------
(* Normalisation. Unicode takes short i and yo apart, and what normalizeWord *)
(* does not replace by its table falls with the other marks.               *)
LowerChar(c) == IF c = "I" THEN "1" ELSE c

NormalChar(c) ==
    CASE LowerChar(c) = "1" -> "i"
      [] c = "j" -> "i"
      [] c = "Y" -> "e"
      [] c \in {"H", "~"} -> ""
      [] OTHER -> c

NormalizeWord(w) == MapChars(NormalChar, w)

(* What improve and improve-entries make of a word. *)
VisibleChar(c) == IF c = "^" THEN "" ELSE c
CleanWord(w) == MapChars(VisibleChar, w)

(* U+04C1, which detectLanguage looks for, is not the palochka in upper    *)
(* case.                                                                   *)
DetectLanguage(q) ==
    IF Chars(q) \cap {"1", "~"} # {} THEN "nah"
    ELSE IF Chars(q) \subseteq {"I", "^"} THEN "unknown"
    ELSE "ru"

----------------------------------------------------------------------------
(* Declension. A grammar is a function from the names of forms to forms.   *)

Case == {"genitive", "dative", "ergative", "instrumental", "substantive", "locative",
         "comparative"}

Forms(gen, dat, erg, instr, subst, loc, comp) ==
    [genitive |-> gen, dative |-> dat, ergative |-> erg, instrumental |-> instr,
     substantive |-> subst, locative |-> loc, comparative |-> comp]

Singular == << Forms("an", "na", "o", "ca", "x", "e", "al"),
               Forms("nan", "nna", "no", "nca", "nax", "ne", "nal"),
               Forms("in", "ina", "a", "ica", "ix", "iga", "il"),
               Forms("Cun", "Cunna", "Co", "Cu'nca", "Cux", "Cu'nga", "Cul") >>
PluralOnJ == Forms("n", "Sna", "Sa", "Sca", "x", "Ska", "l")
PluralOnS == Forms("ijn", "na", "a", "ca", "ex", "ka", "el")

(* The name of the plural form of a case in a grammar. *)
PluralOf == [genitive |-> "pluralGenitive", dative |-> "pluralDative",
             ergative |-> "pluralErgative", instrumental |-> "pluralInstrumental",
             substantive |-> "pluralSubstantive", locative |-> "pluralLocative",
             comparative |-> "pluralComparative"]

GrammarSlot == Case \cup {PluralOf[c] : c \in Case} \cup
    {"plural", "declensionType", "obliqueStem", "verbPresent", "verbPast", "verbParticiple"}
NoGrammar == [g \in GrammarSlot |-> None]
Given(grammar, slot, default) == IF grammar[slot] # None THEN grammar[slot] ELSE default

Ends(form, endings) == form # None /\ \E e \in endings : EndsWith(form, e)

DetectType(g) ==
    LET instr == g["instrumental"]
        gen == g["genitive"]
    IN  IF instr # None
        THEN IF Ends(instr, {"Cunca", "Cu'nca", "CuHnca"}) THEN 4
             ELSE IF Ends(instr, {"ica"}) THEN 3
             ELSE IF Ends(instr, {"nca", "rca"}) THEN 2 ELSE 1
        ELSE IF Ends(gen, {"Cun"}) THEN 4 ELSE IF Ends(gen, {"in"}) THEN 3 ELSE 1

GuessObliqueStem(w) ==
    IF Char(w, Len(w)) \in {"a", "e", "Y", "i", "o", "u", "E", "U", "A"} THEN Drop(w, 1) ELSE w

FormCase(stem, type, case) == stem \o Singular[type][case]

FormPluralCase(stem, case) ==
    stem \o (IF EndsWith(stem, "j") THEN PluralOnJ ELSE PluralOnS)[case]

BuildSingular(stem, type, g) ==
    [c \in Case |-> Given(g, c, FormCase(stem, type, c))]
(* Seeded bug: the plural takes the stored forms of the singular. *)
BuildPluralOfSingular(stem, g) ==
    [c \in Case |-> Given(g, c, FormPluralCase(stem, c))]

BuildPlural(stem, g) ==
    [c \in Case |-> Given(g, PluralOf[c], FormPluralCase(stem, c))]

Declension(w, g) ==
    LET stem == Given(g, "obliqueStem", GuessObliqueStem(w))
        type == Given(g, "declensionType", DetectType(g))
    IN  [declensionType |-> type,
         singular |-> BuildSingular(stem, type, g),
         plural |-> IF g["plural"] = None THEN None
                    ELSE BuildPlural(GuessObliqueStem(g["plural"]), g)]

----------------------------------------------------------------------------
(* Lemmatisation: what is left without a case ending, alone or with one    *)
(* of five vowels.                                                         *)

EndingsOfFour == {"Cu'nca", "Cu'nga", "Cunca", "Cunna", "Cunga", "Cunan", "Cun", "Cux", "Cul",
                  "Co"}

(* Also a seeded bug in place of Endings: those of type IV are missing. *)
OtherEndings == {
    "ojSna", "ojSa", "ojSca", "ojSka", "ojn", "ojx", "ojl",
    "aSna", "aSa", "aSca", "aSka", "Sna", "Sca", "Ska", "Sa", "ijn", "ex", "el", "ka",
    "ica", "iga", "ina", "in", "ix", "il",
    "nca", "nna", "nan", "nax", "nal", "ne", "no",
    "ca", "na", "an", "al", "ax", "o", "a", "e", "x"}

Endings == EndingsOfFour \cup OtherEndings

StripEndings(form) ==
    LET bases == {Drop(form, Len(e)) : e \in {x \in Endings : EndsWith(form, x)
                                                              /\ Len(form) > Len(x) + 1}}
    IN  bases \cup {b \o v : b \in bases, v \in {"a", "e", "i", "o", "u"}}

(* The normal forms the table is asked for. *)
Candidates(form) == StripEndings(MapChars(LowerChar, form))

(* lemmatize, over the normal forms of a table. *)
Lemmas(form, norms) == Candidates(form) \cap norms

----------------------------------------------------------------------------
(* Conjugation.                                                            *)

Tied(base, ending) == IF base = None THEN None ELSE base \o ending

(* A final a gives way to the ending. *)
InsteadOfA(base, ending) ==
    IF base = None THEN None
    ELSE (IF EndsWith(base, "a") THEN Drop(base, 1) ELSE base) \o ending

ConjugationType(present) ==
    CASE present = None -> None
      [] EndsWith(present, "u") \/ EndsWith(present, "u'") -> 1
      [] EndsWith(present, "a") \/ EndsWith(present, "o") -> 2
      [] OTHER -> None

HasVerbForms(g) == \E f \in {"verbPresent", "verbPast", "verbParticiple"} : g[f] # None

(* Whether a word is given a conjugation at all. *)
ShowsConjugation(pos, g) == pos \in {"gl.", "masd."} \/ HasVerbForms(g)

(* The recent past, and what is made of it, is never known. *)
Conjugation(w, g) ==
    LET present == g["verbPresent"]
        perfect == g["verbPast"]
        future == Tied(present, "r")
        gerund == Tied(present, "S")
    IN  [conjugationType |-> ConjugationType(present),
         presentSimple |-> present,
         presentCompound |-> Tied(gerund, " wu"),
         recentPast |-> None,
         evidentialPast |-> None,
         perfect |-> perfect,
         remotePast |-> InsteadOfA(perfect, "era"),
         pastImperfective |-> Tied(present, "ra"),
         futurePossible |-> future,
         futureFactual |-> Tied(future, " du"),
         participlePresent |-> Tied(present, "rg"),
         participlePast |-> Given(g, "verbParticiple", Tied(perfect, "rg")),
         gerundPresent |-> gerund,
         gerundPast |-> perfect,
         masdar |-> w \o "r",
         imperative |-> w \o "l",
         imperativePolite |-> w \o "x'a",
         imperativePolitePlural |-> InsteadOfA(w, "ijSa"),
         negationPresent |-> IF present = None THEN None ELSE "ca " \o present,
         negationImperative |-> "ma " \o w]

=============================================================================
