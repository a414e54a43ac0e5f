----------------------------- MODULE SearchFilter ----------------------------
(***************************************************************************)
(* The search box over the cards of a vault:                               *)
(* ui/windows/main_window/search_filter.rs, the texts secret_flow.rs       *)
(* prepares for each card, and the filter function and the handlers of the *)
(* main window that use them.  A card is judged by itself, so there is one.*)
(*                                                                         *)
(* A character is a short string and a text a sequence of them: "a" and    *)
(* "b" stand for the letters and digits, "A" and "a^" for an upper-case and*)
(* an accented letter, "-" for the punctuation that separates words, "/"   *)
(* for the one that is dropped, and ":" ends the prefix of a term.         *)
(***************************************************************************)
EXTENDS Naturals, Sequences, SequencesExt

CONSTANTS
    Cards,      \* the cards: kind, weak, duplicate, and the text of each field
    KeyNames,   \* the field each known prefix stands for ("titre" -> "title"...)
    TypedChars, \* the characters typed
    MaxQuery    \* bound on the length of a query

\* One or two characters of each kind the code tells apart.
Chars    == {"a", "b", "A", "a^", "-", "/", ":", " "}
Texts    == Seq(Chars)
Fields   == {"title", "url"}
AnyField == "any"

ASSUME SearchAssumption ==
    /\ \A c \in Cards : c.title \in Texts /\ c.url \in Texts
    /\ KeyNames \in [DOMAIN KeyNames -> Fields] /\ TypedChars \subseteq Chars

VARIABLES
    card,      \* the card on display
    query,     \* FilterRuntime.search_text
    category,  \* FilterRuntime.selected_category
    audit,     \* FilterRuntime.selected_audit
    visible    \* is the card shown?  If not, the "no result" page is

searchVars == <<card, query, category, audit, visible>>

Categories == {"All", "Password", "ApiToken"}
Audits     == {"All", "Weak", "Duplicate"}

\* The texts of a card in the order they are joined.
fields_joined(c) == c.title \o <<" ">> \o c.url

-----------------------------------------------------------------------------
(* Texts.                                                                   *)

\* split_whitespace: the longest runs without a blank.
is_word(s, i, j) ==
    /\ i <= j /\ \A k \in i..j : s[k] # " "
    /\ i = 1 \/ s[i - 1] = " "
    /\ j = Len(s) \/ s[j + 1] = " "
split_whitespace(s) ==
    {SubSeq(s, p[1], p[2]) : p \in {q \in (DOMAIN s) \X (DOMAIN s) : is_word(s, q[1], q[2])}}

\* One character: folded to its plain letter, to a blank, or dropped ("").
mapped(ch) ==
    CASE ch \in {"a", "b"}  -> ch
      [] ch \in {"A", "a^"} -> "a"
      [] ch \in {" ", "-"}  -> " "
      [] OTHER              -> ""

\* The words are joined by one blank: a blank counts only after a word...
push(text, ch) ==
    IF ch = "" \/ (ch = " " /\ (text = <<>> \/ text[Len(text)] = " "))
      THEN text ELSE Append(text, ch)

\* ... and not at the end.
trim(text) ==
    IF text # <<>> /\ text[Len(text)] = " " THEN SubSeq(text, 1, Len(text) - 1) ELSE text

normalize_search_text(raw) ==
    LET upto[i \in 0..Len(raw)] ==
            IF i = 0 THEN <<>> ELSE push(upto[i - 1], mapped(raw[i]))
    IN  trim(upto[Len(raw)])

contains(haystack, token) ==
    \E i \in 0..(Len(haystack) - Len(token)) :
        SubSeq(haystack, i + 1, i + Len(token)) = token

\* The pointers into the two words, and the edits so far.
pointers(left, right) == (1..(Len(left) + 1)) \X (1..(Len(right) + 1)) \X (0..1)

\* Mutant: on a mismatch the longer word is not the one that advances.
skip_Lockstep(left, right, i, j) == <<i + 1, j + 1, 1>>

\* A mismatch is passed by a character of the longer word, or one of each.
skip(left, right, i, j) ==
    <<IF Len(left)  >= Len(right) THEN i + 1 ELSE i,
      IF Len(right) >= Len(left)  THEN j + 1 ELSE j, 1>>

\* The number of edits the two pointers count from p on; the second mismatch
\* gives up, with 2.
within_one_edit(left, right) ==
    LET edits[p \in pointers(left, right)] ==
            IF p[1] > Len(left) \/ p[2] > Len(right)
              THEN IF p[1] <= Len(left) \/ p[2] <= Len(right) THEN p[3] + 1 ELSE p[3]
            ELSE IF left[p[1]] = right[p[2]] THEN edits[<<p[1] + 1, p[2] + 1, p[3]>>]
            ELSE IF p[3] = 1 THEN 2
            ELSE edits[skip(left, right, p[1], p[2])]
    IN  /\ Len(left) <= Len(right) + 1 /\ Len(right) <= Len(left) + 1
        /\ edits[<<1, 1, 0>>] <= 1

token_matches_haystack(token, haystack) ==
    \/ token = <<>>
    \/ contains(haystack, token)
    \/ /\ Len(token) >= 4
       /\ \E word \in split_whitespace(haystack) : within_one_edit(token, word)

-----------------------------------------------------------------------------
(* Queries.                                                                 *)

\* A term is "key:value" with a known key, or a text looked for everywhere.
\* An empty value is no term.
parse_term(term) ==
    LET colon == SelectInSeq(term, LAMBDA ch : ch = ":")
        key   == normalize_search_text(SubSeq(term, 1, colon - 1))
        value == normalize_search_text(SubSeq(term, colon + 1, Len(term)))
    IN  IF colon \in {0, 1, Len(term)}
          THEN [field |-> AnyField, value |-> normalize_search_text(term)]
        ELSE IF value = <<>> THEN [field |-> AnyField, value |-> <<>>]
        ELSE IF key \in DOMAIN KeyNames
          THEN [field |-> KeyNames[key], value |-> value]
        ELSE [field |-> AnyField, value |-> normalize_search_text(term)]

parse_search_terms(q) ==
    {t \in {parse_term(term) : term \in split_whitespace(q)} : t.value # <<>>}

matches_search_term(c, term) ==
    token_matches_haystack(term.value,
        normalize_search_text(IF term.field = AnyField THEN fields_joined(c) ELSE c[term.field]))

matches_query(c, q) == \A term \in parse_search_terms(q) : matches_search_term(c, term)

\* The filter function of the flow box.
matches_category(c, cat) == cat = "All" \/ c.kind = cat
matches_audit(c, a) == CASE a = "All" -> TRUE [] a = "Weak" -> c.weak [] a = "Duplicate" -> c.duplicate
flow_filter(c, q, cat, a) == matches_query(c, q) /\ matches_category(c, cat) /\ matches_audit(c, a)

-----------------------------------------------------------------------------
(* The handlers: each sets its part of the filter and applies all of it.    *)

SearchInit ==
    /\ card \in Cards /\ query = <<>> /\ category = "All" /\ audit = "All"
    /\ visible = TRUE

\* apply_filters, with the filter the handler has just set.
apply_filters == visible' = flow_filter(card, query', category', audit')

SearchChanged ==
    /\ \/ Len(query) < MaxQuery /\ \E ch \in TypedChars : query' = Append(query, ch)
       \/ query # <<>> /\ query' = <<>>
    /\ UNCHANGED <<card, category, audit>>
    /\ apply_filters

CategorySelected ==
    /\ category' \in Categories
    /\ UNCHANGED <<card, query, audit>>
    /\ apply_filters

AuditSelected ==
    /\ audit' \in Audits
    /\ UNCHANGED <<card, query, category>>
    /\ apply_filters

SearchNext == SearchChanged \/ CategorySelected \/ AuditSelected

-----------------------------------------------------------------------------
(* Property.                                                                *)

\* At most one character removed, inserted or replaced.
OneEdit(s, t) ==
    \/ s = t
    \/ \E i \in DOMAIN s : RemoveAt(s, i) = t
    \/ \E i \in DOMAIN t : RemoveAt(t, i) = s
    \/ Len(s) = Len(t) /\ \E i \in DOMAIN s : RemoveAt(s, i) = RemoveAt(t, i)

HasKnownKey(w) == parse_term(w).field # AnyField
Plain(w)       == ToSet(w) \subseteq {"a", "b"}

\* A word copied from a card as it is written there, with its capitals, accents
\* and punctuation, finds the card (unless it starts with a field prefix), and
\* so does one of four letters or more with a single typo; and a plain word
\* with more typos in all words of the card does not.
SearchFinds ==
    LET words  == split_whitespace(fields_joined(card))
        hay    == normalize_search_text(fields_joined(card))
        found  == matches_query(card, query)
    IN  /\ visible = (found /\ matches_category(card, category) /\ matches_audit(card, audit))
        /\ query \in words /\ ~HasKnownKey(query) => found
        /\ Plain(query) /\ Len(query) >= 4 =>
             (found <=> \/ contains(hay, query)
                        \/ \E w \in split_whitespace(hay) : OneEdit(query, w))
=============================================================================
