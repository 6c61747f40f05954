---------------------------- MODULE QueryShaping ----------------------------
(***************************************************************************)
(* What prepare_context makes of a question before it searches: how        *)
(* complex it is, and the variants and search terms taken from it.  A      *)
(* question is a sequence of words, lower and upper case alike; what the   *)
(* code tells about a word by its spelling is a set of words here.         *)
(***************************************************************************)
EXTENDS Selection, SequencesExt

CONSTANTS
  Word,
  StopWords,      \* QUERY_STOPWORDS, and words of one or two letters
  ShortWords,     \* the other words of three letters
  NameWords,      \* capitalised: names of people and places
  Joins,          \* `and', `also', `as well as'
  OpenWords,      \* `would', `could', `likely', ...
  HopWords,       \* `both', `during', ...
  TemporalWords,  \* `when', `before', `summer', ...
  FutureWords,    \* `will', `plan', `next', ...
  Months, Years,  \* a season stands for its months
  Openers,        \* words of these that count at the beginning only: `would', `when'
  Inner,          \* words of these that count after the first word only: `before', `next'
  Timeline,       \* the words `date time event timeline'
  Upcoming,       \* the words `future plan upcoming reminder'
  Brief,          \* texts of fewer than four bytes
  Slight          \* texts of at most five bytes

ASSUME WordAssumption ==
  /\ StopWords \cup ShortWords \cup NameWords \cup Joins \cup OpenWords \cup HopWords \cup TemporalWords
       \cup FutureWords \cup Months \cup Years \cup {Timeline, Upcoming} \subseteq Word
  /\ Joins \subseteq StopWords
  /\ NameWords \cap (StopWords \cup Months) = {}
  /\ <<>> \in Brief /\ Brief \subseteq Slight

Complexity == {"SingleHop", "MultiHop", "Temporal", "OpenEnded"}

Has(q, words) ==
  \E n \in DOMAIN q : /\ q[n] \in words
                      /\ q[n] \in Openers => n = 1
                      /\ q[n] \in Inner => n # 1

IsTemporalQuery(q) == Has(q, TemporalWords)
IsFutureLeaning(q) == Has(q, FutureWords)

Classify(q) ==
  IF Has(q, OpenWords) THEN "OpenEnded"
  ELSE IF IsTemporalQuery(q) THEN "Temporal"
  ELSE IF Has(q, HopWords) THEN "MultiHop"
  ELSE "SingleHop"

-----------------------------------------------------------------------------
(* Words of a question.                                                    *)

Among(q, words) == Selected(q, {n \in DOMAIN q : q[n] \in words})
NotAmong(q, words) == Selected(q, {n \in DOMAIN q : q[n] \notin words})

Distinct(s) == Selected(s, {n \in DOMAIN s : \A m \in 1 .. n - 1 : s[m] # s[n]})

Keywords(q) == NotAmong(q, StopWords)
Names(q) == Distinct(Among(q, NameWords))

\* The terms of extract_entities, each the set of words a text must contain: a
\* capitalised word but for the first of the question, alone and with every other word;
\* then the words.
Entities(q) ==
  LET words == NotAmong(q, StopWords \cup ShortWords)
      nouns == Among(Tail(q), NameWords \cup Months)
      compound(n) == LET others == NotAmong(words, {n})
                     IN  <<{n}>> \o [k \in DOMAIN others |-> {n, others[k]}]
  IN  Distinct(FlattenSeq([k \in DOMAIN nouns |-> compound(nouns[k])])
                 \o [k \in DOMAIN words |-> {words[k]}])

-----------------------------------------------------------------------------
(* build_query_variants                                                    *)

\* the parts between the joins that are not slight; the question itself unless there are two
Parts(q) ==
  LET cut(k) == k \notin DOMAIN q \/ q[k] \in Joins
      last(k) == Max({n \in k .. Len(q) : \A m \in k .. n : ~cut(m)})
      from == Selected([k \in DOMAIN q |-> k], {k \in DOMAIN q : cut(k - 1) /\ ~cut(k)})
      parts == NotAmong([n \in DOMAIN from |-> SubSeq(q, from[n], last(from[n]))], Slight)
  IN  IF Len(parts) > 1 THEN parts ELSE <<q>>

SubjectFocus(q) ==
  IF Names(q) = <<>> \/ Keywords(q) = <<>> THEN <<>> ELSE <<Names(q) \o Keywords(q)>>

TemporalFocus(q) ==
  <<Names(q) \o Keywords(q) \o <<IF IsFutureLeaning(q) THEN Upcoming ELSE Timeline>>>>

\* a month with every year that is named, or alone if none is; every year
TemporalWindows(q) ==
  LET years == Among(q, Years)
      months == SetToSeq(ToSet(q) \cap Months)
      window(m) == IF years = <<>> THEN <<<<m, Timeline>>>>
                                   ELSE [n \in DOMAIN years |-> <<m, years[n], Timeline>>]
  IN  FlattenSeq([k \in DOMAIN months |-> window(months[k])])
        \o [n \in DOMAIN years |-> <<years[n], Timeline>>]

\* A very short question has none.
QueryVariants(q) ==
  Distinct(NotAmong(
    <<q>> \o Parts(q) \o <<Keywords(q)>> \o SubjectFocus(q)
      \o (IF IsTemporalQuery(q) THEN TemporalFocus(q) \o TemporalWindows(q) ELSE <<>>),
    Brief))
=============================================================================
