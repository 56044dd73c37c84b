----------------------------- MODULE Dsn_proofs -----------------------------
(***************************************************************************)
(* Theorems about Dsn, for any texts: the bindings build the same DSN from *)
(* the same settings, the backend reads from an option string what it was  *)
(* made of, and the scheme chooses the driver.                             *)
(*                                                                         *)
(* Two relations between texts carry the proofs.  Alike texts differ only  *)
(* in how they escape a sign that needs no escaping; joining keeps them    *)
(* alike.  A Carried text has no semicolon and no blanks around it; what   *)
(* is escaped is carried, joining keeps it so, and the loop of parseDsn    *)
(* returns it whole.  DsnInv says which settings that loop has still       *)
(* before it.                                                              *)
(***************************************************************************)
EXTENDS Dsn, TLAPS, WellFoundedInduction

\* Signs and words are different tokens.
LEMMA Signs ==
  /\ Semicolon \notin {"=", "?", "&", "/", ":", "@", "#", "!"} /\ Blank \notin {"=", "?", "&", "/", ":", "@", "#", "!"}
  /\ Semicolon # Blank
  /\ {"uri"} \cup OptionFields \cup ExtraFields \subseteq Token \ {Semicolon, Blank}
  /\ {"postgresql", "postgres", "mysql", "information_schema", "127.0.0.1"} \subseteq Token \ {Semicolon, Blank}
  /\ {"%3D", "%3B", "%3F", "%26", "%2F", "%3A", "%40", "%23", "%20", "%21"} \subseteq Token \ {Semicolon, Blank}
BY TokenAssumption, Zenon DEF Semicolon, Blank, OptionFields, ExtraFields

-----------------------------------------------------------------------------
(* The first sign of a text *)

\* The smaller of two numbers.
Below == {pair \in Nat \X Nat : pair[1] < pair[2]}

\* A set of numbers has a least one.
LEMMA Least ==
  ASSUME NEW S, S \subseteq Nat, S # {}
  PROVE  \E i \in S : \A j \in S : i <= j
<1>1. OpToRel(<, Nat) = Below
  BY Zenon DEF OpToRel, Below
<1>2. IsWellFoundedOn(Below, Nat)
  BY <1>1, NatLessThanWellFounded, Zenon
<1>3. PICK i \in S : \A j \in S : ~(<<j, i>> \in Below)
  BY <1>2, WFMin
<1>4. ASSUME NEW j \in S
      PROVE  i <= j
  <2>1. ~(j < i)
    BY <1>3 DEF Below
  <2> QED
    BY <2>1
<1> QED
  BY <1>4

\* And a greatest, if it has a bound.
LEMMA Greatest ==
  ASSUME NEW n \in Nat, NEW S, S \subseteq 1..n, S # {}
  PROVE  \E i \in S : \A j \in S : j <= i
<1> DEFINE T == {n - i : i \in S}
<1>1. T \subseteq Nat /\ T # {}
  <2>1. PICK i \in S : TRUE
    OBVIOUS
  <2>2. n - i \in T
    BY <2>1
  <2>3. \A j \in S : n - j \in Nat
    OBVIOUS
  <2> QED
    BY <2>2, <2>3
<1>2. PICK k \in T : \A j \in T : k <= j
  BY <1>1, Least
<1>3. PICK i \in S : k = n - i
  OBVIOUS
<1>4. \A j \in S : n - i <= n - j
  BY <1>2, <1>3
<1> QED
  BY <1>3, <1>4

\* That i is the first place of a sign from some place on.
IsFirst(i, signs, text, from, end) ==
  /\ i \in from..end
  /\ i = end \/ text[i] \in signs
  /\ \A j \in from..(i - 1) : text[j] \notin signs

\* FirstOf finds that place, and there is no other.
LEMMA FirstOfIsFirst ==
  ASSUME NEW signs, NEW text, NEW from \in Nat, NEW end \in Nat, from <= end
  PROVE  /\ IsFirst(FirstOf(signs, text, from, end), signs, text, from, end)
         /\ \A i : IsFirst(i, signs, text, from, end) => i = FirstOf(signs, text, from, end)
<1> DEFINE S == {i \in from..end : i = end \/ text[i] \in signs}
<1>1. S \subseteq Nat /\ S # {}
  OBVIOUS
<1>2. PICK i \in S : \A j \in S : i <= j
  BY <1>1, Least
<1>3. IsFirst(i, signs, text, from, end)
  BY <1>2 DEF IsFirst
<1>4. \A j, k : IsFirst(j, signs, text, from, end) /\ IsFirst(k, signs, text, from, end) => j = k
  <2> SUFFICES ASSUME NEW j, NEW k, IsFirst(j, signs, text, from, end),
                      IsFirst(k, signs, text, from, end), j < k
               PROVE  FALSE
    BY DEF IsFirst
  <2> QED
    BY DEF IsFirst
<1>5. FirstOf(signs, text, from, end) = CHOOSE j \in from..end : IsFirst(j, signs, text, from, end)
  BY DEF FirstOf, IsFirst
<1>6. IsFirst(FirstOf(signs, text, from, end), signs, text, from, end)
  BY <1>3, <1>5 DEF IsFirst
<1> QED
  BY <1>4, <1>6

-----------------------------------------------------------------------------
(* Texts *)

\* Texts of the same signs are the same.
LEMMA SameText ==
  ASSUME NEW a \in Text, NEW b \in Text, Len(a) = Len(b), \A i \in 1..Len(a) : a[i] = b[i]
  PROVE  a = b
BY DEF Text

\* What joining two texts gives.
LEMMA Joined ==
  ASSUME NEW a \in Text, NEW b \in Text
  PROVE  /\ a \o b \in Text /\ Len(a \o b) = Len(a) + Len(b)
         /\ Len(a) \in Nat /\ Len(b) \in Nat
         /\ \A i \in 1..Len(a) : (a \o b)[i] = a[i]
         /\ \A i \in 1..Len(b) : (a \o b)[Len(a) + i] = b[i]
         /\ \A i \in 1..Len(a \o b) :
              \/ i \in 1..Len(a) /\ (a \o b)[i] = a[i]
              \/ i - Len(a) \in 1..Len(b) /\ (a \o b)[i] = b[i - Len(a)]
BY DEF Text

\* Joining nothing changes nothing.
LEMMA JoinedToNothing ==
  ASSUME NEW a \in Text
  PROVE  <<>> \o a = a /\ a \o <<>> = a
BY DEF Text

\* Signs joined to texts.
LEMMA JoinPair ==
  ASSUME NEW a, NEW b
  PROVE  <<a>> \o <<b>> = <<a, b>>
<1> DEFINE joined == <<a>> \o <<b>>
<1>1. joined \in Seq({a, b}) /\ Len(joined) = 2 /\ joined[1] = a /\ joined[2] = b
  <2>1. <<a>> \in Seq({a, b}) /\ <<b>> \in Seq({a, b}) /\ Len(<<a>>) = 1 /\ Len(<<b>>) = 1
    OBVIOUS
  <2> QED
    BY <2>1
<1> HIDE DEF joined
<1>2. joined = <<a, b>>
  BY <1>1
<1> QED
  BY <1>2 DEF joined

\* One part appended to another.
LEMMA AppendPair ==
  ASSUME NEW a, NEW b
  PROVE  Append(<<a>>, b) = <<a, b>>
<1> DEFINE joined == Append(<<a>>, b)
<1>1. joined \in Seq({a, b}) /\ Len(joined) = 2 /\ joined[1] = a /\ joined[2] = b
  <2>1. <<a>> \in Seq({a, b}) /\ Len(<<a>>) = 1
    OBVIOUS
  <2> QED
    BY <2>1
<1> HIDE DEF joined
<1>2. joined = <<a, b>>
  BY <1>1
<1> QED
  BY <1>2 DEF joined

\* A third part after two.
LEMMA JoinTriple ==
  ASSUME NEW a, NEW b, NEW c
  PROVE  <<a, b>> \o <<c>> = <<a, b, c>>
<1> DEFINE joined == <<a, b>> \o <<c>>
<1>1. /\ joined \in Seq({a, b, c}) /\ Len(joined) = 3
      /\ joined[1] = a /\ joined[2] = b /\ joined[3] = c
  <2>1. /\ <<a, b>> \in Seq({a, b, c}) /\ <<c>> \in Seq({a, b, c})
        /\ Len(<<a, b>>) = 2 /\ Len(<<c>>) = 1
    OBVIOUS
  <2> QED
    BY <2>1
<1> HIDE DEF joined
<1>2. joined = <<a, b, c>>
  BY <1>1
<1> QED
  BY <1>2 DEF joined

\* Texts that are the same but for the escaping of a sign that needs none.
Alike(a, b) ==
  /\ a \in Text /\ b \in Text /\ Len(a) = Len(b)
  /\ \A i \in 1..Len(a) : a[i] = b[i] \/ {a[i], b[i]} = {"!", "%21"}

\* A text is alike itself.
LEMMA AlikeSame ==
  ASSUME NEW a \in Text
  PROVE  Alike(a, a)
BY DEF Alike

\* Joining texts that are alike gives texts that are alike.
LEMMA AlikeJoined ==
  ASSUME NEW a, NEW b, NEW c, NEW d, Alike(a, b), Alike(c, d)
  PROVE  Alike(a \o c, b \o d)
<1>1. a \in Text /\ b \in Text /\ c \in Text /\ d \in Text /\ Len(a) = Len(b) /\ Len(c) = Len(d)
  BY DEF Alike
<1>2. /\ a \o c \in Text /\ b \o d \in Text /\ Len(a \o c) = Len(b \o d)
  BY <1>1 DEF Text
<1>3. ASSUME NEW i \in 1..Len(a \o c)
      PROVE  (a \o c)[i] = (b \o d)[i] \/ {(a \o c)[i], (b \o d)[i]} = {"!", "%21"}
  <2>1. CASE i \in 1..Len(a)
    <3>1. (a \o c)[i] = a[i] /\ (b \o d)[i] = b[i]
      BY <1>1, <2>1, Joined
    <3> QED
      BY <2>1, <3>1 DEF Alike
  <2>2. CASE i \notin 1..Len(a)
    <3>1. i - Len(a) \in 1..Len(c) /\ (a \o c)[i] = c[i - Len(a)]
      BY <1>1, <2>2, Joined
    <3>2. Len(a) + (i - Len(a)) = i
      BY <1>1, Joined
    <3>3. (b \o d)[i] = d[i - Len(a)]
      BY <1>1, <3>1, <3>2 DEF Text
    <3> QED
      BY <3>1, <3>3 DEF Alike
  <2> QED
    BY <2>1, <2>2
<1> QED
  BY <1>2, <1>3 DEF Alike

\* So does leaving their first signs out.
LEMMA AlikeTails ==
  ASSUME NEW a, NEW b, Alike(a, b), a # <<>>
  PROVE  Alike(Tail(a), Tail(b)) /\ b # <<>>
<1>1. a \in Text /\ b \in Text /\ Len(a) = Len(b)
  BY DEF Alike
<1>2. /\ Tail(a) \in Text /\ Tail(b) \in Text /\ b # <<>>
      /\ Len(Tail(a)) = Len(a) - 1 /\ Len(Tail(b)) = Len(a) - 1 /\ Len(a) \in Nat
  BY <1>1 DEF Text
<1>3. ASSUME NEW i \in 1..Len(Tail(a))
      PROVE  /\ i + 1 \in 1..Len(a)
             /\ Tail(a)[i] = a[i + 1] /\ Tail(b)[i] = b[i + 1]
  BY <1>1, <1>2 DEF Text
<1> QED
  BY <1>2, <1>3 DEF Alike

\* A reader of a URI sees no difference between them.
LEMMA AlikeUnquoted ==
  ASSUME NEW a, NEW b, Alike(a, b)
  PROVE  Unquote(a) = Unquote(b)
<1>1. DOMAIN a = 1..Len(a) /\ DOMAIN b = 1..Len(a)
  BY DEF Alike, Text
<1>2. ASSUME NEW i \in 1..Len(a)
      PROVE  (IF a[i] = "%21" THEN "!" ELSE a[i]) = (IF b[i] = "%21" THEN "!" ELSE b[i])
  <2>1. a[i] = b[i] \/ {a[i], b[i]} = {"!", "%21"}
    BY DEF Alike
  <2> QED
    BY <2>1
<1> QED
  BY <1>1, <1>2 DEF Unquote

\* What escaping makes of a sign.
LEMMA Escapes ==
  /\ DOMAIN Escape = {"=", Semicolon, "?", "&", "/", ":", "@", "#", Blank}
  /\ DOMAIN EscapeAll = {"=", Semicolon, "?", "&", "/", ":", "@", "#", Blank, "!"}
  /\ EscapeAll["!"] = "%21"
  /\ \A sign \in DOMAIN Escape : EscapeAll[sign] = Escape[sign]
  /\ \A sign \in DOMAIN EscapeAll : EscapeAll[sign] \in Token /\ EscapeAll[sign] \notin {Semicolon, Blank, "="}
<1>1. DOMAIN Escape = {"=", Semicolon, "?", "&", "/", ":", "@", "#", Blank}
  BY DEF Escape
<1>2. /\ DOMAIN EscapeAll = {"=", Semicolon, "?", "&", "/", ":", "@", "#", Blank, "!"}
      /\ EscapeAll["!"] = "%21"
      /\ \A sign \in DOMAIN Escape : EscapeAll[sign] = Escape[sign]
  BY <1>1, Signs DEF EscapeAll
<1>3. \A sign \in DOMAIN Escape : Escape[sign] \in
         {"%3D", "%3B", "%3F", "%26", "%2F", "%3A", "%40", "%23", "%20"}
  BY DEF Escape
<1>4. ASSUME NEW sign \in DOMAIN EscapeAll
      PROVE  EscapeAll[sign] \in {"%3D", "%3B", "%3F", "%26", "%2F", "%3A", "%40", "%23", "%20", "%21"}
  <2>1. sign \in DOMAIN Escape \/ sign = "!"
    BY <1>1, <1>2
  <2> QED
    BY <1>2, <1>3, <2>1
<1> QED
  BY <1>1, <1>2, <1>4, TokenAssumption, Signs

\* Escaping replaces signs one by one.
LEMMA QuotedText ==
  ASSUME NEW text \in Text, NEW escape, \A sign \in DOMAIN escape : escape[sign] \in Token
  PROVE  /\ Quote(text, escape) \in Text /\ Len(Quote(text, escape)) = Len(text)
         /\ \A i \in 1..Len(text) :
              Quote(text, escape)[i] = IF text[i] \in DOMAIN escape THEN escape[text[i]] ELSE text[i]
<1>1. DOMAIN text = 1..Len(text) /\ Len(text) \in Nat /\ \A i \in 1..Len(text) : text[i] \in Token
  BY DEF Text
<1> DEFINE quoted == [i \in 1..Len(text) |->
                        IF text[i] \in DOMAIN escape THEN escape[text[i]] ELSE text[i]]
<1>2. Quote(text, escape) = quoted
  BY <1>1 DEF Quote
<1>3. \A i \in 1..Len(text) : quoted[i] \in Token
  BY <1>1
<1>4. quoted \in [1..Len(text) -> Token]
  BY <1>3
<1> HIDE DEF quoted
<1>5. quoted \in Text /\ Len(quoted) = Len(text)
  BY <1>1, <1>4 DEF Text
<1> QED
  BY <1>2, <1>5 DEF quoted

\* The two escapings give texts that are alike.
LEMMA QuotedAlike ==
  ASSUME NEW text \in Text
  PROVE  Alike(Quote(text, EscapeAll), Quote(text, Escape))
<1>1. \A sign \in DOMAIN EscapeAll : EscapeAll[sign] \in Token
  BY Escapes
<1>2. \A sign \in DOMAIN Escape : Escape[sign] \in Token
  BY Escapes
<1>3. /\ Quote(text, EscapeAll) \in Text /\ Len(Quote(text, EscapeAll)) = Len(text)
      /\ Quote(text, Escape) \in Text /\ Len(Quote(text, Escape)) = Len(text)
  BY <1>1, <1>2, QuotedText
<1>4. ASSUME NEW i \in 1..Len(text)
      PROVE  \/ Quote(text, EscapeAll)[i] = Quote(text, Escape)[i]
             \/ {Quote(text, EscapeAll)[i], Quote(text, Escape)[i]} = {"!", "%21"}
  <2>1. /\ Quote(text, EscapeAll)[i] = IF text[i] \in DOMAIN EscapeAll THEN EscapeAll[text[i]] ELSE text[i]
        /\ Quote(text, Escape)[i] = IF text[i] \in DOMAIN Escape THEN Escape[text[i]] ELSE text[i]
    BY <1>1, <1>2, QuotedText
  <2>2. CASE text[i] = "!"
    BY <2>1, <2>2, Escapes
  <2>3. CASE text[i] # "!"
    BY <2>1, <2>3, Escapes
  <2> QED
    BY <2>2, <2>3
<1> QED
  BY <1>3, <1>4 DEF Alike

\* A text that a semicolon ends and blanks around it leave whole.
Carried(text) ==
  /\ text \in Text /\ ~Contains(text, Semicolon)
  /\ text # <<>> => text[1] # Blank /\ text[Len(text)] # Blank

\* Joining texts that are carried gives one that is.
LEMMA CarriedJoined ==
  ASSUME NEW a, NEW b, Carried(a), Carried(b)
  PROVE  Carried(a \o b)
<1>1. a \in Text /\ b \in Text
  BY DEF Carried
<1>2. ~Contains(a \o b, Semicolon)
  <2>1. /\ DOMAIN a = 1..Len(a) /\ DOMAIN b = 1..Len(b) /\ DOMAIN (a \o b) = 1..Len(a \o b)
        /\ Len(a) \in Nat /\ Len(b) \in Nat
    BY <1>1 DEF Text
  <2>2. /\ \A i \in 1..Len(a) : a[i] # Semicolon
        /\ \A i \in 1..Len(b) : b[i] # Semicolon
    BY <2>1 DEF Carried, Contains
  <2>3. \A i \in 1..Len(a \o b) :
          \/ i \in 1..Len(a) /\ (a \o b)[i] = a[i]
          \/ i - Len(a) \in 1..Len(b) /\ (a \o b)[i] = b[i - Len(a)]
    BY <1>1, Joined
  <2>4. \A i \in 1..Len(a \o b) : (a \o b)[i] # Semicolon
    BY <2>2, <2>3
  <2> QED
    BY <2>1, <2>4 DEF Contains
<1>3. CASE a # <<>> /\ b # <<>>
  <2>1. 1 \in 1..Len(a) /\ Len(b) \in 1..Len(b)
    BY <1>1, <1>3 DEF Text
  <2>2. (a \o b)[1] = a[1] /\ (a \o b)[Len(a \o b)] = b[Len(b)]
    BY <1>1, <2>1, Joined
  <2> QED
    BY <1>1, <1>2, <1>3, <2>2, Joined DEF Carried
<1>4. CASE a = <<>> \/ b = <<>>
  BY <1>1, <1>4, JoinedToNothing
<1> QED
  BY <1>3, <1>4

\* An escaped text is carried, whatever signs it had.
LEMMA CarriedQuoted ==
  ASSUME NEW text \in Text, NEW escape \in {EscapeAll, Escape}
  PROVE  Carried(Quote(text, escape))
<1>1. /\ {Semicolon, Blank} \subseteq DOMAIN escape
      /\ \A sign \in DOMAIN escape : escape[sign] \in Token /\ escape[sign] \notin {Semicolon, Blank}
  <2>1. CASE escape = EscapeAll
    BY <2>1, Escapes
  <2>2. CASE escape = Escape
    BY <2>2, Escapes
  <2> QED
    BY <2>1, <2>2
<1>2. /\ Quote(text, escape) \in Text /\ Len(Quote(text, escape)) = Len(text)
      /\ \A i \in 1..Len(text) :
           Quote(text, escape)[i] = IF text[i] \in DOMAIN escape THEN escape[text[i]] ELSE text[i]
  BY <1>1, QuotedText
<1>3. \A i \in 1..Len(text) : Quote(text, escape)[i] \notin {Semicolon, Blank}
  BY <1>1, <1>2
<1> DEFINE quoted == Quote(text, escape)
<1> HIDE DEF quoted
<1>4. /\ quoted \in Text /\ DOMAIN quoted = 1..Len(quoted) /\ Len(quoted) \in Nat
      /\ quoted # <<>> => 1 \in 1..Len(quoted) /\ Len(quoted) \in 1..Len(quoted)
  BY <1>2 DEF quoted, Text
<1>5. \A i \in 1..Len(quoted) : quoted[i] \notin {Semicolon, Blank}
  BY <1>2, <1>3 DEF quoted
<1>6. Carried(quoted)
  BY <1>4, <1>5 DEF Carried, Contains
<1> QED
  BY <1>6 DEF quoted

\* So is a word.
LEMMA CarriedWord ==
  ASSUME NEW word \in Token, word \notin {Semicolon, Blank}
  PROVE  Carried(<<word>>) /\ Carried(<<>>)
<1>1. <<word>> \in Text /\ <<>> \in Text /\ DOMAIN <<word>> = {1} /\ Len(<<word>>) = 1
  BY DEF Text
<1>2. DOMAIN <<>> = {}
  OBVIOUS
<1> QED
  BY <1>1, <1>2 DEF Carried, Contains

-----------------------------------------------------------------------------
(* The URIs of the bindings *)

\* Settings are texts.
IsConfig(settings) == \A field \in DOMAIN settings : settings[field] \in Text

\* Short texts.
LEMMA TokensAreTexts ==
  ASSUME NEW a \in Token, NEW b \in Token, NEW c \in Token
  PROVE  <<>> \in Text /\ <<a>> \in Text /\ <<a, b>> \in Text /\ <<a, b, c>> \in Text
BY DEF Text

\* The first sign of a text may be another.
LEMMA CarriedHead ==
  ASSUME NEW text, Carried(text), text # <<>>, NEW word \in Token, word \notin {Semicolon, Blank}
  PROVE  Carried(<<word>> \o Tail(text))
<1> DEFINE other == <<word>> \o Tail(text)
<1>1. text \in Text /\ Len(text) \in Nat \ {0} /\ DOMAIN text = 1..Len(text)
  BY DEF Carried, Text
<1>2. /\ other \in Text /\ Len(other) = Len(text) /\ other[1] = word
      /\ DOMAIN other = 1..Len(text)
      /\ \A i \in 2..Len(text) : other[i] = text[i]
  BY <1>1 DEF Text
<1> HIDE DEF other
<1>3. ~Contains(other, Semicolon)
  BY <1>1, <1>2 DEF Carried, Contains
<1>4. other[Len(other)] # Blank
  BY <1>1, <1>2 DEF Carried
<1>5. Carried(other)
  BY <1>2, <1>3, <1>4 DEF Carried
<1> QED
  BY <1>5 DEF other

\* And that of texts that are alike stays alike.
LEMMA AlikeHead ==
  ASSUME NEW a, NEW b, Alike(a, b), a # <<>>, NEW word \in Token
  PROVE  Alike(<<word>> \o Tail(a), <<word>> \o Tail(b))
BY AlikeTails, AlikeJoined, AlikeSame, TokensAreTexts

\* One pair of a query.
LEMMA QueryParts ==
  ASSUME NEW settings, IsConfig(settings), NEW field \in ExtraFields
  PROVE  LET Quoted(escape) == [f \in DOMAIN settings |-> Quote(settings[f], escape)]
         IN  /\ Alike(Part("&", Quoted(EscapeAll), field), Part("&", Quoted(Escape), field))
             /\ Carried(Part("&", Quoted(EscapeAll), field))
             /\ Carried(Part("&", Quoted(Escape), field))
<1> DEFINE Quotes(escape) == [f \in DOMAIN settings |-> Quote(settings[f], escape)]
<1> DEFINE head == <<"&", field, "=">>
<1>1. field \in Token /\ field \notin {Semicolon, Blank} /\ {"&", "="} \subseteq Token
  BY Signs, TokenAssumption
<1>2. head \in Text
  BY <1>1, TokensAreTexts
<1>3. Carried(head)
  <2>1. /\ Carried(<<"&">>) /\ Carried(<<field>>) /\ Carried(<<"=">>)
    BY <1>1, Signs, CarriedWord
  <2>2. Carried(<<"&">> \o <<field>> \o <<"=">>)
    BY <2>1, CarriedJoined
  <2>3. <<"&">> \o <<field>> \o <<"=">> = head
    <3>1. <<"&">> \o <<field>> = <<"&", field>>
      BY JoinPair
    <3>2. <<"&", field>> \o <<"=">> = head
      BY JoinTriple
    <3> QED
      BY <3>1, <3>2
  <2> QED
    BY <2>2, <2>3
<1> HIDE DEF head
<1>4. CASE Has(settings, field)
  <2>1. settings[field] \in Text
    BY <1>4 DEF Has, IsConfig
  <2>2. \A escape : Part("&", Quotes(escape), field) = head \o Quote(settings[field], escape)
    BY <1>4 DEF Part, Has, Assign, head
  <2>3. Alike(head \o Quote(settings[field], EscapeAll), head \o Quote(settings[field], Escape))
    BY <1>2, <2>1, AlikeJoined, AlikeSame, QuotedAlike
  <2>4. Carried(head \o Quote(settings[field], EscapeAll)) /\ Carried(head \o Quote(settings[field], Escape))
    BY <1>3, <2>1, CarriedJoined, CarriedQuoted
  <2> QED
    BY <2>2, <2>3, <2>4
<1>5. CASE ~Has(settings, field)
  <2>1. \A escape : Part("&", Quotes(escape), field) = <<>>
    BY <1>5 DEF Part, Has
  <2>2. Carried(<<>>) /\ Alike(<<>>, <<>>)
    BY <1>1, CarriedWord, AlikeSame, TokensAreTexts
  <2> QED
    BY <2>1, <2>2
<1> QED
  BY <1>4, <1>5

\* The query of the three bindings.
LEMMA Queries ==
  ASSUME NEW settings, IsConfig(settings)
  PROVE  /\ Alike(Query(settings, EscapeAll), Query(settings, Escape))
         /\ Carried(Query(settings, EscapeAll)) /\ Carried(Query(settings, Escape))
<1> DEFINE Quotes(escape) == [f \in DOMAIN settings |-> Quote(settings[f], escape)]
           Pairs(escape) == Part("&", Quotes(escape), "path") \o Part("&", Quotes(escape), "sslmode")
<1>1. /\ Alike(Pairs(EscapeAll), Pairs(Escape))
      /\ Carried(Pairs(EscapeAll)) /\ Carried(Pairs(Escape))
  <2>1. "path" \in ExtraFields /\ "sslmode" \in ExtraFields
    BY DEF ExtraFields
  <2>2. /\ Alike(Part("&", Quotes(EscapeAll), "path"), Part("&", Quotes(Escape), "path"))
        /\ Carried(Part("&", Quotes(EscapeAll), "path")) /\ Carried(Part("&", Quotes(Escape), "path"))
    BY <2>1, QueryParts
  <2>3. /\ Alike(Part("&", Quotes(EscapeAll), "sslmode"), Part("&", Quotes(Escape), "sslmode"))
        /\ Carried(Part("&", Quotes(EscapeAll), "sslmode")) /\ Carried(Part("&", Quotes(Escape), "sslmode"))
    BY <2>1, QueryParts
  <2> HIDE DEF Quotes
  <2> QED
    BY <2>2, <2>3, AlikeJoined, CarriedJoined
<1>2. \A escape : Query(settings, escape) = IF Pairs(escape) = <<>> THEN <<>> ELSE <<"?">> \o Tail(Pairs(escape))
  BY DEF Query
<1> HIDE DEF Pairs
<1>3. Pairs(EscapeAll) = <<>> <=> Pairs(Escape) = <<>>
  BY <1>1 DEF Alike, Text
<1>4. "?" \in Token /\ "?" \notin {Semicolon, Blank}
  BY Signs, TokenAssumption
<1>5. CASE Pairs(Escape) = <<>>
  <2>1. Carried(<<>>) /\ Alike(<<>>, <<>>)
    BY <1>4, CarriedWord, AlikeSame, TokensAreTexts
  <2> QED
    BY <1>2, <1>3, <1>5, <2>1
<1>6. CASE Pairs(Escape) # <<>>
  BY <1>1, <1>2, <1>3, <1>4, <1>6, CarriedHead, AlikeHead
<1> QED
  BY <1>5, <1>6

\* The scheme and the database a section stands for.
LEMMA Defaults ==
  ASSUME NEW name \in Sections
  PROVE  /\ Carried(DefaultScheme(name)) /\ DefaultScheme(name) # <<>>
         /\ ~Contains(DefaultScheme(name), "=")
         /\ Carried(DefaultDatabase(name))
<1>1. /\ name \in Token /\ name \notin {"=", Semicolon, Blank}
      /\ {"postgresql", "postgres", "mysql", "information_schema"} \subseteq Token \ {Semicolon, Blank}
  BY SectionsAssumption, Signs
<1>2. PICK word \in Token : DefaultScheme(name) = <<word>> /\ word \notin {"=", Semicolon, Blank}
  <2>1. CASE name \in {"postgres", "postgresql"}
    BY <1>1, <2>1 DEF DefaultScheme
  <2>2. CASE name \in {"starrocks", "mysql", "singlestore"}
    BY <1>1, <2>2 DEF DefaultScheme
  <2>3. CASE name \notin {"postgres", "postgresql", "starrocks", "mysql", "singlestore"}
    BY <1>1, <2>3 DEF DefaultScheme
  <2> QED
    BY <2>1, <2>2, <2>3
<1>3. Carried(DefaultScheme(name)) /\ DefaultScheme(name) # <<>>
  BY <1>2, CarriedWord
<1>4. ~Contains(DefaultScheme(name), "=")
  <2>1. DOMAIN <<word>> = {1} /\ <<word>>[1] = word
    OBVIOUS
  <2> QED
    BY <1>2, <2>1 DEF Contains
<1>5. \/ DefaultDatabase(name) = <<>>
      \/ \E w \in Token \ {Semicolon, Blank} : DefaultDatabase(name) = <<w>>
  <2>1. CASE name \in {"postgres", "postgresql"}
    BY <1>1, <2>1 DEF DefaultDatabase
  <2>2. CASE name \in {"starrocks", "mysql", "singlestore"}
    BY <1>1, <2>2 DEF DefaultDatabase
  <2>3. CASE name \notin {"postgres", "postgresql", "starrocks", "mysql", "singlestore"}
    BY <1>1, <2>3 DEF DefaultDatabase
  <2> QED
    BY <2>1, <2>2, <2>3
<1> QED
  BY <1>2, <1>3, <1>4, <1>5, CarriedWord

\* Signs that URIs are joined with.
LEMMA Joints ==
  /\ \A sign \in {"?", "&", "/", ":", "@", "="} : Carried(<<sign>>) /\ <<sign>> \in Text
  /\ Carried(<<>>) /\ <<>> \in Text
  /\ Carried(<<":", "/", "/">>) /\ <<":", "/", "/">> \in Text
<1>1. \A sign \in {"?", "&", "/", ":", "@", "="} : sign \in Token /\ sign \notin {Semicolon, Blank}
  BY Signs, TokenAssumption
<1>2. /\ \A sign \in {"?", "&", "/", ":", "@", "="} : Carried(<<sign>>)
      /\ Carried(<<>>)
  BY <1>1, CarriedWord
<1>3. <<":">> \o <<"/">> = <<":", "/">>
  BY JoinPair
<1>4. <<":", "/">> \o <<"/">> = <<":", "/", "/">>
  BY JoinTriple
<1>5. Carried(<<":">> \o <<"/">>)
  BY <1>2, CarriedJoined
<1>6. Carried(<<":", "/", "/">>)
  BY <1>2, <1>3, <1>4, <1>5, CarriedJoined
<1> QED
  BY <1>2, <1>6 DEF Carried

\* The path of a URI.
LEMMA PathParts ==
  ASSUME NEW database \in Text
  PROVE  /\ Alike(PathPart(database, EscapeAll), PathPart(database, Escape))
         /\ Carried(PathPart(database, EscapeAll)) /\ Carried(PathPart(database, Escape))
<1>1. CASE database = <<>>
  BY <1>1, Joints, AlikeSame DEF PathPart
<1>2. CASE database # <<>>
  <2>1. \A escape : PathPart(database, escape) = <<"/">> \o Quote(database, escape)
    BY <1>2 DEF PathPart
  <2>2. Alike(<<"/">>, <<"/">>) /\ Carried(<<"/">>)
    BY Joints, AlikeSame
  <2>3. /\ Alike(Quote(database, EscapeAll), Quote(database, Escape))
        /\ Carried(Quote(database, EscapeAll)) /\ Carried(Quote(database, Escape))
    BY QuotedAlike, CarriedQuoted
  <2> QED
    BY <2>1, <2>2, <2>3, AlikeJoined, CarriedJoined
<1> QED
  BY <1>1, <1>2

\* Its user and password.
LEMMA CredentialParts ==
  ASSUME NEW user \in Text, NEW settings, IsConfig(settings)
  PROVE  /\ Alike(Credentials(user, settings, EscapeAll), Credentials(user, settings, Escape))
         /\ Carried(Credentials(user, settings, EscapeAll))
         /\ Carried(Credentials(user, settings, Escape))
<1>1. CASE user = <<>>
  BY <1>1, Joints, AlikeSame DEF Credentials
<1>2. CASE user # <<>>
  <2> DEFINE Password(escape) == IF Has(settings, "password")
                                   THEN <<":">> \o Quote(settings["password"], escape) ELSE <<>>
  <2>1. /\ Alike(Password(EscapeAll), Password(Escape))
        /\ Carried(Password(EscapeAll)) /\ Carried(Password(Escape))
    <3>1. CASE Has(settings, "password")
      <4>1. settings["password"] \in Text
        BY <3>1 DEF Has, IsConfig
      <4>2. /\ Alike(Quote(settings["password"], EscapeAll), Quote(settings["password"], Escape))
            /\ Carried(Quote(settings["password"], EscapeAll))
            /\ Carried(Quote(settings["password"], Escape))
        BY <4>1, QuotedAlike, CarriedQuoted
      <4>3. Alike(<<":">>, <<":">>) /\ Carried(<<":">>)
        BY Joints, AlikeSame
      <4> QED
        BY <3>1, <4>2, <4>3, AlikeJoined, CarriedJoined
    <3>2. CASE ~Has(settings, "password")
      BY <3>2, Joints, AlikeSame
    <3> QED
      BY <3>1, <3>2
  <2>2. \A escape : Credentials(user, settings, escape) = Quote(user, escape) \o Password(escape) \o <<"@">>
    BY <1>2 DEF Credentials
  <2> HIDE DEF Password
  <2>3. Alike(<<"@">>, <<"@">>) /\ Carried(<<"@">>)
    BY Joints, AlikeSame
  <2>4. /\ Alike(Quote(user, EscapeAll), Quote(user, Escape))
        /\ Carried(Quote(user, EscapeAll)) /\ Carried(Quote(user, Escape))
    BY QuotedAlike, CarriedQuoted
  <2>5. /\ Alike(Quote(user, EscapeAll) \o Password(EscapeAll), Quote(user, Escape) \o Password(Escape))
        /\ Carried(Quote(user, EscapeAll) \o Password(EscapeAll))
        /\ Carried(Quote(user, Escape) \o Password(Escape))
    BY <2>1, <2>4, AlikeJoined, CarriedJoined
  <2> QED
    BY <2>2, <2>3, <2>5, AlikeJoined, CarriedJoined
<1> QED
  BY <1>1, <1>2

\* That a text starts with another.
Begins(start, text) ==
  /\ start \in Text /\ text \in Text /\ Len(start) <= Len(text)
  /\ \A i \in 1..Len(start) : text[i] = start[i]

\* What a text starts with does not depend on what follows.
LEMMA BeginsJoined ==
  ASSUME NEW start, NEW text, NEW more \in Text, Begins(start, text)
  PROVE  Begins(start, text \o more)
<1>1. start \in Text /\ text \in Text /\ Len(start) \in Nat /\ Len(text) \in Nat /\ Len(more) \in Nat
  BY DEF Begins, Text
<1>2. /\ text \o more \in Text /\ Len(text \o more) = Len(text) + Len(more)
      /\ \A i \in 1..Len(text) : (text \o more)[i] = text[i]
  BY <1>1, Joined
<1> QED
  BY <1>1, <1>2 DEF Begins

\* The URIs of different escapings, and what every URI starts with.
LEMMA Uris ==
  ASSUME NEW scheme \in Text, NEW user \in Text, NEW settings, IsConfig(settings),
         NEW host \in Text, NEW port \in Text, NEW database \in Text
  PROVE  LET Made(escape) == Uri(scheme, user, settings, host, port, database, escape)
         IN  /\ Alike(Made(EscapeAll), Made(Escape))
             /\ Begins(scheme \o <<":", "/", "/">>, Made(EscapeAll))
             /\ Begins(scheme \o <<":", "/", "/">>, Made(Escape))
             /\ Carried(scheme) /\ Carried(host) /\ Carried(port) =>
                  Carried(Made(EscapeAll)) /\ Carried(Made(Escape))
<1> DEFINE Made(escape) == Uri(scheme, user, settings, host, port, database, escape)
           A(escape) == scheme \o <<":", "/", "/">>
           B(escape) == A(escape) \o Credentials(user, settings, escape)
           C(escape) == B(escape) \o host
           D(escape) == C(escape) \o port
           E(escape) == D(escape) \o PathPart(database, escape)
           F(escape) == E(escape) \o Query(settings, escape)
<1>1. \A escape : Made(escape) = F(escape)
  BY DEF Uri
<1> HIDE DEF Made
<1>2. Alike(A(EscapeAll), A(Escape)) /\ A(Escape) = scheme \o <<":", "/", "/">>
  BY AlikeSame, AlikeJoined, Joints
<1>3. Alike(B(EscapeAll), B(Escape))
  <2> HIDE DEF A
  <2> QED
    BY <1>2, CredentialParts, AlikeJoined
<1>4. Alike(C(EscapeAll), C(Escape))
  <2> HIDE DEF B
  <2> QED
    BY <1>3, AlikeSame, AlikeJoined
<1>5. Alike(D(EscapeAll), D(Escape))
  <2> HIDE DEF C
  <2> QED
    BY <1>4, AlikeSame, AlikeJoined
<1>6. Alike(E(EscapeAll), E(Escape))
  <2> HIDE DEF D
  <2> QED
    BY <1>5, PathParts, AlikeJoined
<1>7. Alike(F(EscapeAll), F(Escape))
  <2> HIDE DEF E
  <2> QED
    BY <1>6, Queries, AlikeJoined
<1>8. ASSUME NEW escape \in {EscapeAll, Escape}
      PROVE  Begins(scheme \o <<":", "/", "/">>, F(escape))
  <2>1. Begins(A(escape), A(escape))
    <3>1. A(escape) \in Text
      BY Joints, Joined
    <3> HIDE DEF A
    <3>2. Len(A(escape)) \in Nat
      BY <3>1 DEF Text
    <3> QED
      BY <3>1, <3>2 DEF Begins
  <2>2. /\ Credentials(user, settings, escape) \in Text /\ PathPart(database, escape) \in Text
        /\ Query(settings, escape) \in Text
    <3>1. CASE escape = EscapeAll
      BY <3>1, CredentialParts, PathParts, Queries DEF Alike
    <3>2. CASE escape = Escape
      BY <3>2, CredentialParts, PathParts, Queries DEF Alike
    <3> QED
      BY <3>1, <3>2
  <2>3. Begins(A(escape), B(escape))
    BY <2>1, <2>2, BeginsJoined
  <2>4. Begins(A(escape), C(escape))
    BY <2>3, BeginsJoined
  <2>5. Begins(A(escape), D(escape))
    BY <2>4, BeginsJoined
  <2>6. Begins(A(escape), E(escape))
    BY <2>5, <2>2, BeginsJoined
  <2> QED
    BY <2>6, <2>2, BeginsJoined
<1>9. ASSUME NEW escape \in {EscapeAll, Escape}, Carried(scheme), Carried(host), Carried(port)
      PROVE  Carried(F(escape))
  <2>1. /\ Carried(Credentials(user, settings, escape)) /\ Carried(PathPart(database, escape))
        /\ Carried(Query(settings, escape))
    <3>1. CASE escape = EscapeAll
      BY <3>1, CredentialParts, PathParts, Queries
    <3>2. CASE escape = Escape
      BY <3>2, CredentialParts, PathParts, Queries
    <3> QED
      BY <3>1, <3>2
  <2>2. Carried(A(escape))
    BY <1>9, Joints, CarriedJoined
  <2>3. Carried(B(escape))
    BY <2>1, <2>2, CarriedJoined
  <2>4. Carried(C(escape))
    BY <1>9, <2>3, CarriedJoined
  <2>5. Carried(D(escape))
    BY <1>9, <2>4, CarriedJoined
  <2>6. Carried(E(escape))
    BY <2>1, <2>5, CarriedJoined
  <2> QED
    BY <2>1, <2>6, CarriedJoined
<1> HIDE DEF F
<1> QED
  BY <1>1, <1>7, <1>8, <1>9 DEF Made

-----------------------------------------------------------------------------
(* Another database in a URI *)

\* A part of a text.
LEMMA Subtext ==
  ASSUME NEW text \in Text, NEW from \in Nat \ {0}, NEW to \in Nat, to <= Len(text)
  PROVE  /\ SubSeq(text, from, to) \in Text
         /\ Len(SubSeq(text, from, to)) = IF from <= to THEN to - from + 1 ELSE 0
         /\ \A i \in 1..Len(SubSeq(text, from, to)) :
              SubSeq(text, from, to)[i] = text[from + i - 1] /\ from + i - 1 \in from..to
BY DEF Text

\* A text without semicolons and blanks.
Clean(text) == text \in Text /\ \A i \in 1..Len(text) : text[i] \notin {Semicolon, Blank}

\* It is carried.
LEMMA CleanCarried ==
  ASSUME NEW text, Clean(text)
  PROVE  Carried(text)
<1>1. text \in Text /\ DOMAIN text = 1..Len(text) /\ Len(text) \in Nat /\ (text # <<>> => Len(text) # 0)
  BY DEF Clean, Text
<1> QED
  BY <1>1 DEF Clean, Carried, Contains

\* So is every part of it.
LEMMA CleanPart ==
  ASSUME NEW text, Clean(text), NEW from \in Nat \ {0}, NEW to \in Nat, to <= Len(text)
  PROVE  Carried(SubSeq(text, from, to))
<1> DEFINE part == SubSeq(text, from, to)
<1>1. text \in Text /\ Len(text) \in Nat
  BY DEF Clean, Text
<1>2. /\ part \in Text
      /\ \A i \in 1..Len(part) : part[i] = text[from + i - 1] /\ from + i - 1 \in 1..Len(text)
  BY <1>1, Subtext
<1> HIDE DEF part
<1>3. Clean(part)
  BY <1>2 DEF Clean
<1> QED
  BY <1>3, CleanCarried DEF part

\* Where Rust cuts a URI.
LEMMA RustCuts ==
  ASSUME NEW uri \in Text, Authorities(uri) # {}
  PROVE  LET start == CHOOSE i \in Authorities(uri) : \A j \in Authorities(uri) : i <= j
             fragment == FirstOf({"#"}, uri, start, Len(uri) + 1)
             query == FirstOf({"?"}, uri, start, fragment)
             path == FirstOf({"/"}, uri, start, query)
         IN  /\ start \in Authorities(uri) /\ \A j \in Authorities(uri) : start <= j
             /\ start \in 4..(Len(uri) + 1) /\ Len(uri) \in Nat
             /\ IsFirst(fragment, {"#"}, uri, start, Len(uri) + 1)
             /\ IsFirst(query, {"?"}, uri, start, fragment)
             /\ IsFirst(path, {"/"}, uri, start, query)
<1> DEFINE start == CHOOSE i \in Authorities(uri) : \A j \in Authorities(uri) : i <= j
           fragment == FirstOf({"#"}, uri, start, Len(uri) + 1)
           query == FirstOf({"?"}, uri, start, fragment)
           path == FirstOf({"/"}, uri, start, query)
<1>1. Len(uri) \in Nat /\ Authorities(uri) \subseteq 4..(Len(uri) + 1)
  BY DEF Text, Authorities
<1>2. \E i \in Authorities(uri) : \A j \in Authorities(uri) : i <= j
  <2>1. Authorities(uri) \subseteq Nat
    BY <1>1
  <2> QED
    BY <2>1, Least
<1>3. start \in Authorities(uri) /\ \A j \in Authorities(uri) : start <= j
  BY <1>2
<1>4. start \in 4..(Len(uri) + 1)
  BY <1>1, <1>3
<1> HIDE DEF start
<1>5. IsFirst(fragment, {"#"}, uri, start, Len(uri) + 1)
  BY <1>1, <1>4, FirstOfIsFirst
<1>6. fragment \in start..(Len(uri) + 1)
  BY <1>5 DEF IsFirst
<1> HIDE DEF fragment
<1>7. IsFirst(query, {"?"}, uri, start, fragment)
  BY <1>1, <1>4, <1>6, FirstOfIsFirst
<1>8. query \in start..fragment
  BY <1>7 DEF IsFirst
<1> HIDE DEF query
<1>9. IsFirst(path, {"/"}, uri, start, query)
  BY <1>1, <1>4, <1>6, <1>8, FirstOfIsFirst
<1> QED
  BY <1>1, <1>3, <1>4, <1>5, <1>7, <1>9 DEF start, fragment, query

\* Where Node cuts one.
LEMMA NodeCuts ==
  ASSUME NEW uri \in Text, IsUrl(uri)
  PROVE  LET path == FirstOf({"/", "?", "#"}, uri, 5, Len(uri) + 1)
             rest == FirstOf({"?", "#"}, uri, path, Len(uri) + 1)
         IN  /\ Len(uri) \in Nat /\ 5 <= Len(uri) + 1 /\ 5 \in Authorities(uri)
             /\ IsFirst(path, {"/", "?", "#"}, uri, 5, Len(uri) + 1)
             /\ IsFirst(rest, {"?", "#"}, uri, path, Len(uri) + 1)
             /\ \A i : IsFirst(i, {"/", "?", "#"}, uri, 5, Len(uri) + 1) => i = path
             /\ \A i : IsFirst(i, {"?", "#"}, uri, path, Len(uri) + 1) => i = rest
<1> DEFINE path == FirstOf({"/", "?", "#"}, uri, 5, Len(uri) + 1)
           rest == FirstOf({"?", "#"}, uri, path, Len(uri) + 1)
<1>1. Len(uri) \in Nat /\ 5 <= Len(uri) + 1 /\ 5 \in Authorities(uri)
  BY DEF Text, IsUrl, Authorities
<1>2. /\ IsFirst(path, {"/", "?", "#"}, uri, 5, Len(uri) + 1)
      /\ \A i : IsFirst(i, {"/", "?", "#"}, uri, 5, Len(uri) + 1) => i = path
  BY <1>1, FirstOfIsFirst
<1>3. path \in 5..(Len(uri) + 1)
  BY <1>2 DEF IsFirst
<1> HIDE DEF path
<1>4. /\ IsFirst(rest, {"?", "#"}, uri, path, Len(uri) + 1)
      /\ \A i : IsFirst(i, {"?", "#"}, uri, path, Len(uri) + 1) => i = rest
  BY <1>1, <1>3, FirstOfIsFirst
<1> QED
  BY <1>1, <1>2, <1>4 DEF path, rest

\* Both bindings put the same path in the same place of a URL.
LEMMA OverridesAlike ==
  ASSUME NEW uri \in Text, NEW other \in Text \cup {None},
         other = None \/ Authorities(uri) = {} \/ IsUrl(uri)
  PROVE  Alike(RustOverride(uri, other), NodeOverride(uri, other))
<1>1. CASE other = None \/ Authorities(uri) = {}
  <2>1. RustOverride(uri, other) = uri /\ NodeOverride(uri, other) = uri
    BY <1>1 DEF RustOverride, NodeOverride, IsUrl
  <2> QED
    BY <2>1, AlikeSame
<1>2. CASE other # None /\ IsUrl(uri)
  <2> DEFINE start == CHOOSE i \in Authorities(uri) : \A j \in Authorities(uri) : i <= j
             fragment == FirstOf({"#"}, uri, start, Len(uri) + 1)
             query == FirstOf({"?"}, uri, start, fragment)
             path == FirstOf({"/"}, uri, start, query)
             npath == FirstOf({"/", "?", "#"}, uri, 5, Len(uri) + 1)
             rest == FirstOf({"?", "#"}, uri, npath, Len(uri) + 1)
  <2>1. 5 \in Authorities(uri) /\ uri[1] # ":"
    BY <1>2, Escapes DEF IsUrl
  <2>2. /\ start \in Authorities(uri) /\ \A j \in Authorities(uri) : start <= j
        /\ start \in 4..(Len(uri) + 1) /\ Len(uri) \in Nat
        /\ IsFirst(fragment, {"#"}, uri, start, Len(uri) + 1)
        /\ IsFirst(query, {"?"}, uri, start, fragment)
        /\ IsFirst(path, {"/"}, uri, start, query)
    BY <2>1, RustCuts
  <2>3. /\ \A i : IsFirst(i, {"/", "?", "#"}, uri, 5, Len(uri) + 1) => i = npath
        /\ \A i : IsFirst(i, {"?", "#"}, uri, npath, Len(uri) + 1) => i = rest
    BY <1>2, NodeCuts
  <2>4. RustOverride(uri, other) =
          SubSeq(uri, 1, path - 1) \o PathPart(other, EscapeAll) \o SubSeq(uri, query, Len(uri))
    BY <1>2, <2>1 DEF RustOverride
  <2>5. NodeOverride(uri, other) =
          SubSeq(uri, 1, npath - 1) \o PathPart(other, Escape) \o SubSeq(uri, rest, Len(uri))
    BY <1>2 DEF NodeOverride
  <2> HIDE DEF start, fragment, query, path, npath, rest
  <2>6. start = 5
    <3>1. 4 \notin Authorities(uri)
      BY <2>1 DEF Authorities
    <3> QED
      BY <2>1, <2>2, <3>1
  <2>7. fragment \in 5..(Len(uri) + 1) /\ query \in 5..fragment /\ path \in 5..query
    BY <2>2, <2>6 DEF IsFirst
  <2>8. path = npath
    <3>1. IsFirst(path, {"/", "?", "#"}, uri, 5, Len(uri) + 1)
      BY <2>2, <2>6, <2>7 DEF IsFirst
    <3> QED
      BY <2>3, <3>1
  <2>9. query = rest
    <3>1. IsFirst(query, {"?", "#"}, uri, npath, Len(uri) + 1)
      BY <2>2, <2>6, <2>7, <2>8 DEF IsFirst
    <3> QED
      BY <2>3, <3>1
  <2>10. SubSeq(uri, 1, path - 1) \in Text /\ SubSeq(uri, query, Len(uri)) \in Text
    <3>1. path - 1 \in Nat /\ path - 1 <= Len(uri) /\ query \in Nat \ {0}
      BY <2>2, <2>7
    <3>2. SubSeq(uri, 1, path - 1) \in Text
      BY <3>1, Subtext
    <3>3. SubSeq(uri, query, Len(uri)) \in Text
      BY <2>2, <3>1, Subtext
    <3> QED
      BY <3>2, <3>3
  <2>11. Alike(PathPart(other, EscapeAll), PathPart(other, Escape))
    BY <1>2, PathParts
  <2>12. Alike(SubSeq(uri, 1, path - 1) \o PathPart(other, EscapeAll),
               SubSeq(uri, 1, npath - 1) \o PathPart(other, Escape))
    BY <2>8, <2>10, <2>11, AlikeSame, AlikeJoined
  <2> QED
    BY <2>4, <2>5, <2>9, <2>10, <2>12, AlikeSame, AlikeJoined
<1> QED
  BY <1>1, <1>2

\* What they make of a URI without semicolons and blanks has none either.
LEMMA OverridesCarried ==
  ASSUME NEW uri, Clean(uri), NEW other \in Text \cup {None}
  PROVE  Carried(RustOverride(uri, other)) /\ Carried(NodeOverride(uri, other))
<1>1. uri \in Text /\ Carried(uri)
  BY CleanCarried DEF Clean
<1>2. Carried(RustOverride(uri, other))
  <2>1. CASE other = None \/ Authorities(uri) = {}
    BY <1>1, <2>1 DEF RustOverride
  <2>2. CASE other # None /\ Authorities(uri) # {}
    <3> DEFINE start == CHOOSE i \in Authorities(uri) : \A j \in Authorities(uri) : i <= j
               fragment == FirstOf({"#"}, uri, start, Len(uri) + 1)
               query == FirstOf({"?"}, uri, start, fragment)
               path == FirstOf({"/"}, uri, start, query)
    <3>1. /\ start \in 4..(Len(uri) + 1) /\ Len(uri) \in Nat
          /\ IsFirst(fragment, {"#"}, uri, start, Len(uri) + 1)
          /\ IsFirst(query, {"?"}, uri, start, fragment)
          /\ IsFirst(path, {"/"}, uri, start, query)
      BY <1>1, <2>2, RustCuts
    <3>2. RustOverride(uri, other) =
            SubSeq(uri, 1, path - 1) \o PathPart(other, EscapeAll) \o SubSeq(uri, query, Len(uri))
      BY <2>2 DEF RustOverride
    <3> HIDE DEF start, fragment, query, path
    <3>3. path \in 4..(Len(uri) + 1) /\ query \in 4..(Len(uri) + 1)
      BY <3>1 DEF IsFirst
    <3>4. Carried(SubSeq(uri, 1, path - 1)) /\ Carried(SubSeq(uri, query, Len(uri)))
      BY <3>1, <3>3, CleanPart
    <3>5. Carried(PathPart(other, EscapeAll))
      BY <2>2, PathParts
    <3> QED
      BY <3>2, <3>4, <3>5, CarriedJoined
  <2> QED
    BY <2>1, <2>2
<1>3. Carried(NodeOverride(uri, other))
  <2>1. CASE other = None \/ ~IsUrl(uri)
    BY <1>1, <2>1 DEF NodeOverride
  <2>2. CASE other # None /\ IsUrl(uri)
    <3> DEFINE path == FirstOf({"/", "?", "#"}, uri, 5, Len(uri) + 1)
               rest == FirstOf({"?", "#"}, uri, path, Len(uri) + 1)
    <3>1. /\ Len(uri) \in Nat /\ 5 <= Len(uri) + 1
          /\ IsFirst(path, {"/", "?", "#"}, uri, 5, Len(uri) + 1)
          /\ IsFirst(rest, {"?", "#"}, uri, path, Len(uri) + 1)
      BY <1>1, <2>2, NodeCuts
    <3>2. NodeOverride(uri, other) =
            SubSeq(uri, 1, path - 1) \o PathPart(other, Escape) \o SubSeq(uri, rest, Len(uri))
      BY <2>2 DEF NodeOverride
    <3> HIDE DEF path, rest
    <3>3. path \in 5..(Len(uri) + 1) /\ rest \in 5..(Len(uri) + 1)
      BY <3>1 DEF IsFirst
    <3>4. Carried(SubSeq(uri, 1, path - 1)) /\ Carried(SubSeq(uri, rest, Len(uri)))
      BY <3>1, <3>3, CleanPart
    <3>5. Carried(PathPart(other, Escape))
      BY <2>2, PathParts
    <3> QED
      BY <3>2, <3>4, <3>5, CarriedJoined
  <2> QED
    BY <2>1, <2>2
<1> QED
  BY <1>2, <1>3

-----------------------------------------------------------------------------
(* The bindings agree *)

\* No setting is empty.
Full(settings) == \A field \in DOMAIN settings : settings[field] # <<>>

\* What a binding fills in.
Parts(name, settings, other) ==
  [ scheme |-> Given(settings, "scheme", DefaultScheme(name)),
    user |-> Given(settings, "user", <<>>),
    host |-> Given(settings, "host", <<"127.0.0.1">>),
    port |-> IF Has(settings, "port") THEN <<":">> \o settings["port"] ELSE <<>>,
    database |-> Database(Given(settings, "database", DefaultDatabase(name)), other) ]

\* They are texts.
LEMMA PartsAreTexts ==
  ASSUME NEW name \in Sections, NEW settings, IsConfig(settings), NEW other \in Text \cup {None}
  PROVE  LET made == Parts(name, settings, other)
         IN  /\ made.scheme \in Text /\ made.user \in Text /\ made.host \in Text
             /\ made.port \in Text /\ made.database \in Text
<1>1. /\ DefaultScheme(name) \in Text /\ DefaultDatabase(name) \in Text
      /\ <<>> \in Text /\ <<":">> \in Text /\ <<"127.0.0.1">> \in Text
  <2>1. "127.0.0.1" \in Token
    BY TokenAssumption
  <2> QED
    BY <2>1, Defaults, Joints, TokensAreTexts DEF Carried
<1>2. \A field, default : default \in Text => Given(settings, field, default) \in Text
  BY DEF Given, Has, IsConfig
<1>3. Given(settings, "scheme", DefaultScheme(name)) \in Text
  BY <1>1, <1>2
<1>4. Given(settings, "user", <<>>) \in Text /\ Given(settings, "host", <<"127.0.0.1">>) \in Text
  BY <1>1, <1>2
<1>5. Database(Given(settings, "database", DefaultDatabase(name)), other) \in Text
  BY <1>1, <1>2 DEF Database
<1>6. (IF Has(settings, "port") THEN <<":">> \o settings["port"] ELSE <<>>) \in Text
  BY <1>1, Joined DEF Has, IsConfig
<1> QED
  BY <1>3, <1>4, <1>5, <1>6 DEF Parts

\* Without empty settings, empty and absent are the same.
LEMMA NonEmptyIsGiven ==
  ASSUME NEW settings, Full(settings)
  PROVE  /\ \A field, default : NonEmpty(settings, field, default) = Given(settings, field, default)
         /\ PortPart(Given(settings, "port", <<>>)) =
              IF Has(settings, "port") THEN <<":">> \o settings["port"] ELSE <<>>
<1>1. \A field, default : NonEmpty(settings, field, default) = Given(settings, field, default)
  BY DEF NonEmpty, Given, Has, Full
<1>2. CASE Has(settings, "port")
  BY <1>1, <1>2 DEF Given, Has, Full, PortPart
<1>3. CASE ~Has(settings, "port")
  BY <1>1, <1>3 DEF Given, PortPart
<1> QED
  BY <1>1, <1>2, <1>3

\* The two URIs in terms of their parts.
LEMMA UrisFromParts ==
  ASSUME NEW name, NEW settings, Full(settings), NEW other, ~Has(settings, "uri")
  PROVE  LET made == Parts(name, settings, other)
         IN  /\ RustUri(name, settings, other) =
                  Uri(made.scheme, made.user, settings, made.host, made.port, made.database, EscapeAll)
             /\ NodeUri(name, settings, other) =
                  Uri(made.scheme, made.user, settings, made.host, made.port, made.database, Escape)
BY NonEmptyIsGiven DEF Parts, RustUri, NodeUri

\* Where the replaced database is the path of the URI.
PathIsReplaced(settings, other) ==
  \/ other = None \/ ~Has(settings, "uri")
  \/ Authorities(settings["uri"]) = {} \/ IsUrl(settings["uri"])

\* There, and without another database, Rust and Node build the same URI.
LEMMA UrisAgree ==
  ASSUME NEW name \in Sections, NEW settings, IsConfig(settings), Full(settings),
         NEW other \in Text \cup {None}, PathIsReplaced(settings, other)
  PROVE  Alike(RustUri(name, settings, other), NodeUri(name, settings, other))
<1>1. CASE Has(settings, "uri")
  <2>1. settings["uri"] \in Text
    BY <1>1 DEF Has, IsConfig
  <2> QED
    BY <1>1, <2>1, OverridesAlike DEF RustUri, NodeUri, PathIsReplaced
<1>2. CASE ~Has(settings, "uri")
  <2> DEFINE made == Parts(name, settings, other)
  <2>1. /\ made.scheme \in Text /\ made.user \in Text /\ made.host \in Text
        /\ made.port \in Text /\ made.database \in Text
    BY PartsAreTexts
  <2>2. /\ RustUri(name, settings, other) =
             Uri(made.scheme, made.user, settings, made.host, made.port, made.database, EscapeAll)
        /\ NodeUri(name, settings, other) =
             Uri(made.scheme, made.user, settings, made.host, made.port, made.database, Escape)
    BY <1>2, UrisFromParts
  <2> HIDE DEF made
  <2> QED
    BY <2>1, <2>2, Uris
<1> QED
  BY <1>1, <1>2

\* A setting of an option string, after a semicolon.
LEMMA OptionParts ==
  ASSUME NEW settings, IsConfig(settings), NEW field \in OptionFields \cup ExtraFields
  PROVE  Part(Semicolon, settings, field) \in Text
<1>1. field \in Token /\ Semicolon \in Token /\ "=" \in Token
  BY TokenAssumption
<1>2. <<Semicolon, field, "=">> \in Text /\ <<>> \in Text
  BY <1>1, TokensAreTexts
<1> QED
  BY <1>2, Joined DEF Part, Assign, Has, IsConfig

\* The option strings of URIs that are alike are alike.
LEMMA OptionStringsAlike ==
  ASSUME NEW settings, IsConfig(settings), IsOptionString(settings), NEW a, NEW b, Alike(a, b)
  PROVE  Alike(OptionString(settings, a), OptionString(settings, b))
<1> DEFINE First == Part(Semicolon, settings, "driver")
           Second == First \o Part(Semicolon, settings, "entrypoint")
           Third == Second \o Part(Semicolon, settings, "additional_manifest_search_path_list")
           Last(uri) == IF Has(settings, "uri") \/ HasUriComponents(settings)
                          THEN Assign(Semicolon, "uri", uri)
                          ELSE Part(Semicolon, settings, "path") \o Part(Semicolon, settings, "sslmode")
           All(uri) == Third \o Last(uri)
<1>1. \A uri : OptionString(settings, uri) = Tail(All(uri))
  BY DEF OptionString
<1>2. /\ {"driver", "entrypoint", "additional_manifest_search_path_list"} \subseteq OptionFields
      /\ {"path", "sslmode"} \subseteq ExtraFields
  BY DEF OptionFields, ExtraFields
<1>3. First \in Text /\ Second \in Text /\ Third \in Text
  <2>1. First \in Text /\ Part(Semicolon, settings, "entrypoint") \in Text
        /\ Part(Semicolon, settings, "additional_manifest_search_path_list") \in Text
    BY <1>2, OptionParts
  <2>2. Second \in Text
    BY <2>1, Joined
  <2> QED
    BY <2>1, <2>2, Joined
<1>4. Alike(Last(a), Last(b))
  <2>1. CASE Has(settings, "uri") \/ HasUriComponents(settings)
    <3>1. <<Semicolon, "uri", "=">> \in Text
      BY TokenAssumption, TokensAreTexts
    <3> QED
      BY <2>1, <3>1, AlikeSame, AlikeJoined DEF Assign
  <2>2. CASE ~(Has(settings, "uri") \/ HasUriComponents(settings))
    <3>1. Part(Semicolon, settings, "path") \in Text /\ Part(Semicolon, settings, "sslmode") \in Text
      BY <1>2, OptionParts
    <3>2. Part(Semicolon, settings, "path") \o Part(Semicolon, settings, "sslmode") \in Text
      BY <3>1, Joined
    <3> QED
      BY <2>2, <3>2, AlikeSame
  <2> QED
    BY <2>1, <2>2
<1>5. All(a) # <<>>
  <2>1. Third # <<>> \/ Last(a) # <<>>
    <3>1. CASE Has(settings, "uri")
      BY <3>1 DEF Assign, Alike, Text
    <3>2. CASE \E field \in OptionFields : Has(settings, field)
      <4>1. \A x, y : x \in Text /\ y \in Text /\ x \o y = <<>> => x = <<>> /\ y = <<>>
        BY DEF Text
      <4>2. \A field \in OptionFields : Has(settings, field) => Part(Semicolon, settings, field) # <<>>
        BY DEF Part, Assign, Has, IsConfig, Text
      <4>3. /\ First \in Text /\ Part(Semicolon, settings, "entrypoint") \in Text
            /\ Part(Semicolon, settings, "additional_manifest_search_path_list") \in Text
        BY <1>2, OptionParts
      <4> SUFFICES ASSUME Third = <<>>
                   PROVE  FALSE
        OBVIOUS
      <4>4. Second = <<>> /\ Part(Semicolon, settings, "additional_manifest_search_path_list") = <<>>
        BY <1>3, <4>1, <4>3
      <4>5. First = <<>> /\ Part(Semicolon, settings, "entrypoint") = <<>>
        BY <4>1, <4>3, <4>4
      <4> QED
        BY <3>2, <4>2, <4>4, <4>5 DEF OptionFields
    <3> QED
      BY <3>1, <3>2 DEF IsOptionString
  <2> HIDE DEF Third, Last
  <2> QED
    BY <1>3, <1>4, <2>1 DEF Alike, Text
<1> HIDE DEF Third, Last
<1>6. Alike(All(a), All(b))
  BY <1>3, <1>4, AlikeSame, AlikeJoined
<1> HIDE DEF All
<1> QED
  BY <1>1, <1>5, <1>6, AlikeTails

\* Rust and Node build the same DSN.
LEMMA DsnsAlike ==
  ASSUME NEW name \in Sections, NEW settings, IsConfig(settings), Full(settings),
         NEW other \in Text \cup {None}, PathIsReplaced(settings, other)
  PROVE  Alike(RustDsn(name, settings, other), NodeDsn(name, settings, other))
<1>1. Alike(RustUri(name, settings, other), NodeUri(name, settings, other))
  BY UrisAgree
<1>2. CASE Has(settings, "dsn") /\ other = None
  <2>1. settings["dsn"] \in Text /\ settings["dsn"] # <<>>
    BY <1>2 DEF Has, IsConfig, Full
  <2> QED
    BY <1>2, <2>1, AlikeSame DEF RustDsn, NodeDsn
<1>3. CASE ~(Has(settings, "dsn") /\ other = None) /\ IsOptionString(settings)
  BY <1>1, <1>3, OptionStringsAlike DEF RustDsn, NodeDsn
<1>4. CASE ~(Has(settings, "dsn") /\ other = None) /\ ~IsOptionString(settings)
  BY <1>1, <1>4 DEF RustDsn, NodeDsn
<1> QED
  BY <1>2, <1>3, <1>4

\* A section's defaults add a scheme and a database and change nothing else.
LEMMA DefaultsAdd ==
  ASSUME NEW name, NEW settings, IsConfig(settings), Full(settings),
         ~Has(settings, "dsn"), ~Has(settings, "uri"),
         HasUriComponents(settings) \/ ~IsOptionString(settings)
  PROVE  LET given == SectionDefaults(name, settings)
         IN  /\ \A field : Has(given, field) <=> Has(settings, field) \/ field \in {"scheme", "database"}
             /\ \A field : Has(settings, field) => given[field] = settings[field]
             /\ given["scheme"] = Given(settings, "scheme", DefaultScheme(name))
             /\ given["database"] = Given(settings, "database", DefaultDatabase(name))
<1> DEFINE given == [field \in DOMAIN settings \cup {"scheme", "database"} |->
                       Given(settings, field,
                             IF field = "scheme" THEN DefaultScheme(name) ELSE DefaultDatabase(name))]
<1>1. SectionDefaults(name, settings) = given
  BY DEF SectionDefaults
<1>2. DOMAIN given = DOMAIN settings \cup {"scheme", "database"}
  OBVIOUS
<1>3. \A field : Has(settings, field) => given[field] = settings[field]
  BY DEF Has, Given
<1>4. /\ given["scheme"] = Given(settings, "scheme", DefaultScheme(name))
      /\ given["database"] = Given(settings, "database", DefaultDatabase(name))
  OBVIOUS
<1> HIDE DEF given
<1> QED
  BY <1>1, <1>2, <1>3, <1>4 DEF Has

\* With these, Python builds the URI of Rust.
LEMMA PythonUris ==
  ASSUME NEW name, NEW settings, IsConfig(settings), Full(settings),
         ~Has(settings, "dsn"), ~Has(settings, "uri"),
         HasUriComponents(settings) \/ ~IsOptionString(settings)
  PROVE  PythonUri(SectionDefaults(name, settings)) = RustUri(name, settings, None)
<1> DEFINE given == SectionDefaults(name, settings)
           made == Parts(name, settings, None)
<1>1. /\ \A field : Has(given, field) <=> Has(settings, field) \/ field \in {"scheme", "database"}
      /\ \A field : Has(settings, field) => given[field] = settings[field]
      /\ given["scheme"] = Given(settings, "scheme", DefaultScheme(name))
      /\ given["database"] = Given(settings, "database", DefaultDatabase(name))
  BY DefaultsAdd
<1> HIDE DEF given
<1>2. \A user, escape : Credentials(user, given, escape) = Credentials(user, settings, escape)
  <2>1. /\ Has(given, "password") <=> Has(settings, "password")
        /\ Has(settings, "password") => given["password"] = settings["password"]
    BY <1>1
  <2> QED
    BY <2>1 DEF Credentials
<1>3. \A escape : Query(given, escape) = Query(settings, escape)
  <2> TAKE escape
  <2> DEFINE Quotes(c) == [field \in DOMAIN c |-> Quote(c[field], escape)]
  <2>1. ASSUME NEW field \in {"path", "sslmode"}
        PROVE  Part("&", Quotes(given), field) = Part("&", Quotes(settings), field)
    <3>1. Has(given, field) <=> Has(settings, field)
      BY <1>1
    <3>2. Has(settings, field) => given[field] = settings[field]
      BY <1>1
    <3> QED
      BY <3>1, <3>2 DEF Part, Has
  <2>2. \A c : Query(c, escape) =
                LET pairs == Part("&", Quotes(c), "path") \o Part("&", Quotes(c), "sslmode")
                IN  IF pairs = <<>> THEN <<>> ELSE <<"?">> \o Tail(pairs)
    BY DEF Query
  <2> HIDE DEF Quotes
  <2> QED
    BY <2>1, <2>2
<1>4. \A scheme, user, host, port, database :
        Uri(scheme, user, given, host, port, database, EscapeAll)
          = Uri(scheme, user, settings, host, port, database, EscapeAll)
  BY <1>2, <1>3 DEF Uri
<1>5. PythonUri(given) =
        Uri(given["scheme"], Given(given, "user", <<>>), given,
            NonEmpty(given, "host", <<"127.0.0.1">>), PortPart(Given(given, "port", <<>>)),
            Given(given, "database", <<>>), EscapeAll)
  <2>1. ~Has(given, "uri")
    BY <1>1
  <2> QED
    BY <2>1 DEF PythonUri
<1>6. /\ given["scheme"] = made.scheme /\ Given(given, "user", <<>>) = made.user
      /\ NonEmpty(given, "host", <<"127.0.0.1">>) = made.host
      /\ PortPart(Given(given, "port", <<>>)) = made.port
      /\ Given(given, "database", <<>>) = made.database
  <2>1. \A field, default : field \notin {"scheme", "database"} =>
           Given(given, field, default) = Given(settings, field, default)
    BY <1>1 DEF Given
  <2>2. given["scheme"] = made.scheme /\ Given(given, "user", <<>>) = made.user
    BY <1>1, <2>1 DEF Parts
  <2>3. NonEmpty(given, "host", <<"127.0.0.1">>) = made.host
    <3>1. NonEmpty(given, "host", <<"127.0.0.1">>) = NonEmpty(settings, "host", <<"127.0.0.1">>)
      BY <1>1 DEF NonEmpty
    <3> QED
      BY <3>1, NonEmptyIsGiven DEF Parts
  <2>4. PortPart(Given(given, "port", <<>>)) = made.port
    BY <2>1, NonEmptyIsGiven DEF Parts
  <2>5. Given(given, "database", <<>>) = made.database
    <3>1. Has(given, "database")
      BY <1>1
    <3> QED
      BY <1>1, <3>1 DEF Given, Parts, Database
  <2> QED
    BY <2>2, <2>3, <2>4, <2>5
<1>7. RustUri(name, settings, None) =
        Uri(made.scheme, made.user, settings, made.host, made.port, made.database, EscapeAll)
  BY UrisFromParts
<1> HIDE DEF made
<1> QED
  BY <1>4, <1>5, <1>6, <1>7 DEF given

\* Without another database, Python's text is Rust's.
LEMMA PythonAgrees ==
  ASSUME NEW name, NEW settings, IsConfig(settings), Full(settings)
  PROVE  PythonDsn(name, settings) = RustDsn(name, settings, None)
<1> DEFINE given == SectionDefaults(name, settings)
<1>1. CASE Has(settings, "dsn")
  <2>1. given = settings
    BY <1>1 DEF SectionDefaults
  <2>2. settings["dsn"] # <<>>
    BY <1>1 DEF Has, Full
  <2> HIDE DEF given
  <2>3. PythonDsn(name, settings) = settings["dsn"]
    BY <1>1, <2>1, <2>2 DEF PythonDsn, given
  <2> QED
    BY <1>1, <2>3 DEF RustDsn
<1>2. CASE ~Has(settings, "dsn") /\ Has(settings, "uri")
  <2>1. given = settings /\ IsOptionString(settings)
    BY <1>2 DEF SectionDefaults, IsOptionString
  <2>2. PythonUri(settings) = settings["uri"] /\ RustUri(name, settings, None) = settings["uri"]
    BY <1>2 DEF PythonUri, RustUri, RustOverride
  <2> QED
    BY <1>2, <2>1, <2>2 DEF PythonDsn, RustDsn
<1>3. CASE ~Has(settings, "dsn") /\ ~Has(settings, "uri") /\ ~HasUriComponents(settings)
             /\ IsOptionString(settings)
  <2>1. given = settings
    BY <1>3 DEF SectionDefaults
  <2>2. \A a, b : OptionString(settings, a) = OptionString(settings, b)
    BY <1>3 DEF OptionString
  <2>3. PythonDsn(name, settings) = OptionString(settings, <<>>)
    BY <1>3, <2>1 DEF PythonDsn
  <2>4. RustDsn(name, settings, None) = OptionString(settings, RustUri(name, settings, None))
    BY <1>3 DEF RustDsn
  <2> QED
    BY <2>2, <2>3, <2>4
<1>4. CASE ~Has(settings, "dsn") /\ ~Has(settings, "uri")
             /\ (HasUriComponents(settings) \/ ~IsOptionString(settings))
  <2>1. /\ \A field : Has(given, field) <=> Has(settings, field) \/ field \in {"scheme", "database"}
        /\ \A field : Has(settings, field) => given[field] = settings[field]
    BY <1>4, DefaultsAdd
  <2>2. PythonUri(given) = RustUri(name, settings, None)
    BY <1>4, PythonUris
  <2> HIDE DEF given
  <2>3. ~Has(given, "dsn") /\ ~Has(given, "uri") /\ HasUriComponents(given)
    BY <1>4, <2>1 DEF HasUriComponents, UriFields
  <2>4. IsOptionString(given) <=> IsOptionString(settings)
    BY <1>4, <2>1, <2>3 DEF IsOptionString, OptionFields
  <2>5. PythonDsn(name, settings) =
          IF IsOptionString(given) THEN OptionString(given, PythonUri(given)) ELSE PythonUri(given)
    BY <2>3 DEF PythonDsn, given
  <2>6. CASE IsOptionString(settings)
    <3>1. HasUriComponents(settings)
      BY <1>4, <2>6
    <3>2. ASSUME NEW field \in OptionFields
          PROVE  Part(Semicolon, given, field) = Part(Semicolon, settings, field)
      <4>1. Has(given, field) <=> Has(settings, field)
        BY <2>1 DEF OptionFields
      <4> QED
        BY <2>1, <4>1 DEF Part
    <3>3. \A uri : OptionString(given, uri) = OptionString(settings, uri)
      BY <2>3, <3>1, <3>2 DEF OptionString, OptionFields
    <3> QED
      BY <1>4, <2>2, <2>4, <2>5, <2>6, <3>3 DEF RustDsn
  <2>7. CASE ~IsOptionString(settings)
    BY <1>4, <2>2, <2>4, <2>5, <2>7 DEF RustDsn
  <2> QED
    BY <2>6, <2>7
<1> QED
  BY <1>1, <1>2, <1>3, <1>4

\* Which configurations, sections and other databases there are stays as it is.
Chosen == section \in Sections /\ config \in Settings /\ override \in Overrides

\* They are texts.
LEMMA ConfigsAreTexts ==
  ASSUME Chosen
  PROVE  /\ IsConfig(config) /\ override \in Text \cup {None}
         /\ DOMAIN config \subseteq {"dsn", "uri"} \cup UriFields \cup OptionFields \cup ExtraFields
BY SettingsAssumption, OverridesAssumption DEF Chosen, IsConfig

\* The bindings agree on every choice of them.
LEMMA AgreeAlways ==
  ASSUME Chosen
  PROVE  BindingsAgree
<1> SUFFICES ASSUME \A field \in DOMAIN config : config[field] # <<>>
             PROVE  /\ \/ override = None \/ ~Has(config, "uri")
                       \/ Authorities(config["uri"]) = {} \/ IsUrl(config["uri"])
                       => Unquote(RustDsn(section, config, override)) = Unquote(NodeDsn(section, config, override))
                    /\ override = None => RustDsn(section, config, override) = PythonDsn(section, config)
  BY DEF BindingsAgree
<1>1. section \in Sections /\ IsConfig(config) /\ Full(config) /\ override \in Text \cup {None}
  BY ConfigsAreTexts DEF Chosen, Full
<1>2. ASSUME \/ override = None \/ ~Has(config, "uri")
             \/ Authorities(config["uri"]) = {} \/ IsUrl(config["uri"])
      PROVE  Unquote(RustDsn(section, config, override)) = Unquote(NodeDsn(section, config, override))
  <2>1. PathIsReplaced(config, override)
    BY <1>2 DEF PathIsReplaced
  <2> QED
    BY <1>1, <2>1, DsnsAlike, AlikeUnquoted
<1>3. ASSUME override = None
      PROVE  RustDsn(section, config, override) = PythonDsn(section, config)
  BY <1>1, <1>3, PythonAgrees
<1> QED
  BY <1>2, <1>3

\* The bindings build the same text from the same settings.
THEOREM BindingsAgreeAlways == Spec => []BindingsAgree
<1>1. Init => Chosen
  BY DEF Init, Chosen
<1>2. Chosen /\ [Next]_vars => Chosen'
  BY DEF Chosen, Next, Build, ParseDsn, ReadSegment, vars
<1>3. Chosen => BindingsAgree
  BY AgreeAlways
<1> QED
  BY <1>1, <1>2, <1>3, PTL DEF Spec

-----------------------------------------------------------------------------
(* A segment of an option string *)

\* Trimming a text that begins with no blank cuts it behind its last other sign.
LEMMA TrimFromFirst ==
  ASSUME NEW text \in Text, text # <<>>, text[1] # Blank
  PROVE  \E last \in 1..Len(text) :
           /\ text[last] # Blank /\ \A j \in 1..Len(text) : text[j] # Blank => j <= last
           /\ Trim(text) = SubSeq(text, 1, last)
<1> DEFINE solid == {i \in DOMAIN text : text[i] # Blank}
<1>1. DOMAIN text = 1..Len(text) /\ Len(text) \in Nat /\ 1 \in 1..Len(text)
  BY DEF Text
<1>2. solid \subseteq 1..Len(text) /\ 1 \in solid
  BY <1>1
<1>3. PICK last \in solid : \A j \in solid : j <= last
  BY <1>1, <1>2, Greatest
<1>4. (CHOOSE i \in solid : \A j \in solid : j <= i) = last
  <2>1. \A i \in solid : (\A j \in solid : j <= i) => i = last
    BY <1>1, <1>2, <1>3
  <2> HIDE DEF solid
  <2> QED
    BY <1>3, <2>1
<1>5. (CHOOSE i \in solid : \A j \in solid : i <= j) = 1
  <2>1. \A j \in solid : 1 <= j
    BY <1>1, <1>2
  <2>2. \A i \in solid : (\A j \in solid : i <= j) => i = 1
    BY <1>1, <1>2
  <2> HIDE DEF solid
  <2> QED
    BY <1>2, <2>1, <2>2
<1>6. Trim(text) = SubSeq(text, 1, last)
  <2>1. solid # {}
    BY <1>2
  <2>2. Trim(text) = IF solid = {} THEN <<>>
                     ELSE SubSeq(text, CHOOSE i \in solid : \A j \in solid : i <= j,
                                       CHOOSE i \in solid : \A j \in solid : j <= i)
    BY DEF Trim
  <2> HIDE DEF solid
  <2> QED
    BY <1>4, <1>5, <2>1, <2>2
<1> QED
  BY <1>1, <1>3, <1>6

\* Trimming leaves a text that is carried as it is.
LEMMA TrimCarried ==
  ASSUME NEW text, Carried(text)
  PROVE  Trim(text) = text
<1>1. text \in Text /\ Len(text) \in Nat
  BY DEF Carried, Text
<1>2. CASE text = <<>>
  <2>1. DOMAIN <<>> = {}
    OBVIOUS
  <2>2. {i \in DOMAIN text : text[i] # Blank} = {}
    BY <1>2, <2>1
  <2> QED
    BY <1>2, <2>2 DEF Trim
<1>3. CASE text # <<>>
  <2>1. text[1] # Blank /\ text[Len(text)] # Blank /\ Len(text) \in 1..Len(text)
    BY <1>1, <1>3 DEF Carried, Text
  <2>2. PICK last \in 1..Len(text) :
               /\ \A j \in 1..Len(text) : text[j] # Blank => j <= last
               /\ Trim(text) = SubSeq(text, 1, last)
    BY <1>1, <1>3, <2>1, TrimFromFirst
  <2>3. last = Len(text)
    BY <1>1, <2>1, <2>2
  <2>4. SubSeq(text, 1, Len(text)) = text
    BY <1>1 DEF Text
  <2> QED
    BY <2>2, <2>3, <2>4
<1> QED
  BY <1>2, <1>3

\* A setting between semicolons is read as its name and its text.
LEMMA SegmentIsSetting ==
  ASSUME NEW key \in Token, key \notin {"=", Semicolon, Blank}, NEW text, Carried(text)
  PROVE  LET segment == <<key, "=">> \o text
         IN  /\ Carried(segment) /\ segment # <<>> /\ Contains(segment, "=")
             /\ Key(segment) = <<key>> /\ Value(segment) = text
<1> DEFINE segment == <<key, "=">> \o text
<1>1. text \in Text /\ <<key, "=">> \in Text /\ Len(<<key, "=">>) = 2 /\ Len(text) \in Nat
  BY TokenAssumption, TokensAreTexts DEF Carried, Text
<1>2. Carried(segment)
  <2>1. "=" \in Token /\ "=" \notin {Semicolon, Blank}
    BY TokenAssumption, Signs
  <2>2. Carried(<<key>>) /\ Carried(<<"=">>)
    BY <2>1, CarriedWord
  <2>3. <<key>> \o <<"=">> = <<key, "=">>
    BY JoinPair
  <2>4. Carried(<<key, "=">>)
    BY <2>2, <2>3, CarriedJoined
  <2> QED
    BY <2>4, CarriedJoined
<1>3. /\ segment \in Text /\ Len(segment) = Len(text) + 2 /\ DOMAIN segment = 1..(Len(text) + 2)
      /\ segment[1] = key /\ segment[2] = "="
      /\ \A i \in 1..Len(text) : segment[i + 2] = text[i]
  BY <1>1 DEF Text
<1> HIDE DEF segment
<1>4. Contains(segment, "=") /\ segment # <<>>
  <2>1. 2 \in DOMAIN segment
    BY <1>1, <1>3
  <2> QED
    BY <1>3, <2>1 DEF Contains
<1>5. Equals(segment) = 2
  <2>1. IsFirst(2, {"="}, segment, 1, Len(segment))
    BY <1>1, <1>3 DEF IsFirst
  <2> QED
    BY <1>1, <1>3, <2>1, FirstOfIsFirst DEF Equals
<1>6. SubSeq(segment, 1, 1) = <<key>>
  <2>1. SubSeq(segment, 1, 1) \in Text /\ Len(SubSeq(segment, 1, 1)) = 1
    BY <1>1, <1>3, Subtext
  <2>2. SubSeq(segment, 1, 1)[1] = key
    BY <1>1, <1>3, <2>1, Subtext
  <2>3. <<key>> \in Text /\ Len(<<key>>) = 1 /\ <<key>>[1] = key
    BY TokensAreTexts
  <2>4. \A i \in 1..1 : SubSeq(segment, 1, 1)[i] = <<key>>[i]
    BY <2>2, <2>3
  <2> QED
    BY <2>1, <2>3, <2>4, SameText
<1>7. SubSeq(segment, 3, Len(segment)) = text
  <2>1. /\ SubSeq(segment, 3, Len(segment)) \in Text
        /\ Len(SubSeq(segment, 3, Len(segment))) = Len(text)
    BY <1>1, <1>3, Subtext
  <2>2. \A i \in 1..Len(text) : SubSeq(segment, 3, Len(segment))[i] = segment[3 + i - 1]
    BY <1>1, <1>3, <2>1, Subtext
  <2>3. \A i \in 1..Len(text) : SubSeq(segment, 3, Len(segment))[i] = text[i]
    BY <1>1, <1>3, <2>2
  <2> QED
    BY <1>1, <2>1, <2>3, SameText
<1>8. Key(segment) = Trim(<<key>>) /\ Value(segment) = Trim(text)
  <2>1. 2 - 1 = 1 /\ 2 + 1 = 3
    OBVIOUS
  <2> QED
    BY <1>5, <1>6, <1>7, <2>1 DEF Key, Value
<1>9. Trim(<<key>>) = <<key>> /\ Trim(text) = text
  BY CarriedWord, TrimCarried
<1> QED
  BY <1>2, <1>4, <1>8, <1>9 DEF segment

\* That a text goes on from a place as another goes on behind its first sign.
Follows(text, from, rest) ==
  /\ text \in Text /\ rest \in Text /\ from \in Nat \ {0}
  /\ Len(text) = from + Len(rest) - 2
  /\ \A i \in 2..Len(rest) : text[from + i - 2] = rest[i]

\* That it goes on with a setting.
SettingFollows(text, from, key, value, more) ==
  /\ Follows(text, from, Assign(Semicolon, key, value) \o more)
  /\ key \in Token /\ key \notin {"=", Semicolon, Blank} /\ Carried(value)
  /\ more \in Text /\ (more # <<>> => more[1] = Semicolon)

\* What a turn of the loop finds there, and what is left then.
SettingIsTaken(text, from, key, value, more) ==
  LET end == FirstOf({Semicolon}, text, from, Len(text) + 1)
  IN  /\ Trim(SubSeq(text, from, end - 1)) = <<key, "=">> \o value
      /\ Follows(text, end + 1, more)
      /\ end > Len(text) <=> more = <<>>

LEMMA SettingIsFound ==
  ASSUME NEW text, NEW from, NEW key, NEW value, NEW more,
         SettingFollows(text, from, key, value, more)
  PROVE  SettingIsTaken(text, from, key, value, more)
<1> DEFINE head == <<Semicolon, key, "=">>
           middle == head \o value
           last == from + Len(value) + 2
           rest == Assign(Semicolon, key, value) \o more
<1>0. /\ Follows(text, from, rest)
      /\ key \in Token /\ key \notin {"=", Semicolon, Blank} /\ Carried(value)
      /\ more \in Text /\ (more # <<>> => more[1] = Semicolon)
  BY DEF SettingFollows
<1>3. rest = middle \o more
  BY DEF Assign
<1> HIDE DEF rest
<1>1. /\ text \in Text /\ rest \in Text /\ from \in Nat \ {0} /\ value \in Text
      /\ Len(text) \in Nat /\ Len(rest) \in Nat /\ Len(value) \in Nat /\ Len(more) \in Nat
      /\ more = <<>> <=> Len(more) = 0
      /\ Len(text) = from + Len(rest) - 2
  BY <1>0 DEF Follows, Carried, Text
<1>2. /\ middle \in Text /\ Len(middle) = Len(value) + 3
      /\ middle[2] = key /\ middle[3] = "="
      /\ \A i \in 1..Len(value) : middle[i + 3] = value[i]
  <2>1. head \in Text /\ Len(head) = 3 /\ head[2] = key /\ head[3] = "="
    <3>1. Semicolon \in Token /\ "=" \in Token
      BY TokenAssumption
    <3> QED
      BY <1>0, <3>1, TokensAreTexts
  <2> HIDE DEF head
  <2>2. /\ head \o value \in Text /\ Len(head \o value) = Len(head) + Len(value)
        /\ \A i \in 1..Len(head) : (head \o value)[i] = head[i]
        /\ \A i \in 1..Len(value) : (head \o value)[Len(head) + i] = value[i]
    BY <1>1, <2>1, Joined
  <2>3. /\ 2 \in 1..3 /\ 3 \in 1..3 /\ 3 + Len(value) = Len(value) + 3
        /\ \A i \in 1..Len(value) : 3 + i = i + 3
    BY <1>1
  <2> QED
    BY <2>1, <2>2, <2>3
<1> HIDE DEF middle
<1>4. /\ Len(rest) = Len(value) + 3 + Len(more)
      /\ \A i \in 1..(Len(value) + 3) : rest[i] = middle[i]
      /\ \A i \in 1..Len(more) : rest[Len(value) + 3 + i] = more[i]
  <2>1. /\ Len(middle \o more) = Len(middle) + Len(more)
        /\ \A i \in 1..Len(middle) : (middle \o more)[i] = middle[i]
        /\ \A i \in 1..Len(more) : (middle \o more)[Len(middle) + i] = more[i]
    BY <1>0, <1>2, Joined
  <2> QED
    BY <1>2, <1>3, <2>1
<1>5. /\ text[from] = key /\ text[from + 1] = "="
      /\ \A i \in 1..Len(value) : text[from + 1 + i] = value[i]
      /\ \A i \in 1..Len(more) : text[last - 1 + i] = more[i]
  <2>1. \A i \in 2..Len(rest) : text[from + i - 2] = rest[i]
    BY <1>0 DEF Follows
  <2>2. text[from] = key
    <3>1. 2 \in 2..Len(rest) /\ from + 2 - 2 = from /\ rest[2] = key
      BY <1>1, <1>2, <1>4
    <3> QED
      BY <2>1, <3>1
  <2>3. text[from + 1] = "="
    <3>1. 3 \in 2..Len(rest) /\ from + 3 - 2 = from + 1 /\ rest[3] = "="
      BY <1>1, <1>2, <1>4
    <3> QED
      BY <2>1, <3>1
  <2>4. ASSUME NEW i \in 1..Len(value)
        PROVE  text[from + 1 + i] = value[i]
    <3>1. i + 3 \in 2..Len(rest) /\ from + (i + 3) - 2 = from + 1 + i /\ rest[i + 3] = value[i]
      BY <1>1, <1>2, <1>4
    <3> QED
      BY <2>1, <3>1
  <2>5. ASSUME NEW i \in 1..Len(more)
        PROVE  text[last - 1 + i] = more[i]
    <3>1. /\ Len(value) + 3 + i \in 2..Len(rest) /\ from + (Len(value) + 3 + i) - 2 = last - 1 + i
          /\ rest[Len(value) + 3 + i] = more[i]
      BY <1>1, <1>2, <1>4
    <3> QED
      BY <2>1, <3>1
  <2> QED
    BY <2>2, <2>3, <2>4, <2>5
<1>6. /\ Len(text) = last - 1 + Len(more) /\ last \in Nat \ {0} /\ last = from + Len(value) + 2
      /\ last - 1 \in Nat /\ from <= Len(text) + 1
  BY <1>1, <1>4
<1> HIDE DEF last
<1>7. FirstOf({Semicolon}, text, from, Len(text) + 1) = last
  <2>1. last \in from..(Len(text) + 1)
    BY <1>1, <1>6
  <2>2. last = Len(text) + 1 \/ text[last] \in {Semicolon}
    <3>1. CASE more = <<>>
      BY <1>1, <1>6, <3>1
    <3>2. CASE more # <<>>
      <4>1. 1 \in 1..Len(more) /\ last - 1 + 1 = last
        BY <1>1, <1>6, <3>2
      <4> QED
        BY <1>0, <1>5, <3>2, <4>1
    <3> QED
      BY <3>1, <3>2
  <2>3. ASSUME NEW j \in from..(last - 1)
        PROVE  text[j] # Semicolon
    <3>1. CASE j = from
      BY <1>0, <1>5, <3>1
    <3>2. CASE j = from + 1
      BY <1>5, <3>2, Signs
    <3>3. CASE j > from + 1
      <4>1. j - from - 1 \in 1..Len(value) /\ from + 1 + (j - from - 1) = j
        BY <1>1, <1>6, <3>3
      <4>2. value[j - from - 1] # Semicolon
        <5>1. DOMAIN value = 1..Len(value)
          BY <1>1 DEF Text
        <5> QED
          BY <1>0, <4>1, <5>1 DEF Carried, Contains
      <4> QED
        BY <1>5, <4>1, <4>2
    <3> QED
      BY <1>1, <3>1, <3>2, <3>3
  <2>4. IsFirst(last, {Semicolon}, text, from, Len(text) + 1)
    BY <2>1, <2>2, <2>3 DEF IsFirst
  <2>5. from \in Nat /\ Len(text) + 1 \in Nat
    BY <1>1
  <2> QED
    BY <1>6, <2>4, <2>5, FirstOfIsFirst
<1>8. SubSeq(text, from, last - 1) = <<key, "=">> \o value
  <2> DEFINE segment == <<key, "=">> \o value
             part == SubSeq(text, from, last - 1)
  <2>1. /\ segment \in Text /\ Len(segment) = Len(value) + 2
        /\ segment[1] = key /\ segment[2] = "="
        /\ \A i \in 1..Len(value) : segment[i + 2] = value[i]
    <3>1. <<key, "=">> \in Text /\ Len(<<key, "=">>) = 2
      BY <1>0, TokenAssumption, TokensAreTexts
    <3> QED
      BY <1>1, <3>1 DEF Text
  <2>2. /\ part \in Text /\ Len(part) = Len(value) + 2
        /\ \A i \in 1..Len(part) : part[i] = text[from + i - 1]
    <3>1. last - 1 <= Len(text) /\ from <= last - 1 /\ last - 1 - from + 1 = Len(value) + 2
      BY <1>1, <1>6
    <3> QED
      BY <1>1, <1>6, <3>1, Subtext
  <2> HIDE DEF segment, part
  <2>3. ASSUME NEW i \in 1..Len(part)
        PROVE  part[i] = segment[i]
    <3>1. CASE i = 1
      <4>1. from + 1 - 1 = from
        BY <1>1
      <4> QED
        BY <1>5, <2>1, <2>2, <3>1, <4>1
    <3>2. CASE i = 2
      <4>1. from + 2 - 1 = from + 1
        BY <1>1
      <4> QED
        BY <1>5, <2>1, <2>2, <3>2, <4>1
    <3>3. CASE i > 2
      <4>1. i - 2 \in 1..Len(value) /\ from + 1 + (i - 2) = from + i - 1 /\ (i - 2) + 2 = i
        BY <1>1, <2>2, <3>3
      <4>2. text[from + 1 + (i - 2)] = value[i - 2] /\ segment[(i - 2) + 2] = value[i - 2]
        BY <1>5, <2>1, <4>1
      <4> QED
        BY <2>2, <4>1, <4>2
    <3> QED
      BY <2>2, <3>1, <3>2, <3>3
  <2>4. part = segment
    BY <2>1, <2>2, <2>3, SameText
  <2> QED
    BY <2>4 DEF part, segment
<1>9. Trim(<<key, "=">> \o value) = <<key, "=">> \o value
  BY <1>0, SegmentIsSetting, TrimCarried
<1>10. Follows(text, last + 1, more)
  <2>1. \A i \in 2..Len(more) : text[last + 1 + i - 2] = more[i]
    <3> TAKE i \in 2..Len(more)
    <3>1. i \in 1..Len(more) /\ last + 1 + i - 2 = last - 1 + i
      BY <1>1, <1>6
    <3> QED
      BY <1>5, <3>1
  <2>2. last + 1 \in Nat \ {0} /\ Len(text) = (last + 1) + Len(more) - 2
    BY <1>1, <1>6
  <2> QED
    BY <1>0, <1>1, <2>1, <2>2 DEF Follows
<1>11. last > Len(text) <=> more = <<>>
  BY <1>1, <1>6
<1> QED
  BY <1>7, <1>8, <1>9, <1>10, <1>11 DEF SettingIsTaken

-----------------------------------------------------------------------------
(* The settings of an option string, one after the other *)

\* A URI takes the place of the other settings.
UriGoes == Has(config, "uri") \/ HasUriComponents(config)

\* The k-th of them, and all from the k-th on.
Slot(k, uri) ==
  CASE k = 1 -> Part(Semicolon, config, "driver")
    [] k = 2 -> Part(Semicolon, config, "entrypoint")
    [] k = 3 -> Part(Semicolon, config, "additional_manifest_search_path_list")
    [] k = 4 -> IF UriGoes THEN Assign(Semicolon, "uri", uri) ELSE Part(Semicolon, config, "path")
    [] k = 5 -> IF UriGoes THEN <<>> ELSE Part(Semicolon, config, "sslmode")

FromFourth(uri) == Slot(4, uri) \o Slot(5, uri)
FromThird(uri) == Slot(3, uri) \o FromFourth(uri)
FromSecond(uri) == Slot(2, uri) \o FromThird(uri)

Rest(k, uri) ==
  CASE k = 1 -> Slot(1, uri) \o FromSecond(uri) [] k = 2 -> FromSecond(uri)
    [] k = 3 -> FromThird(uri) [] k = 4 -> FromFourth(uri) [] k = 5 -> Slot(5, uri) [] k = 6 -> <<>>

\* The free options that the slots before the k-th set.
FreeOptions(k) ==
  IF UriGoes \/ k < 5 THEN <<>>
  ELSE IF k < 6 THEN Free("path") ELSE Free("path") \o Free("sslmode")

\* What those before the k-th set.
Meant(k, uri) ==
  [ driver |-> IF k > 1 THEN Given(config, "driver", None) ELSE None,
    entrypoint |-> IF k > 2 THEN Given(config, "entrypoint", None) ELSE None,
    additional_search_path |->
      IF k > 3 THEN Given(config, "additional_manifest_search_path_list", None) ELSE None,
    uri |-> IF k > 4 /\ UriGoes THEN uri ELSE None,
    options |-> FreeOptions(k) ]

\* Which slots set none of the free options.
LEMMA FreeOptionsStay ==
  /\ FreeOptions(2) = FreeOptions(1) /\ FreeOptions(3) = FreeOptions(2) /\ FreeOptions(4) = FreeOptions(3)
  /\ UriGoes \/ ~Has(config, "path") => FreeOptions(5) = FreeOptions(4)
  /\ UriGoes \/ ~Has(config, "sslmode") => FreeOptions(6) = FreeOptions(5)
<1>1. /\ FreeOptions(1) = <<>> /\ FreeOptions(2) = <<>> /\ FreeOptions(3) = <<>> /\ FreeOptions(4) = <<>>
      /\ FreeOptions(5) = IF UriGoes THEN <<>> ELSE Free("path")
      /\ FreeOptions(6) = IF UriGoes THEN <<>> ELSE Free("path") \o Free("sslmode")
  BY DEF FreeOptions
<1>2. ~Has(config, "path") => Free("path") = <<>>
  BY DEF Free
<1>3. ~Has(config, "sslmode") => Free("path") \o Free("sslmode") = Free("path")
  BY DEF Free
<1> QED
  BY <1>1, <1>2, <1>3

\* What an option string carries whole.
AllCarried == \A field \in DOMAIN config : Carried(config[field])

\* Slots are texts.
LEMMA SlotTexts ==
  ASSUME IsConfig(config), NEW uri \in Text, NEW k \in 1..5
  PROVE  Slot(k, uri) \in Text
<1>1. /\ {"driver", "entrypoint", "additional_manifest_search_path_list"} \subseteq OptionFields
      /\ {"path", "sslmode"} \subseteq ExtraFields
  BY DEF OptionFields, ExtraFields
<1>2. /\ Part(Semicolon, config, "driver") \in Text /\ Part(Semicolon, config, "entrypoint") \in Text
      /\ Part(Semicolon, config, "additional_manifest_search_path_list") \in Text
      /\ Part(Semicolon, config, "path") \in Text /\ Part(Semicolon, config, "sslmode") \in Text
  BY <1>1, OptionParts
<1>3. Assign(Semicolon, "uri", uri) \in Text /\ <<>> \in Text
  <2>1. <<Semicolon, "uri", "=">> \in Text /\ <<>> \in Text
    BY TokenAssumption, TokensAreTexts
  <2> QED
    BY <2>1, Joined DEF Assign
<1> QED
  BY <1>2, <1>3 DEF Slot

\* What is left begins with a slot and goes on with what is left then.
LEMMA RestTexts ==
  ASSUME IsConfig(config), NEW uri \in Text
  PROVE  /\ \A k \in 1..6 : Rest(k, uri) \in Text
         /\ \A k \in 1..5 : Rest(k, uri) = Slot(k, uri) \o Rest(k + 1, uri)
         /\ Rest(6, uri) = <<>>
<1>1. /\ Slot(1, uri) \in Text /\ Slot(2, uri) \in Text /\ Slot(3, uri) \in Text
      /\ Slot(4, uri) \in Text /\ Slot(5, uri) \in Text
  BY SlotTexts
<1>2. Rest(6, uri) = <<>> /\ Rest(6, uri) \in Text
  BY Joints DEF Rest
<1>3. Rest(5, uri) = Slot(5, uri) \o Rest(6, uri) /\ Rest(5, uri) \in Text
  <2>1. Rest(5, uri) = Slot(5, uri)
    BY DEF Rest
  <2> QED
    BY <1>1, <1>2, <2>1, JoinedToNothing
<1>4. Rest(4, uri) = Slot(4, uri) \o Rest(5, uri) /\ Rest(4, uri) \in Text
  <2>1. Rest(4, uri) = Slot(4, uri) \o Rest(5, uri)
    BY DEF Rest, FromFourth
  <2>2. Slot(4, uri) \o Rest(5, uri) \in Text
    BY <1>1, <1>3, Joined
  <2> QED
    BY <2>1, <2>2
<1>5. Rest(3, uri) = Slot(3, uri) \o Rest(4, uri) /\ Rest(3, uri) \in Text
  <2>1. Rest(3, uri) = Slot(3, uri) \o Rest(4, uri)
    <3>1. Rest(3, uri) = FromThird(uri) /\ Rest(4, uri) = FromFourth(uri)
      BY DEF Rest
    <3> QED
      BY <3>1 DEF FromThird
  <2>2. Slot(3, uri) \o Rest(4, uri) \in Text
    BY <1>1, <1>4, Joined
  <2> QED
    BY <2>1, <2>2
<1>6. Rest(2, uri) = Slot(2, uri) \o Rest(3, uri) /\ Rest(2, uri) \in Text
  <2>1. Rest(2, uri) = Slot(2, uri) \o Rest(3, uri)
    <3>1. Rest(2, uri) = FromSecond(uri) /\ Rest(3, uri) = FromThird(uri)
      BY DEF Rest
    <3> QED
      BY <3>1 DEF FromSecond
  <2>2. Slot(2, uri) \o Rest(3, uri) \in Text
    BY <1>1, <1>5, Joined
  <2> QED
    BY <2>1, <2>2
<1>7. Rest(1, uri) = Slot(1, uri) \o Rest(2, uri) /\ Rest(1, uri) \in Text
  <2>1. Rest(1, uri) = Slot(1, uri) \o Rest(2, uri)
    BY DEF Rest
  <2>2. Slot(1, uri) \o Rest(2, uri) \in Text
    BY <1>1, <1>6, Joined
  <2> QED
    BY <2>1, <2>2
<1>8. 1 + 1 = 2 /\ 2 + 1 = 3 /\ 3 + 1 = 4 /\ 4 + 1 = 5 /\ 5 + 1 = 6
  OBVIOUS
<1>9. \A k \in 1..5 : k = 1 \/ k = 2 \/ k = 3 \/ k = 4 \/ k = 5
  OBVIOUS
<1>10. \A k \in 1..6 : k = 1 \/ k = 2 \/ k = 3 \/ k = 4 \/ k = 5 \/ k = 6
  OBVIOUS
<1>11. \A k \in 1..6 : Rest(k, uri) \in Text
  BY <1>2, <1>3, <1>4, <1>5, <1>6, <1>7, <1>10
<1>12. \A k \in 1..5 : Rest(k, uri) = Slot(k, uri) \o Rest(k + 1, uri)
  BY <1>3, <1>4, <1>5, <1>6, <1>7, <1>8, <1>9
<1> QED
  BY <1>2, <1>11, <1>12

\* It does not matter which two of three texts are joined first.
LEMMA JoinedRegrouped ==
  ASSUME NEW a \in Text, NEW b \in Text, NEW c \in Text
  PROVE  (a \o b) \o c = a \o (b \o c)
BY DEF Text

\* An option string is all of them.
LEMMA OptionStringIsRest ==
  ASSUME IsConfig(config), NEW uri \in Text
  PROVE  OptionString(config, uri) = Tail(Rest(1, uri))
<1>1. /\ Slot(1, uri) \in Text /\ Slot(2, uri) \in Text /\ Slot(3, uri) \in Text
      /\ Slot(4, uri) \in Text /\ Slot(5, uri) \in Text
  BY SlotTexts
<1>2. Slot(4, uri) \o Slot(5, uri) =
        IF UriGoes THEN Assign(Semicolon, "uri", uri)
        ELSE Part(Semicolon, config, "path") \o Part(Semicolon, config, "sslmode")
  <2>1. CASE UriGoes
    <3>1. Slot(4, uri) = Assign(Semicolon, "uri", uri) /\ Slot(5, uri) = <<>>
      BY <2>1 DEF Slot
    <3> QED
      BY <1>1, <2>1, <3>1, JoinedToNothing
  <2>2. CASE ~UriGoes
    BY <2>2 DEF Slot
  <2> QED
    BY <2>1, <2>2
<1>3. OptionString(config, uri) =
        Tail(Slot(1, uri) \o Slot(2, uri) \o Slot(3, uri) \o (Slot(4, uri) \o Slot(5, uri)))
  <2>1. /\ Slot(1, uri) = Part(Semicolon, config, "driver")
        /\ Slot(2, uri) = Part(Semicolon, config, "entrypoint")
        /\ Slot(3, uri) = Part(Semicolon, config, "additional_manifest_search_path_list")
    BY DEF Slot
  <2> QED
    BY <1>2, <2>1 DEF OptionString, UriGoes
<1>4. Slot(4, uri) \o Slot(5, uri) \in Text /\ Slot(1, uri) \o Slot(2, uri) \in Text
  BY <1>1, Joined
<1>5. Slot(3, uri) \o (Slot(4, uri) \o Slot(5, uri)) \in Text
  BY <1>1, <1>4, Joined
<1>6. Slot(1, uri) \o Slot(2, uri) \o Slot(3, uri) \o (Slot(4, uri) \o Slot(5, uri)) = Rest(1, uri)
  <2> DEFINE one == Slot(1, uri)
             two == Slot(2, uri)
             three == Slot(3, uri)
             last == Slot(4, uri) \o Slot(5, uri)
  <2>1. one \in Text /\ two \in Text /\ three \in Text /\ last \in Text
    BY <1>1, <1>4
  <2>2. Rest(1, uri) = one \o FromSecond(uri) /\ FromFourth(uri) = last
    BY DEF Rest, FromFourth
  <2>3. FromSecond(uri) = two \o FromThird(uri)
    BY DEF FromSecond
  <2>4. FromThird(uri) = three \o FromFourth(uri)
    BY DEF FromThird
  <2> HIDE DEF one, two, three, last
  <2> DEFINE front == one \o two
             back == three \o last
  <2>5. front \in Text /\ back \in Text
    BY <2>1, Joined
  <2>6. front \o back = one \o (two \o back)
    <3>1. back \in Text
      BY <2>5
    <3> HIDE DEF back
    <3>2. \A c \in Text : (one \o two) \o c = one \o (two \o c)
      <4>1. one \in Text /\ two \in Text
        BY <2>1
      <4>2. TAKE c \in Text
      <4> QED
        BY <4>1, JoinedRegrouped
    <3> QED
      BY <3>1, <3>2
  <2>7. front \o three \o last = front \o back
    <3>1. front \in Text
      BY <2>5
    <3> HIDE DEF front
    <3>2. \A a \in Text : (a \o three) \o last = a \o (three \o last)
      <4>1. three \in Text /\ last \in Text
        BY <2>1
      <4>2. TAKE a \in Text
      <4> QED
        BY <4>1, JoinedRegrouped
    <3> QED
      BY <3>1, <3>2
  <2>8. one \o two \o three \o last = Rest(1, uri)
    BY <2>2, <2>3, <2>4, <2>6, <2>7
  <2> QED
    BY <2>8 DEF one, two, three, last
<1> QED
  BY <1>3, <1>6

\* A slot is empty and sets nothing, or has one setting and sets it.
LEMMA SlotSets ==
  ASSUME IsConfig(config), AllCarried, NEW uri, Carried(uri), NEW k \in 1..5
  PROVE  \/ Slot(k, uri) = <<>> /\ Meant(k + 1, uri) = Meant(k, uri)
         \/ \E key \in Token : \E value :
              /\ key \notin {"=", Semicolon, Blank} /\ Carried(value)
              /\ Slot(k, uri) = Assign(Semicolon, key, value)
              /\ \A segment : Key(segment) = <<key>> /\ Value(segment) = value =>
                   Assigned(Meant(k, uri), segment) = Meant(k + 1, uri)
<1>1. /\ {"driver", "entrypoint", "additional_manifest_search_path_list", "path", "sslmode", "uri"}
            \subseteq Token \ {Semicolon, Blank}
      /\ "=" \notin {"driver", "entrypoint", "additional_manifest_search_path_list", "path", "sslmode", "uri"}
  BY Signs DEF OptionFields, ExtraFields
<1>2. \A field : Has(config, field) => Carried(config[field])
  BY DEF Has, AllCarried
<1>3. CASE k = 1
  <2>1. Slot(k, uri) = Part(Semicolon, config, "driver")
    BY <1>3 DEF Slot
  <2>2. CASE Has(config, "driver")
    <3>1. Slot(k, uri) = Assign(Semicolon, "driver", config["driver"])
      BY <2>1, <2>2 DEF Part
    <3>2. ASSUME NEW segment, Key(segment) = <<"driver">>, Value(segment) = config["driver"]
          PROVE  Assigned(Meant(k, uri), segment) = Meant(k + 1, uri)
      <4>1. Assigned(Meant(k, uri), segment) = [Meant(k, uri) EXCEPT !.driver = config["driver"]]
        BY <3>2 DEF Assigned
      <4> QED
        BY <1>3, <2>2, <4>1, FreeOptionsStay DEF Meant, Given
    <3> QED
      BY <1>1, <1>2, <2>2, <3>1, <3>2
  <2>3. CASE ~Has(config, "driver")
    <3>1. Meant(k + 1, uri) = Meant(k, uri)
      BY <1>3, <2>3, FreeOptionsStay DEF Meant, Given
    <3> QED
      BY <2>1, <2>3, <3>1 DEF Part
  <2> QED
    BY <2>2, <2>3
<1>4. CASE k = 2
  <2>1. Slot(k, uri) = Part(Semicolon, config, "entrypoint")
    BY <1>4 DEF Slot
  <2>2. CASE Has(config, "entrypoint")
    <3>1. Slot(k, uri) = Assign(Semicolon, "entrypoint", config["entrypoint"])
      BY <2>1, <2>2 DEF Part
    <3>2. ASSUME NEW segment, Key(segment) = <<"entrypoint">>, Value(segment) = config["entrypoint"]
          PROVE  Assigned(Meant(k, uri), segment) = Meant(k + 1, uri)
      <4>1. <<"entrypoint">> # <<"driver">> /\ <<"entrypoint">> # <<"uri">>
        OBVIOUS
      <4>2. Assigned(Meant(k, uri), segment) = [Meant(k, uri) EXCEPT !.entrypoint = config["entrypoint"]]
        BY <3>2, <4>1 DEF Assigned
      <4> QED
        BY <1>4, <2>2, <4>2, FreeOptionsStay DEF Meant, Given
    <3> QED
      BY <1>1, <1>2, <2>2, <3>1, <3>2
  <2>3. CASE ~Has(config, "entrypoint")
    <3>1. Meant(k + 1, uri) = Meant(k, uri)
      BY <1>4, <2>3, FreeOptionsStay DEF Meant, Given
    <3> QED
      BY <2>1, <2>3, <3>1 DEF Part
  <2> QED
    BY <2>2, <2>3
<1>5. CASE k = 3
  <2> DEFINE field == "additional_manifest_search_path_list"
  <2>1. Slot(k, uri) = Part(Semicolon, config, field)
    BY <1>5 DEF Slot
  <2>2. CASE Has(config, field)
    <3>1. Slot(k, uri) = Assign(Semicolon, field, config[field])
      BY <2>1, <2>2 DEF Part
    <3>2. ASSUME NEW segment, Key(segment) = <<field>>, Value(segment) = config[field]
          PROVE  Assigned(Meant(k, uri), segment) = Meant(k + 1, uri)
      <4>1. <<field>> # <<"driver">> /\ <<field>> # <<"uri">> /\ <<field>> # <<"entrypoint">>
        OBVIOUS
      <4>2. Assigned(Meant(k, uri), segment) = [Meant(k, uri) EXCEPT !.additional_search_path = config[field]]
        BY <3>2, <4>1 DEF Assigned
      <4> QED
        BY <1>5, <2>2, <4>2, FreeOptionsStay DEF Meant, Given
    <3> QED
      BY <1>1, <1>2, <2>2, <3>1, <3>2
  <2>3. CASE ~Has(config, field)
    <3>1. Meant(k + 1, uri) = Meant(k, uri)
      BY <1>5, <2>3, FreeOptionsStay DEF Meant, Given
    <3> QED
      BY <2>1, <2>3, <3>1 DEF Part
  <2> QED
    BY <2>2, <2>3
<1>6. ASSUME NEW field \in {"path", "sslmode"}, NEW segment, Key(segment) = <<field>>,
             NEW options
      PROVE  Assigned(options, segment) =
               [options EXCEPT !.options = Append(@, <<<<field>>, Value(segment)>>)]
  <2>1. /\ <<field>> # <<"driver">> /\ <<field>> # <<"uri">> /\ <<field>> # <<"entrypoint">>
        /\ <<field>> # <<"additional_manifest_search_path_list">>
    BY <1>6
  <2> QED
    BY <1>6, <2>1 DEF Assigned
<1>7. CASE k = 4
  <2>1. CASE UriGoes
    <3>1. Slot(k, uri) = Assign(Semicolon, "uri", uri)
      BY <1>7, <2>1 DEF Slot
    <3>2. ASSUME NEW segment, Key(segment) = <<"uri">>, Value(segment) = uri
          PROVE  Assigned(Meant(k, uri), segment) = Meant(k + 1, uri)
      <4>1. <<"uri">> # <<"driver">>
        OBVIOUS
      <4>2. Assigned(Meant(k, uri), segment) = [Meant(k, uri) EXCEPT !.uri = uri]
        BY <3>2, <4>1 DEF Assigned
      <4> QED
        BY <1>7, <2>1, <4>2, FreeOptionsStay DEF Meant
    <3> QED
      BY <1>1, <3>1, <3>2
  <2>2. CASE ~UriGoes /\ Has(config, "path")
    <3>1. Slot(k, uri) = Assign(Semicolon, "path", config["path"])
      BY <1>7, <2>2 DEF Slot, Part
    <3>2. ASSUME NEW segment, Key(segment) = <<"path">>, Value(segment) = config["path"]
          PROVE  Assigned(Meant(k, uri), segment) = Meant(k + 1, uri)
      <4>1. Assigned(Meant(k, uri), segment)
              = [Meant(k, uri) EXCEPT !.options = Append(@, <<<<"path">>, config["path"]>>)]
        BY <1>6, <3>2
      <4>2. Meant(k, uri).options = <<>> /\ FreeOptions(k + 1) = Free("path")
        BY <1>7, <2>2 DEF Meant, FreeOptions
      <4>3. Append(<<>>, <<<<"path">>, config["path"]>>) = Free("path")
        BY <2>2 DEF Free
      <4>4. Assigned(Meant(k, uri), segment) = [Meant(k, uri) EXCEPT !.options = FreeOptions(k + 1)]
        BY <4>1, <4>2, <4>3
      <4> QED
        BY <1>7, <2>2, <4>4 DEF Meant
    <3> QED
      BY <1>1, <1>2, <2>2, <3>1, <3>2
  <2>3. CASE ~UriGoes /\ ~Has(config, "path")
    <3>1. Meant(k + 1, uri) = Meant(k, uri)
      BY <1>7, <2>3, FreeOptionsStay DEF Meant
    <3> QED
      BY <1>7, <2>3, <3>1 DEF Slot, Part
  <2> QED
    BY <2>1, <2>2, <2>3
<1>8. CASE k = 5
  <2>1. CASE UriGoes
    <3>1. Meant(k + 1, uri) = Meant(k, uri)
      BY <1>8, <2>1, FreeOptionsStay DEF Meant
    <3> QED
      BY <1>8, <2>1, <3>1 DEF Slot
  <2>2. CASE ~UriGoes /\ Has(config, "sslmode")
    <3>1. Slot(k, uri) = Assign(Semicolon, "sslmode", config["sslmode"])
      BY <1>8, <2>2 DEF Slot, Part
    <3>2. ASSUME NEW segment, Key(segment) = <<"sslmode">>, Value(segment) = config["sslmode"]
          PROVE  Assigned(Meant(k, uri), segment) = Meant(k + 1, uri)
      <4>1. Assigned(Meant(k, uri), segment)
              = [Meant(k, uri) EXCEPT !.options = Append(@, <<<<"sslmode">>, config["sslmode"]>>)]
        BY <1>6, <3>2
      <4>2. /\ Meant(k, uri).options = Free("path")
            /\ FreeOptions(k + 1) = Free("path") \o Free("sslmode")
        BY <1>8, <2>2 DEF Meant, FreeOptions
      <4>3. Append(Free("path"), <<<<"sslmode">>, config["sslmode"]>>) = Free("path") \o Free("sslmode")
        <5>1. Free("sslmode") = <<<<<<"sslmode">>, config["sslmode"]>>>>
          BY <2>2 DEF Free
        <5>2. CASE Has(config, "path")
          <6>1. Free("path") = <<<<<<"path">>, config["path"]>>>>
            BY <5>2 DEF Free
          <6> DEFINE path == <<<<"path">>, config["path"]>>
                     sslmode == <<<<"sslmode">>, config["sslmode"]>>
          <6>2. Append(<<path>>, sslmode) = <<path>> \o <<sslmode>>
            <7> HIDE DEF path, sslmode
            <7> QED
              BY AppendPair, JoinPair
          <6> QED
            BY <5>1, <6>1, <6>2
        <5>3. CASE ~Has(config, "path")
          <6>1. Free("path") = <<>>
            BY <5>3 DEF Free
          <6>2. \A y : Append(<<>>, y) = <<y>> /\ <<>> \o <<y>> = <<y>>
            OBVIOUS
          <6> QED
            BY <5>1, <6>1, <6>2
        <5> QED
          BY <5>2, <5>3
      <4>4. Assigned(Meant(k, uri), segment)
              = [Meant(k, uri) EXCEPT !.options = FreeOptions(k + 1)]
        BY <4>1, <4>2, <4>3
      <4> QED
        BY <1>8, <2>2, <4>4 DEF Meant
    <3> QED
      BY <1>1, <1>2, <2>2, <3>1, <3>2
  <2>3. CASE ~UriGoes /\ ~Has(config, "sslmode")
    <3>2. Meant(k + 1, uri) = Meant(k, uri)
      BY <1>8, <2>3, FreeOptionsStay DEF Meant
    <3> QED
      BY <1>8, <2>3, <3>2 DEF Slot, Part
  <2> QED
    BY <2>1, <2>2, <2>3
<1> QED
  BY <1>3, <1>4, <1>5, <1>7, <1>8

\* A setting is no empty text.
LEMMA AssignIsSomething ==
  ASSUME NEW key \in Token, NEW value \in Text
  PROVE  Assign(Semicolon, key, value) # <<>>
<1>1. <<Semicolon, key, "=">> \in Text /\ Len(<<Semicolon, key, "=">>) = 3
  BY TokenAssumption, TokensAreTexts
<1>2. Len(<<Semicolon, key, "=">> \o value) = 3 + Len(value) /\ Len(value) \in Nat
  BY <1>1, Joined
<1>3. Len(<<>>) = 0
  OBVIOUS
<1> QED
  BY <1>2, <1>3 DEF Assign

\* Empty slots are skipped.
LEMMA SlotsAreSkipped ==
  ASSUME IsConfig(config), AllCarried, NEW uri, Carried(uri), NEW k \in 1..6
  PROVE  \/ Rest(k, uri) = <<>> /\ Meant(k, uri) = Meant(6, uri)
         \/ \E j \in 1..5 : /\ Slot(j, uri) # <<>> /\ Rest(k, uri) = Slot(j, uri) \o Rest(j + 1, uri)
                            /\ Meant(j, uri) = Meant(k, uri)
<1> DEFINE Skips(n) == \/ Rest(n, uri) = <<>> /\ Meant(n, uri) = Meant(6, uri)
                       \/ \E j \in 1..5 : /\ Slot(j, uri) # <<>>
                                          /\ Rest(n, uri) = Slot(j, uri) \o Rest(j + 1, uri)
                                          /\ Meant(j, uri) = Meant(n, uri)
<1>1. uri \in Text
  BY DEF Carried
<1>2. Skips(6)
  BY <1>1, RestTexts
<1>3. ASSUME NEW n \in 1..5, Skips(n + 1)
      PROVE  Skips(n)
  <2>1. Rest(n, uri) = Slot(n, uri) \o Rest(n + 1, uri)
    BY <1>1, RestTexts
  <2>2. CASE Slot(n, uri) = <<>>
    <3>1. Rest(n + 1, uri) \in Text
      <4>1. n + 1 \in 1..6
        OBVIOUS
      <4> QED
        BY <1>1, <4>1, RestTexts
    <3>2. Rest(n, uri) = Rest(n + 1, uri)
      BY <2>1, <2>2, <3>1, JoinedToNothing
    <3>3. Meant(n + 1, uri) = Meant(n, uri)
      BY <2>2, SlotSets, AssignIsSomething DEF Carried
    <3> QED
      BY <1>3, <3>2, <3>3
  <2>3. CASE Slot(n, uri) # <<>>
    BY <2>1, <2>3
  <2> QED
    BY <2>2, <2>3
<1> HIDE DEF Skips
<1>4. 5 + 1 = 6 /\ 4 + 1 = 5 /\ 3 + 1 = 4 /\ 2 + 1 = 3 /\ 1 + 1 = 2
  OBVIOUS
<1>5. Skips(5)
  BY <1>2, <1>3, <1>4
<1>6. Skips(4)
  BY <1>3, <1>4, <1>5
<1>7. Skips(3)
  BY <1>3, <1>4, <1>6
<1>8. Skips(2)
  BY <1>3, <1>4, <1>7
<1>9. Skips(1)
  BY <1>3, <1>4, <1>8
<1>10. k = 1 \/ k = 2 \/ k = 3 \/ k = 4 \/ k = 5 \/ k = 6
  OBVIOUS
<1>11. Skips(k)
  BY <1>2, <1>5, <1>6, <1>7, <1>8, <1>9, <1>10
<1> QED
  BY <1>11 DEF Skips

\* What is left begins with a setting behind a semicolon.
LEMMA RestIsSetting ==
  ASSUME IsConfig(config), AllCarried, NEW uri, Carried(uri), NEW k \in 1..6, Rest(k, uri) # <<>>
  PROVE  /\ Rest(k, uri)[1] = Semicolon
         /\ \E j \in 1..5 : \E key \in Token : \E value :
              /\ key \notin {"=", Semicolon, Blank} /\ Carried(value)
              /\ Rest(k, uri) = Assign(Semicolon, key, value) \o Rest(j + 1, uri)
              /\ \A segment : Key(segment) = <<key>> /\ Value(segment) = value =>
                   Assigned(Meant(k, uri), segment) = Meant(j + 1, uri)
<1>1. PICK j \in 1..5 : /\ Slot(j, uri) # <<>> /\ Rest(k, uri) = Slot(j, uri) \o Rest(j + 1, uri)
                        /\ Meant(j, uri) = Meant(k, uri)
  BY SlotsAreSkipped
<1>2. PICK key \in Token : \E value :
              /\ key \notin {"=", Semicolon, Blank} /\ Carried(value)
              /\ Slot(j, uri) = Assign(Semicolon, key, value)
              /\ \A segment : Key(segment) = <<key>> /\ Value(segment) = value =>
                   Assigned(Meant(j, uri), segment) = Meant(j + 1, uri)
  BY <1>1, SlotSets
<1>3. PICK value :
              /\ key \notin {"=", Semicolon, Blank} /\ Carried(value)
              /\ Slot(j, uri) = Assign(Semicolon, key, value)
              /\ \A segment : Key(segment) = <<key>> /\ Value(segment) = value =>
                   Assigned(Meant(j, uri), segment) = Meant(j + 1, uri)
  BY <1>2
<1>4. Rest(k, uri)[1] = Semicolon
  <2> DEFINE more == Rest(j + 1, uri)
             head == <<Semicolon, key, "=">>
  <2>1. more \in Text /\ value \in Text
    <3>1. j + 1 \in 1..6 /\ uri \in Text
      BY DEF Carried
    <3> QED
      BY <1>3, <3>1, RestTexts DEF Carried
  <2>2. head \in Text /\ Len(head) = 3 /\ head[1] = Semicolon
    BY TokenAssumption, TokensAreTexts
  <2>3. Rest(k, uri) = head \o value \o more
    BY <1>1, <1>3 DEF Assign
  <2> HIDE DEF head, more
  <2>4. 1 \in 1..Len(head)
    BY <2>2
  <2>5. head \o value \in Text /\ (head \o value)[1] = head[1] /\ Len(head \o value) = 3 + Len(value)
    <3>1. /\ head \o value \in Text /\ Len(head \o value) = Len(head) + Len(value)
          /\ \A i \in 1..Len(head) : (head \o value)[i] = head[i]
      BY <2>1, <2>2, Joined
    <3> QED
      BY <2>2, <2>4, <3>1
  <2>6. 1 \in 1..Len(head \o value)
    BY <2>1, <2>5 DEF Text
  <2>7. (head \o value \o more)[1] = (head \o value)[1]
    BY <2>1, <2>5, <2>6, Joined
  <2> QED
    BY <2>2, <2>3, <2>5, <2>7
<1>5. Rest(k, uri) = Assign(Semicolon, key, value) \o Rest(j + 1, uri)
  BY <1>1, <1>3
<1>6. \A segment : Key(segment) = <<key>> /\ Value(segment) = value =>
        Assigned(Meant(k, uri), segment) = Meant(j + 1, uri)
  BY <1>1, <1>3
<1> QED
  BY <1>3, <1>4, <1>5, <1>6

-----------------------------------------------------------------------------
(* A URI alone *)

\* An equals sign of a URI is behind its scheme: the name before it is no option's.
LEMMA UriIsNoOption ==
  ASSUME NEW scheme \in Text, scheme # <<>>, ~Contains(scheme, "="),
         NEW uri, Carried(uri), Begins(scheme \o <<":", "/", "/">>, uri), Contains(uri, "=")
  PROVE  /\ FirstOf({Semicolon}, uri, 1, Len(uri) + 1) = Len(uri) + 1
         /\ Trim(SubSeq(uri, 1, Len(uri))) = uri /\ uri # <<>>
         /\ \A word : Key(uri) # <<word>>
<1> DEFINE slashes == <<":", "/", "/">>
<1>1. /\ uri \in Text /\ Len(uri) \in Nat /\ DOMAIN uri = 1..Len(uri)
      /\ Len(scheme) \in Nat \ {0} /\ DOMAIN scheme = 1..Len(scheme)
  BY DEF Carried, Text
<1>2. /\ Len(scheme) + 3 <= Len(uri)
      /\ \A i \in 1..Len(scheme) : uri[i] = scheme[i]
      /\ uri[Len(scheme) + 1] = ":" /\ uri[Len(scheme) + 2] = "/" /\ uri[Len(scheme) + 3] = "/"
  <2>1. slashes \in Text /\ Len(slashes) = 3 /\ slashes[1] = ":" /\ slashes[2] = "/" /\ slashes[3] = "/"
    BY Joints
  <2> HIDE DEF slashes
  <2>2. /\ Len(scheme \o slashes) = Len(scheme) + 3
        /\ \A i \in 1..Len(scheme) : (scheme \o slashes)[i] = scheme[i]
        /\ \A i \in 1..3 : (scheme \o slashes)[Len(scheme) + i] = slashes[i]
    <3>1. /\ Len(scheme \o slashes) = Len(scheme) + Len(slashes)
          /\ \A i \in 1..Len(scheme) : (scheme \o slashes)[i] = scheme[i]
          /\ \A i \in 1..Len(slashes) : (scheme \o slashes)[Len(scheme) + i] = slashes[i]
      BY <2>1, Joined
    <3> QED
      BY <2>1, <3>1
  <2>3. Begins(scheme \o slashes, uri)
    BY DEF slashes
  <2>4. /\ Len(scheme) + 3 <= Len(uri)
        /\ \A i \in 1..(Len(scheme) + 3) : uri[i] = (scheme \o slashes)[i]
    BY <2>2, <2>3 DEF Begins
  <2>5. /\ \A i \in 1..Len(scheme) : i \in 1..(Len(scheme) + 3)
        /\ Len(scheme) + 1 \in 1..(Len(scheme) + 3) /\ Len(scheme) + 2 \in 1..(Len(scheme) + 3)
        /\ Len(scheme) + 3 \in 1..(Len(scheme) + 3)
        /\ 1 \in 1..3 /\ 2 \in 1..3 /\ 3 \in 1..3
    BY <1>1
  <2> QED
    BY <2>1, <2>2, <2>4, <2>5
<1>3. FirstOf({Semicolon}, uri, 1, Len(uri) + 1) = Len(uri) + 1
  <2>1. IsFirst(Len(uri) + 1, {Semicolon}, uri, 1, Len(uri) + 1)
    BY <1>1 DEF IsFirst, Carried, Contains
  <2> QED
    BY <1>1, <2>1, FirstOfIsFirst
<1>4. SubSeq(uri, 1, Len(uri)) = uri
  BY <1>1 DEF Text
<1>5. ASSUME NEW word, Key(uri) = <<word>>
      PROVE  FALSE
  <2> DEFINE equals == Equals(uri)
             key == SubSeq(uri, 1, equals - 1)
  <2>1. IsFirst(equals, {"="}, uri, 1, Len(uri))
    BY <1>1, <1>2, FirstOfIsFirst DEF Equals
  <2>2. PICK sign \in 1..Len(uri) : uri[sign] = "="
    BY <1>1 DEF Contains
  <2> HIDE DEF equals
  <2>3. equals \in 1..Len(uri) /\ uri[equals] = "="
    <3>1. equals \in 1..Len(uri) /\ (equals = Len(uri) \/ uri[equals] = "=")
          /\ \A j \in 1..(equals - 1) : uri[j] # "="
      BY <2>1 DEF IsFirst
    <3>2. CASE equals = Len(uri)
      <4>1. sign \notin 1..(equals - 1)
        BY <2>2, <3>1
      <4>2. sign = equals
        <5>1. sign \in 1..equals /\ equals \in Nat
          BY <1>1, <3>2
        <5> QED
          BY <4>1, <5>1
      <4> QED
        BY <2>2, <3>1, <4>2
    <3> QED
      BY <3>1, <3>2
  <2>4. equals > Len(scheme) + 3
    <3>1. equals \notin 1..Len(scheme)
      BY <1>1, <1>2, <2>3 DEF Contains
    <3>2. equals # Len(scheme) + 1 /\ equals # Len(scheme) + 2 /\ equals # Len(scheme) + 3
      BY <1>2, <2>3
    <3> QED
      BY <1>1, <2>3, <3>1, <3>2
  <2>5. /\ key \in Text /\ Len(key) = equals - 1 /\ Len(key) \in Nat
        /\ \A i \in 1..Len(key) : key[i] = uri[i]
    <3>1. equals - 1 \in Nat /\ equals - 1 <= Len(uri) /\ 1 <= equals - 1 /\ equals - 1 - 1 + 1 = equals - 1
      BY <1>1, <2>3, <2>4
    <3>2. key \in Text /\ Len(key) = equals - 1 /\ \A i \in 1..Len(key) : key[i] = uri[1 + i - 1]
      BY <1>1, <3>1, Subtext
    <3>3. \A i \in 1..Len(key) : 1 + i - 1 = i
      BY <3>1, <3>2
    <3> QED
      BY <3>1, <3>2, <3>3
  <2>6. Key(uri) = Trim(key)
    BY DEF Key, equals
  <2> HIDE DEF key
  <2>7. key # <<>> /\ key[1] # Blank /\ Len(scheme) + 3 \in 1..Len(key) /\ key[Len(scheme) + 3] # Blank
    <3>1. uri # <<>> /\ uri[1] # Blank
      BY <1>1, <1>2 DEF Carried
    <3>2. 1 \in 1..Len(key) /\ Len(scheme) + 3 \in 1..Len(key)
      <4>1. Len(scheme) \in Nat \ {0} /\ equals \in Nat /\ equals > Len(scheme) + 3
        BY <1>1, <2>3, <2>4
      <4>2. Len(key) = equals - 1
        BY <2>5
      <4> QED
        BY <4>1, <4>2
    <3> QED
      BY <1>2, <2>5, <3>1, <3>2, Signs
  <2>8. PICK last \in 1..Len(key) :
               /\ \A j \in 1..Len(key) : key[j] # Blank => j <= last
               /\ Trim(key) = SubSeq(key, 1, last)
    BY <2>5, <2>7, TrimFromFirst
  <2>9. last >= Len(scheme) + 3 /\ last \in Nat
    BY <1>1, <2>5, <2>7, <2>8
  <2>10. Len(SubSeq(key, 1, last)) = last
    <3>1. last <= Len(key) /\ 1 <= last /\ last - 1 + 1 = last
      BY <1>1, <2>5, <2>8, <2>9
    <3> QED
      BY <2>5, <2>9, <3>1, Subtext
  <2>11. Len(<<word>>) = 1
    OBVIOUS
  <2>12. last # 1
    BY <1>1, <2>9
  <2>13. SubSeq(key, 1, last) = <<word>>
    BY <1>5, <2>6, <2>8
  <2> QED
    BY <2>10, <2>11, <2>12, <2>13
<1>6. Trim(uri) = uri
  BY TrimCarried
<1>7. uri # <<>>
  BY <1>1, <1>2
<1> QED
  BY <1>3, <1>4, <1>5, <1>6, <1>7

\* What a URI starts with says which driver it is for.
LEMMA SameDriver ==
  ASSUME NEW scheme \in Text, NEW a, NEW b,
         Begins(scheme \o <<":", "/", "/">>, a), Begins(scheme \o <<":", "/", "/">>, b)
  PROVE  InferDriverName(a) = InferDriverName(b) /\ a # None
<1> DEFINE start == scheme \o <<":", "/", "/">>
<1>1. /\ Len(start) > 2 /\ Len(start) \in Nat /\ a \in Text /\ b \in Text
  <2>1. <<":", "/", "/">> \in Text /\ Len(<<":", "/", "/">>) = 3
    BY Joints
  <2>2. Len(start) = Len(scheme) + 3 /\ Len(scheme) \in Nat
    BY <2>1, Joined
  <2> QED
    BY <2>2 DEF Begins
<1>2. /\ Len(a) >= Len(start) /\ a[1] = start[1] /\ a[2] = start[2]
      /\ Len(b) >= Len(start) /\ b[1] = start[1] /\ b[2] = start[2]
  BY <1>1 DEF Begins
<1> HIDE DEF start
<1>3. Len(a) > 1 /\ Len(b) > 1 /\ a[1] = b[1] /\ a[2] = b[2]
  BY <1>1, <1>2 DEF Text
<1>4. Len(None) = 1
  BY DEF None
<1> QED
  BY <1>3, <1>4 DEF InferDriverName

-----------------------------------------------------------------------------
(* The inductive invariant *)

\* What OptionStringIsReadBack asks of the settings.
AllPlain == \A field \in DOMAIN config : Plain(config[field])

\* Configurations an option string can carry.
Carriable == ~Has(config, "dsn") /\ NoBlanks("uri") /\ AllPlain

\* The URIs the bindings build.
Built == {RustUri(section, config, override), NodeUri(section, config, override)}

\* While an option string is parsed, what is left of it are the settings from some slot on,
\* and those before it are set.
OptionsInv(uri) ==
  /\ dsn = Tail(Rest(1, uri))
  /\ stage = "parsing" => \E k \in 1..6 : /\ Rest(k, uri) # <<>>
                                          /\ Follows(dsn, place, Rest(k, uri))
                                          /\ parsed = Meant(k, uri)
  /\ stage = "parsed" => parsed = Meant(6, uri)

\* A URI alone becomes the URI or an option no driver option is mistaken for.
UriInv(uri) ==
  /\ dsn = uri
  /\ ~Contains(Given(config, "scheme", <<>>), "=") =>
       /\ stage = "parsing" => place = 1 /\ parsed = NoOptions /\ Contains(dsn, "=")
       /\ stage = "parsed" => parsed.uri \in {None, dsn}

\* The two hold of what the bindings build from configurations that can be carried.
DsnInv ==
  /\ Chosen
  /\ stage \in {"settings", "built", "parsing", "parsed"}
  /\ stage \in {"settings", "built"} => place = 1 /\ parsed = NoOptions
  /\ stage # "settings" /\ Carriable =>
       \E uri \in Built : IF IsOptionString(config) THEN OptionsInv(uri) ELSE UriInv(uri)

\* Settings an option string can carry are not empty.
LEMMA PlainTexts ==
  ASSUME Chosen, AllPlain
  PROVE  IsConfig(config) /\ Full(config) /\ AllCarried
<1>1. IsConfig(config)
  BY ConfigsAreTexts
<1> QED
  BY <1>1 DEF AllPlain, Plain, Full, AllCarried, Carried, IsConfig

\* The URIs of carriable configurations are carried whole.
LEMMA UrisCarried ==
  ASSUME Chosen, Carriable
  PROVE  \A uri \in Built : Carried(uri)
<1>1. /\ IsConfig(config) /\ Full(config) /\ AllCarried
      /\ override \in Text \cup {None} /\ section \in Sections
  BY PlainTexts, ConfigsAreTexts DEF Carriable, Chosen
<1>2. CASE Has(config, "uri")
  <2>1. Clean(config["uri"])
    <3>1. /\ Carried(config["uri"]) /\ ~Contains(config["uri"], Blank)
          /\ DOMAIN config["uri"] = 1..Len(config["uri"])
      BY <1>1, <1>2 DEF AllCarried, Has, Carriable, NoBlanks, Carried, Text
    <3> QED
      BY <3>1 DEF Carried, Contains, Clean
  <2>2. /\ RustUri(section, config, override) = RustOverride(config["uri"], override)
        /\ NodeUri(section, config, override) = NodeOverride(config["uri"], override)
    BY <1>2 DEF RustUri, NodeUri
  <2> QED
    BY <1>1, <2>1, <2>2, OverridesCarried DEF Built
<1>3. CASE ~Has(config, "uri")
  <2> DEFINE made == Parts(section, config, override)
  <2>1. /\ made.scheme \in Text /\ made.user \in Text /\ made.host \in Text
        /\ made.port \in Text /\ made.database \in Text
    BY <1>1, PartsAreTexts
  <2>2. /\ RustUri(section, config, override) =
             Uri(made.scheme, made.user, config, made.host, made.port, made.database, EscapeAll)
        /\ NodeUri(section, config, override) =
             Uri(made.scheme, made.user, config, made.host, made.port, made.database, Escape)
    BY <1>1, <1>3, UrisFromParts
  <2>3. Carried(made.scheme)
    BY <1>1, Defaults DEF Parts, Given, Has, AllCarried
  <2>4. Carried(made.host)
    <3>1. Carried(<<"127.0.0.1">>)
      BY Signs, CarriedWord
    <3> QED
      BY <1>1, <3>1 DEF Parts, Given, Has, AllCarried
  <2>5. Carried(made.port)
    <3>1. CASE Has(config, "port")
      <4>1. Carried(config["port"]) /\ Carried(<<":">>)
        BY <1>1, <3>1, Joints DEF Has, AllCarried
      <4>2. Carried(<<":">> \o config["port"])
        BY <4>1, CarriedJoined
      <4> QED
        BY <3>1, <4>2 DEF Parts
    <3>2. CASE ~Has(config, "port")
      BY <3>2, Joints DEF Parts
    <3> QED
      BY <3>1, <3>2
  <2> HIDE DEF made
  <2>6. /\ Carried(Uri(made.scheme, made.user, config, made.host, made.port, made.database, EscapeAll))
        /\ Carried(Uri(made.scheme, made.user, config, made.host, made.port, made.database, Escape))
    BY <1>1, <2>1, <2>3, <2>4, <2>5, Uris
  <2> QED
    BY <2>2, <2>6 DEF Built
<1> QED
  BY <1>2, <1>3

\* And start with a scheme.
LEMMA UrisStart ==
  ASSUME Chosen, Carriable, ~Has(config, "uri")
  PROVE  LET scheme == Given(config, "scheme", DefaultScheme(section))
         IN  /\ scheme \in Text /\ scheme # <<>>
             /\ ~Contains(Given(config, "scheme", <<>>), "=") => ~Contains(scheme, "=")
             /\ \A uri \in Built : Begins(scheme \o <<":", "/", "/">>, uri)
<1> DEFINE scheme == Given(config, "scheme", DefaultScheme(section))
           made == Parts(section, config, override)
<1>1. /\ IsConfig(config) /\ Full(config) /\ AllCarried
      /\ override \in Text \cup {None} /\ section \in Sections
  BY PlainTexts, ConfigsAreTexts DEF Carriable, Chosen
<1>2. made.scheme = scheme
  BY DEF Parts
<1>3. /\ made.scheme \in Text /\ made.user \in Text /\ made.host \in Text
      /\ made.port \in Text /\ made.database \in Text
  BY <1>1, PartsAreTexts
<1>4. /\ RustUri(section, config, override) =
           Uri(made.scheme, made.user, config, made.host, made.port, made.database, EscapeAll)
      /\ NodeUri(section, config, override) =
           Uri(made.scheme, made.user, config, made.host, made.port, made.database, Escape)
  BY <1>1, UrisFromParts
<1>5. scheme # <<>> /\ (~Contains(Given(config, "scheme", <<>>), "=") => ~Contains(scheme, "="))
  <2>1. CASE Has(config, "scheme")
    BY <1>1, <2>1 DEF Given, Has, Full
  <2>2. CASE ~Has(config, "scheme")
    BY <1>1, <2>2, Defaults DEF Given
  <2> QED
    BY <2>1, <2>2
<1> HIDE DEF scheme, made
<1>6. \A uri \in Built : Begins(made.scheme \o <<":", "/", "/">>, uri)
  BY <1>1, <1>3, <1>4, Uris DEF Built
<1> QED
  BY <1>2, <1>3, <1>5, <1>6 DEF scheme

\* Only empty texts join to an empty one.
LEMMA NothingJoined ==
  ASSUME NEW a \in Text, NEW b \in Text, a \o b = <<>>
  PROVE  a = <<>> /\ b = <<>>
BY DEF Text

\* When nothing is left, everything is set.
LEMMA RestEnds ==
  ASSUME IsConfig(config), AllCarried, NEW uri, Carried(uri), NEW k \in 1..6, Rest(k, uri) = <<>>
  PROVE  Meant(k, uri) = Meant(6, uri)
<1> SUFFICES ASSUME NEW j \in 1..5, Slot(j, uri) # <<>>, Rest(k, uri) = Slot(j, uri) \o Rest(j + 1, uri)
             PROVE  FALSE
  BY SlotsAreSkipped
<1>1. uri \in Text /\ j + 1 \in 1..6
  BY DEF Carried
<1>2. Slot(j, uri) \in Text /\ Rest(j + 1, uri) \in Text
  BY <1>1, SlotTexts, RestTexts
<1> QED
  BY <1>2, NothingJoined

\* Where parsing begins all the settings are left, and there is one.
LEMMA OptionStringStarts ==
  ASSUME IsConfig(config), AllCarried, IsOptionString(config), NEW uri, Carried(uri)
  PROVE  /\ Rest(1, uri) # <<>>
         /\ Follows(Tail(Rest(1, uri)), 1, Rest(1, uri))
         /\ Contains(Tail(Rest(1, uri)), "=")
<1>1. uri \in Text
  BY DEF Carried
<1>2. Rest(1, uri) # <<>>
  <2> SUFFICES ASSUME Rest(1, uri) = <<>>
               PROVE  FALSE
    OBVIOUS
  <2>1. /\ Slot(1, uri) \in Text /\ Slot(2, uri) \in Text /\ Slot(3, uri) \in Text /\ Slot(4, uri) \in Text
        /\ Rest(2, uri) \in Text /\ Rest(3, uri) \in Text /\ Rest(4, uri) \in Text /\ Rest(5, uri) \in Text
    BY <1>1, SlotTexts, RestTexts
  <2>2. /\ Rest(1, uri) = Slot(1, uri) \o Rest(2, uri) /\ Rest(2, uri) = Slot(2, uri) \o Rest(3, uri)
        /\ Rest(3, uri) = Slot(3, uri) \o Rest(4, uri) /\ Rest(4, uri) = Slot(4, uri) \o Rest(5, uri)
    <3>1. /\ 1 \in 1..5 /\ 2 \in 1..5 /\ 3 \in 1..5 /\ 4 \in 1..5
          /\ 1 + 1 = 2 /\ 2 + 1 = 3 /\ 3 + 1 = 4 /\ 4 + 1 = 5
      OBVIOUS
    <3>2. \A k \in 1..5 : Rest(k, uri) = Slot(k, uri) \o Rest(k + 1, uri)
      BY <1>1, RestTexts
    <3> QED
      BY <3>1, <3>2
  <2>3. Slot(1, uri) = <<>> /\ Rest(2, uri) = <<>>
    BY <2>1, <2>2, NothingJoined
  <2>4. Slot(2, uri) = <<>> /\ Rest(3, uri) = <<>>
    BY <2>1, <2>2, <2>3, NothingJoined
  <2>5. Slot(3, uri) = <<>> /\ Rest(4, uri) = <<>>
    BY <2>1, <2>2, <2>4, NothingJoined
  <2>6. Slot(4, uri) = <<>>
    BY <2>1, <2>2, <2>5, NothingJoined
  <2>7. /\ "driver" \in Token /\ "entrypoint" \in Token /\ "uri" \in Token
        /\ "additional_manifest_search_path_list" \in Token
    BY TokenAssumption DEF OptionFields
  <2>8. \A field \in OptionFields : Has(config, field) => config[field] \in Text
    BY DEF Has, IsConfig
  <2>9. ~Has(config, "driver")
    BY <2>3, <2>7, AssignIsSomething DEF Slot, Part, Has, IsConfig
  <2>10. ~Has(config, "entrypoint")
    BY <2>4, <2>7, AssignIsSomething DEF Slot, Part, Has, IsConfig
  <2>11. ~Has(config, "additional_manifest_search_path_list")
    BY <2>5, <2>7, AssignIsSomething DEF Slot, Part, Has, IsConfig
  <2>12. ~Has(config, "uri")
    BY <1>1, <2>6, <2>7, AssignIsSomething DEF Slot, UriGoes
  <2> QED
    BY <2>9, <2>10, <2>11, <2>12 DEF IsOptionString, OptionFields
<1> DEFINE rest == Rest(1, uri)
<1>3. /\ rest \in Text /\ Len(rest) \in Nat \ {0}
      /\ Tail(rest) \in Text /\ Len(Tail(rest)) = Len(rest) - 1 /\ DOMAIN Tail(rest) = 1..(Len(rest) - 1)
      /\ \A i \in 1..(Len(rest) - 1) : Tail(rest)[i] = rest[i + 1]
  <2>1. rest \in Text
    BY <1>1, RestTexts
  <2> HIDE DEF rest
  <2>2. rest # <<>>
    BY <1>2 DEF rest
  <2> QED
    BY <2>1, <2>2 DEF Text
<1>4. PICK key \in Token : \E value, more : Carried(value) /\ more \in Text /\ rest = Assign(Semicolon, key, value) \o more
  <2>1. PICK j \in 1..5 : \E key \in Token : \E value :
               Carried(value) /\ Rest(1, uri) = Assign(Semicolon, key, value) \o Rest(j + 1, uri)
    <3>1. 1 \in 1..6
      OBVIOUS
    <3> QED
      BY <1>2, <3>1, RestIsSetting
  <2>2. j + 1 \in 1..6
    OBVIOUS
  <2>3. Rest(j + 1, uri) \in Text
    BY <1>1, <2>2, RestTexts
  <2> QED
    BY <2>1, <2>3
<1>5. PICK value, more : Carried(value) /\ more \in Text /\ rest = Assign(Semicolon, key, value) \o more
  BY <1>4
<1> HIDE DEF rest
<1>6. rest[3] = "=" /\ Len(rest) >= 3
  <2> DEFINE head == <<Semicolon, key, "=">>
  <2>1. head \in Text /\ Len(head) = 3 /\ head[3] = "=" /\ value \in Text
    BY <1>5, TokenAssumption, TokensAreTexts DEF Carried
  <2>2. rest = head \o value \o more
    BY <1>5 DEF Assign
  <2> HIDE DEF head
  <2>3. /\ head \o value \in Text /\ Len(head \o value) = Len(head) + Len(value) /\ Len(value) \in Nat
        /\ \A i \in 1..Len(head) : (head \o value)[i] = head[i]
    BY <2>1, Joined
  <2>4. /\ Len(head \o value \o more) = Len(head \o value) + Len(more) /\ Len(more) \in Nat
        /\ \A i \in 1..Len(head \o value) : (head \o value \o more)[i] = (head \o value)[i]
    BY <1>5, <2>3, Joined
  <2>5. 3 \in 1..Len(head) /\ 3 \in 1..Len(head \o value)
    BY <2>1, <2>3
  <2> QED
    BY <2>1, <2>2, <2>3, <2>4, <2>5
<1>7. Contains(Tail(rest), "=")
  <2>1. 2 \in 1..(Len(rest) - 1) /\ 2 + 1 = 3
    BY <1>3, <1>6
  <2> QED
    BY <1>3, <1>6, <2>1 DEF Contains
<1>8. Follows(Tail(rest), 1, rest)
  <2>1. Len(Tail(rest)) = 1 + Len(rest) - 2
    BY <1>3
  <2>2. ASSUME NEW i \in 2..Len(rest)
        PROVE  Tail(rest)[1 + i - 2] = rest[i]
    <3>1. 1 + i - 2 \in 1..(Len(rest) - 1) /\ (1 + i - 2) + 1 = i
      BY <1>3
    <3> QED
      BY <1>3, <3>1
  <2> QED
    BY <1>3, <2>1, <2>2 DEF Follows
<1> QED
  BY <1>2, <1>7, <1>8 DEF rest

\* What the bindings build.
LEMMA BuiltText ==
  ASSUME Chosen, Carriable,
         NEW text, \/ text \in {RustDsn(section, config, override), NodeDsn(section, config, override)}
                   \/ override = None /\ text = PythonDsn(section, config)
  PROVE  \E uri \in Built : text = IF IsOptionString(config) THEN Tail(Rest(1, uri)) ELSE uri
<1>1. IsConfig(config) /\ Full(config) /\ AllCarried
  BY PlainTexts DEF Carriable
<1>2. text \in {RustDsn(section, config, override), NodeDsn(section, config, override)}
  BY <1>1, PythonAgrees
<1>3. \A uri \in Built : uri \in Text
  BY UrisCarried DEF Carried
<1>4. PICK uri \in Built : text = IF IsOptionString(config) THEN OptionString(config, uri) ELSE uri
  BY <1>2 DEF RustDsn, NodeDsn, Carriable, Built
<1> QED
  BY <1>1, <1>3, <1>4, OptionStringIsRest

\* The settings stay what they are.
LEMMA SettingsStay ==
  ASSUME UNCHANGED <<section, config, override>>
  PROVE  /\ Chosen' <=> Chosen
         /\ Carriable' <=> Carriable
         /\ Built' = Built
         /\ \A k, uri : Rest(k, uri)' = Rest(k, uri)
         /\ \A k, uri : Meant(k, uri)' = Meant(k, uri)
<1>1. Chosen' <=> Chosen
  BY DEF Chosen
<1>2. Carriable' <=> Carriable
  BY DEF Carriable, NoBlanks, AllPlain
<1>3. Built' = Built
  BY DEF Built
<1>4. UriGoes' <=> UriGoes
  BY DEF UriGoes
<1>5. \A k, uri : Slot(k, uri)' = Slot(k, uri)
  BY <1>4 DEF Slot
<1>6. \A k, uri : Rest(k, uri)' = Rest(k, uri)
  BY <1>5 DEF Rest, FromFourth, FromThird, FromSecond
<1>7. \A field : Free(field)' = Free(field)
  BY DEF Free
<1>8. \A k : FreeOptions(k)' = FreeOptions(k)
  BY <1>4, <1>7 DEF FreeOptions
<1>9. \A k, uri : Meant(k, uri)' = Meant(k, uri)
  BY <1>4, <1>8 DEF Meant
<1> QED
  BY <1>1, <1>2, <1>3, <1>6, <1>9

\* The step of the loop in an option string.
LEMMA SettingIsRead ==
  ASSUME DsnInv, ReadSegment, Carriable, IsOptionString(config), NEW uri \in Built, OptionsInv(uri)
  PROVE  OptionsInv(uri)'
<1>1. /\ IsConfig(config) /\ AllCarried /\ Carried(uri) /\ Chosen
  BY PlainTexts, UrisCarried DEF DsnInv, Carriable
<1>2. PICK k \in 1..6 : /\ Rest(k, uri) # <<>> /\ Follows(dsn, place, Rest(k, uri))
                        /\ parsed = Meant(k, uri)
  BY DEF OptionsInv, ReadSegment
<1>3. PICK j \in 1..5 : \E key \in Token : \E value :
               /\ key \notin {"=", Semicolon, Blank} /\ Carried(value)
               /\ Rest(k, uri) = Assign(Semicolon, key, value) \o Rest(j + 1, uri)
               /\ \A segment : Key(segment) = <<key>> /\ Value(segment) = value =>
                    Assigned(Meant(k, uri), segment) = Meant(j + 1, uri)
  BY <1>1, <1>2, RestIsSetting
<1>4. PICK key \in Token : \E value :
               /\ key \notin {"=", Semicolon, Blank} /\ Carried(value)
               /\ Rest(k, uri) = Assign(Semicolon, key, value) \o Rest(j + 1, uri)
               /\ \A segment : Key(segment) = <<key>> /\ Value(segment) = value =>
                    Assigned(Meant(k, uri), segment) = Meant(j + 1, uri)
  BY <1>3
<1>5. PICK value :
               /\ key \notin {"=", Semicolon, Blank} /\ Carried(value)
               /\ Rest(k, uri) = Assign(Semicolon, key, value) \o Rest(j + 1, uri)
               /\ \A segment : Key(segment) = <<key>> /\ Value(segment) = value =>
                    Assigned(Meant(k, uri), segment) = Meant(j + 1, uri)
  BY <1>4
<1> DEFINE more == Rest(j + 1, uri)
           end == FirstOf({Semicolon}, dsn, place, Len(dsn) + 1)
           segment == <<key, "=">> \o value
<1>6. more \in Text /\ j + 1 \in 1..6 /\ (more # <<>> => more[1] = Semicolon)
  <2>1. j + 1 \in 1..6 /\ uri \in Text
    BY <1>1 DEF Carried
  <2> QED
    BY <1>1, <2>1, RestTexts, RestIsSetting
<1>7. /\ Trim(SubSeq(dsn, place, end - 1)) = segment
      /\ Follows(dsn, end + 1, more)
      /\ end > Len(dsn) <=> more = <<>>
  <2>1. Follows(dsn, place, Assign(Semicolon, key, value) \o more)
    BY <1>2, <1>5
  <2>2. SettingFollows(dsn, place, key, value, more)
    BY <1>5, <1>6, <2>1 DEF SettingFollows
  <2>3. SettingIsTaken(dsn, place, key, value, more)
    BY <2>2, SettingIsFound
  <2> QED
    BY <2>3 DEF SettingIsTaken
<1>8. /\ segment # <<>> /\ Contains(segment, "=")
      /\ Key(segment) = <<key>> /\ Value(segment) = value
  BY <1>5, SegmentIsSetting
<1>9. Assigned(parsed, segment) = Meant(j + 1, uri)
  BY <1>2, <1>5, <1>8
<1> HIDE DEF more, end, segment
<1>10. /\ parsed' = Assigned(parsed, segment) /\ place' = end + 1
       /\ stage' = IF end > Len(dsn) THEN "parsed" ELSE "parsing"
       /\ dsn' = dsn /\ UNCHANGED <<section, config, override>>
  BY <1>7, <1>8 DEF ReadSegment, end
<1>11. /\ \A n, u : Rest(n, u)' = Rest(n, u)
       /\ \A n, u : Meant(n, u)' = Meant(n, u)
  BY <1>10, SettingsStay
<1>12. dsn' = Tail(Rest(1, uri))'
  BY <1>10, <1>11 DEF OptionsInv
<1>13. CASE more = <<>>
  <2>1. Meant(j + 1, uri) = Meant(6, uri)
    BY <1>1, <1>6, <1>13, RestEnds DEF more
  <2>2. stage' = "parsed" /\ parsed' = Meant(6, uri)
    BY <1>7, <1>9, <1>10, <1>13, <2>1
  <2> QED
    BY <1>11, <1>12, <2>2 DEF OptionsInv
<1>14. CASE more # <<>>
  <2>1. stage' = "parsing" /\ parsed' = Meant(j + 1, uri) /\ place' = end + 1
    BY <1>7, <1>9, <1>10, <1>14
  <2>2. Rest(j + 1, uri)' # <<>>
    BY <1>11, <1>14 DEF more
  <2>3. Follows(dsn, place, Rest(j + 1, uri))'
    BY <1>7, <1>10, <1>11, <2>1 DEF Follows, more
  <2>4. parsed' = Meant(j + 1, uri)'
    BY <1>11, <2>1
  <2> QED
    BY <1>6, <1>12, <2>1, <2>2, <2>3, <2>4 DEF OptionsInv
<1> QED
  BY <1>13, <1>14

\* And in a URI alone.
LEMMA UriIsRead ==
  ASSUME DsnInv, ReadSegment, Carriable, ~IsOptionString(config), NEW uri \in Built, UriInv(uri)
  PROVE  UriInv(uri)'
<1>1. dsn' = dsn /\ UNCHANGED <<section, config, override>> /\ stage = "parsing"
  BY DEF ReadSegment
<1>2. Given(config, "scheme", <<>>)' = Given(config, "scheme", <<>>)
  BY <1>1 DEF Given
<1>3. CASE Contains(Given(config, "scheme", <<>>), "=")
  BY <1>1, <1>2, <1>3 DEF UriInv
<1>4. CASE ~Contains(Given(config, "scheme", <<>>), "=")
  <2> DEFINE scheme == Given(config, "scheme", DefaultScheme(section))
  <2>1. place = 1 /\ parsed = NoOptions /\ Contains(uri, "=") /\ dsn = uri
    BY <1>1, <1>4 DEF UriInv
  <2>2. ~Has(config, "uri") /\ Chosen
    BY DEF IsOptionString, DsnInv
  <2>3. /\ scheme \in Text /\ scheme # <<>> /\ ~Contains(scheme, "=")
        /\ Begins(scheme \o <<":", "/", "/">>, uri) /\ Carried(uri)
    BY <1>4, <2>2, UrisStart, UrisCarried
  <2> HIDE DEF scheme
  <2>4. /\ FirstOf({Semicolon}, uri, 1, Len(uri) + 1) = Len(uri) + 1
        /\ Trim(SubSeq(uri, 1, Len(uri))) = uri /\ uri # <<>>
        /\ \A word : Key(uri) # <<word>>
    BY <2>1, <2>3, UriIsNoOption
  <2>5. Len(uri) + 1 - 1 = Len(uri) /\ Len(uri) + 1 > Len(uri)
    BY <2>3 DEF Carried, Text
  <2>6. parsed' = Assigned(NoOptions, uri) /\ stage' = "parsed"
    BY <2>1, <2>4, <2>5 DEF ReadSegment
  <2>7. Assigned(NoOptions, uri) = [NoOptions EXCEPT !.options = Append(@, <<Key(uri), Value(uri)>>)]
    BY <2>4 DEF Assigned
  <2>8. parsed'.uri = None
    BY <2>6, <2>7 DEF NoOptions
  <2> QED
    BY <1>1, <2>1, <2>6, <2>8 DEF UriInv
<1> QED
  BY <1>3, <1>4

\* The invariant holds before a DSN is built.
LEMMA DsnInvInitially ==
  ASSUME Init
  PROVE  DsnInv
BY DEF Init, DsnInv, Chosen

\* Building and parsing keep it.
LEMMA DsnInvKept ==
  ASSUME DsnInv, [Next]_vars
  PROVE  DsnInv'
<1>1. CASE Build
  <2>1. /\ UNCHANGED <<section, config, override>> /\ stage' = "built"
        /\ place' = 1 /\ parsed' = NoOptions
    BY <1>1 DEF Build, DsnInv
  <2>2. /\ Chosen' /\ Chosen /\ (Carriable' <=> Carriable) /\ Built' = Built
        /\ \A k, uri : Rest(k, uri)' = Rest(k, uri)
    BY <2>1, SettingsStay DEF DsnInv
  <2>3. ASSUME Carriable
        PROVE  \E uri \in Built : dsn' = IF IsOptionString(config) THEN Tail(Rest(1, uri)) ELSE uri
    <3>1. \/ dsn' \in {RustDsn(section, config, override), NodeDsn(section, config, override)}
          \/ override = None /\ dsn' = PythonDsn(section, config)
      BY <1>1 DEF Build
    <3> QED
      BY <2>2, <2>3, <3>1, BuiltText
  <2>4. ASSUME Carriable
        PROVE  \E uri \in Built' : IF IsOptionString(config)' THEN OptionsInv(uri)' ELSE UriInv(uri)'
    <3>1. PICK uri \in Built : dsn' = IF IsOptionString(config) THEN Tail(Rest(1, uri)) ELSE uri
      BY <2>3, <2>4
    <3>2. IsOptionString(config) => OptionsInv(uri)'
      BY <2>1, <2>2, <3>1 DEF OptionsInv
    <3>3. ~IsOptionString(config) => UriInv(uri)'
      BY <2>1, <2>2, <3>1 DEF UriInv
    <3>4. IsOptionString(config)' <=> IsOptionString(config)
      BY <2>1 DEF IsOptionString
    <3> QED
      BY <2>2, <3>2, <3>3, <3>4
  <2> QED
    BY <2>1, <2>2, <2>4 DEF DsnInv
<1>2. CASE ParseDsn
  <2>1. /\ UNCHANGED <<section, config, override, dsn, place>> /\ stage = "built"
        /\ place = 1 /\ parsed = NoOptions /\ stage' \in {"parsing", "parsed"}
    BY <1>2 DEF ParseDsn, DsnInv
  <2>2. /\ Chosen' /\ Chosen /\ (Carriable' <=> Carriable) /\ Built' = Built
        /\ \A k, uri : Rest(k, uri)' = Rest(k, uri)
        /\ \A k, uri : Meant(k, uri)' = Meant(k, uri)
    BY <2>1, SettingsStay DEF DsnInv
  <2>3. ASSUME Carriable
        PROVE  \E uri \in Built' : IF IsOptionString(config)' THEN OptionsInv(uri)' ELSE UriInv(uri)'
    <3>1. PICK uri \in Built : IF IsOptionString(config) THEN OptionsInv(uri) ELSE UriInv(uri)
      BY <2>1, <2>3 DEF DsnInv
    <3>2. ASSUME IsOptionString(config)
          PROVE  OptionsInv(uri)'
      <4>1. IsConfig(config) /\ AllCarried /\ Carried(uri)
        BY <2>2, <2>3, PlainTexts, UrisCarried DEF Carriable
      <4>2. dsn = Tail(Rest(1, uri))
        BY <3>1, <3>2 DEF OptionsInv
      <4>3. /\ Rest(1, uri) # <<>> /\ Follows(dsn, 1, Rest(1, uri)) /\ Contains(dsn, "=")
        BY <3>2, <4>1, <4>2, OptionStringStarts
      <4>4. stage' = "parsing" /\ parsed' = parsed
        BY <1>2, <4>3 DEF ParseDsn
      <4>5. NoOptions = Meant(1, uri)
        BY DEF Meant, NoOptions, FreeOptions
      <4>6. Follows(dsn, place, Rest(1, uri))'
        BY <2>1, <2>2, <4>3 DEF Follows
      <4>7. 1 \in 1..6
        OBVIOUS
      <4> QED
        BY <2>1, <2>2, <4>2, <4>3, <4>4, <4>5, <4>6, <4>7 DEF OptionsInv
    <3>3. ASSUME ~IsOptionString(config)
          PROVE  UriInv(uri)'
      <4>1. dsn = uri /\ dsn' = uri
        BY <2>1, <3>1, <3>3 DEF UriInv
      <4>2. CASE Contains(dsn, "=")
        <5>1. stage' = "parsing" /\ parsed' = parsed
          BY <1>2, <4>2 DEF ParseDsn
        <5> QED
          BY <2>1, <4>1, <4>2, <5>1 DEF UriInv
      <4>3. CASE ~Contains(dsn, "=")
        <5>1. stage' = "parsed" /\ parsed' = [NoOptions EXCEPT !.uri = dsn]
          BY <1>2, <2>1, <4>3 DEF ParseDsn
        <5>2. parsed'.uri = dsn
          BY <5>1 DEF NoOptions
        <5> QED
          BY <2>1, <4>1, <5>1, <5>2 DEF UriInv
      <4> QED
        BY <4>2, <4>3
    <3>4. IsOptionString(config)' <=> IsOptionString(config)
      BY <2>1 DEF IsOptionString
    <3> QED
      BY <2>2, <3>1, <3>2, <3>3, <3>4
  <2>4. stage' # "built" /\ stage' # "settings"
    BY <2>1
  <2> QED
    BY <2>1, <2>2, <2>3, <2>4 DEF DsnInv
<1>3. CASE ReadSegment
  <2>1. /\ UNCHANGED <<section, config, override, dsn>> /\ stage = "parsing"
        /\ stage' \in {"parsing", "parsed"}
    BY <1>3 DEF ReadSegment
  <2>2. /\ Chosen' /\ (Carriable' <=> Carriable) /\ Built' = Built
    BY <2>1, SettingsStay DEF DsnInv
  <2>3. ASSUME Carriable
        PROVE  \E uri \in Built' : IF IsOptionString(config)' THEN OptionsInv(uri)' ELSE UriInv(uri)'
    <3>1. PICK uri \in Built : IF IsOptionString(config) THEN OptionsInv(uri) ELSE UriInv(uri)
      BY <2>1, <2>3 DEF DsnInv
    <3>2. IsOptionString(config) => OptionsInv(uri)'
      BY <1>3, <2>3, <3>1, SettingIsRead
    <3>3. ~IsOptionString(config) => UriInv(uri)'
      BY <1>3, <2>3, <3>1, UriIsRead
    <3>4. IsOptionString(config)' <=> IsOptionString(config)
      BY <2>1 DEF IsOptionString
    <3> QED
      BY <2>2, <3>1, <3>2, <3>3, <3>4
  <2>4. stage' # "built" /\ stage' # "settings"
    BY <2>1
  <2> QED
    BY <2>1, <2>2, <2>3, <2>4 DEF DsnInv
<1>4. CASE UNCHANGED vars
  <2>1. UNCHANGED <<section, config, override, stage, dsn, place, parsed>>
    BY <1>4 DEF vars
  <2>2. /\ Chosen' /\ (Carriable' <=> Carriable) /\ Built' = Built
        /\ \A k, uri : Rest(k, uri)' = Rest(k, uri)
        /\ \A k, uri : Meant(k, uri)' = Meant(k, uri)
    BY <2>1, SettingsStay DEF DsnInv
  <2>3. \A uri : OptionsInv(uri)' <=> OptionsInv(uri)
    BY <2>1, <2>2 DEF OptionsInv, Follows
  <2>4. \A uri : UriInv(uri)' <=> UriInv(uri)
    BY <2>1 DEF UriInv
  <2>5. IsOptionString(config)' <=> IsOptionString(config)
    BY <2>1 DEF IsOptionString
  <2> QED
    BY <2>1, <2>2, <2>3, <2>4, <2>5 DEF DsnInv
<1> QED
  BY <1>1, <1>2, <1>3, <1>4 DEF Next

\* The invariant of building and parsing.
THEOREM DsnInductiveInvariant == Spec => []DsnInv
<1>1. Init => DsnInv
  BY DsnInvInitially
<1>2. DsnInv /\ [Next]_vars => DsnInv'
  BY DsnInvKept
<1> QED
  BY <1>1, <1>2, PTL DEF Spec

\* It says what the parsed option string is.
LEMMA ReadBackNow ==
  ASSUME DsnInv
  PROVE  OptionStringIsReadBack
<1> SUFFICES ASSUME stage = "parsed", ~Has(config, "dsn"), IsOptionString(config), NoBlanks("uri"), AllPlain
             PROVE  /\ ReadBack("driver", parsed.driver)
                    /\ ReadBack("entrypoint", parsed.entrypoint)
                    /\ ReadBack("additional_manifest_search_path_list", parsed.additional_search_path)
                    /\ IF UriGoes
                         THEN parsed.uri \in Built /\ parsed.options = <<>>
                         ELSE parsed.uri = None /\ parsed.options = Free("path") \o Free("sslmode")
  BY DEF OptionStringIsReadBack, AllPlain, UriGoes, Built
<1>1. PICK uri \in Built : parsed = Meant(6, uri)
  BY DEF DsnInv, Carriable, OptionsInv
<1> QED
  BY <1>1 DEF Meant, FreeOptions, ReadBack

\* What a binding writes, the backend reads.
THEOREM OptionStringsAreReadBack == Spec => []OptionStringIsReadBack
BY DsnInductiveInvariant, ReadBackNow, PTL

\* And for which URI a driver is inferred.
LEMMA SchemeChoosesNow ==
  ASSUME DsnInv
  PROVE  SchemeChoosesDriver
<1> SUFFICES ASSUME stage = "parsed", ~Has(config, "dsn"), ~Has(config, "uri"), AllPlain,
                    ~Contains(Given(config, "scheme", <<>>), "="),
                    HasUriComponents(config) \/ ~IsOptionString(config)
             PROVE  InferredDriver(parsed, dsn) = InferDriverName(NodeUri(section, config, override))
  BY DEF SchemeChoosesDriver, AllPlain
<1>1. Chosen /\ Carriable
  BY DEF DsnInv, Carriable, NoBlanks
<1>2. PICK uri \in Built : IF IsOptionString(config) THEN OptionsInv(uri) ELSE UriInv(uri)
  BY <1>1 DEF DsnInv
<1>3. InferDriverName(uri) = InferDriverName(NodeUri(section, config, override)) /\ uri # None
  <2>1. NodeUri(section, config, override) \in Built
    BY DEF Built
  <2> QED
    BY <1>1, <2>1, UrisStart, SameDriver
<1>4. CASE IsOptionString(config)
  <2>1. parsed = Meant(6, uri) /\ UriGoes
    BY <1>2, <1>4 DEF OptionsInv, UriGoes
  <2>2. parsed.uri = uri
    BY <2>1 DEF Meant
  <2> QED
    BY <1>3, <2>2 DEF InferredDriver
<1>5. CASE ~IsOptionString(config)
  <2>1. dsn = uri /\ parsed.uri \in {None, dsn}
    BY <1>2, <1>5 DEF UriInv
  <2> QED
    BY <1>3, <2>1 DEF InferredDriver
<1> QED
  BY <1>4, <1>5

\* The scheme of the settings chooses the driver, whether the URI reaches it as one or not.
THEOREM SchemesChooseDrivers == Spec => []SchemeChoosesDriver
BY DsnInductiveInvariant, SchemeChoosesNow, PTL
=============================================================================
