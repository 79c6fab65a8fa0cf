-------------------------- MODULE MessageReaderProofs --------------------------
(***************************************************************************)
(* Proofs about MessageReader: pages that cursors chain are one result,    *)
(* mail is read from the mailbox that the request is authorised for, and   *)
(* the text of a message is bounded, for any number of mailboxes, messages *)
(* and changes and for bodies of any length.                               *)
(***************************************************************************)
EXTENDS MessageReader, TLAPS, SequenceTheorems, WellFoundedInduction

-----------------------------------------------------------------------------
(* The inductive invariant.                                                *)

ReadTokens ==
  [purpose : {"cursor", "message", "attachment"}, scope : Scope, expires : Int,
   message : Ids \cup {None}, state : Nat, position : Nat, trail : Seq(Ids)]

ReadCalls ==
  [pc : {"idle", "mapping", "session", "query", "get"}, kind : {"none", "list", "message"},
   scope : Scope \cup {None}, limit : Nat, position : Nat, previous : Nat, trail : Seq(Ids),
   message : Ids \cup {None}, named : Scope \cup {None}, ids : Seq(Ids), more : BOOLEAN, state : Nat]

ReadTypeOK ==
  /\ now \in Nat
  /\ account \in Scope \cup {None}
  /\ past \in [Mailboxes -> Seq(Seq(Ids))]
  /\ \A m \in Mailboxes : Len(past[m]) > 0
  /\ token # None => token \in ReadTokens
  /\ call \in ReadCalls

\* The trail is what the mailbox held first at that query state, as far as the
\* position.  The history that past tells is a parameter of what follows.
Piece(history, mailbox, state, trail, position) ==
  /\ state \in 1 .. Len(history[mailbox])
  /\ Len(trail) = position
  /\ position <= Len(history[mailbox][state])
  /\ \A i \in 1 .. position : trail[i] = history[mailbox][state][i]

TokenOK(history, t) ==
  t.purpose = "cursor" => Piece(history, t.scope.mailbox, t.state, t.trail, t.position)

\* The messages that come next in the page, and whether there are more.
NextIds(history, c) ==
  LET held == history[c.scope.mailbox][c.state]
  IN /\ Piece(history, c.scope.mailbox, c.state, c.trail, c.position)
     /\ c.position + Len(c.ids) <= Len(held)
     /\ \A i \in 1 .. Len(c.ids) : c.ids[i] = held[c.position + i]
     /\ ~c.more => c.position + Len(c.ids) = Len(held)

\* A read for a page knows where the pages before end; once it has asked for the
\* ids, it knows the next ones.
ListOK(history, c) ==
  /\ c.limit > 0
  /\ c.previous = 0 => c.trail = <<>> /\ c.position = 0
  /\ c.previous # 0 => Piece(history, c.scope.mailbox, c.previous, c.trail, c.position)
  /\ c.pc = "get" => NextIds(history, c)

CallOK(history, c) ==
  c.pc # "idle" =>
    /\ c.scope \in Scope
    /\ c.kind = "list" => ListOK(history, c)
    /\ c.kind = "message" => c.named = c.scope
    /\ c.kind # "none"
    /\ c.pc = "query" => c.kind = "list"

\* The answer holds, as the properties of the module say.
AnswerOK == PagesAreOneResult /\ MailIsTheirs

ReadInductive ==
  /\ ReadTypeOK
  /\ token # None => TokenOK(past, token)
  /\ CallOK(past, call)
  /\ AnswerOK

-----------------------------------------------------------------------------
(* The text of a message.                                                  *)

\* A set of numbers has a least one.
LEMMA LeastNumber ==
  ASSUME NEW T, T \subseteq Nat, T # {}
  PROVE  \E x \in T : \A y \in T : x <= y
<1> DEFINE before == {p \in Nat \X Nat : p[1] < p[2]}
<1>1. IsWellFoundedOn(before, Nat)
  BY NatLessThanWellFounded, Zenon DEF OpToRel
<1> HIDE DEF before
<1>2. PICK x \in T : \A y \in T : ~(<<y, x>> \in before)
  BY <1>1, WFMin, Zenon
<1>3. ASSUME NEW y \in T PROVE x <= y
  <2>1. <<y, x>> \in Nat \X Nat /\ ~(<<y, x>> \in before)
    BY <1>2
  <2>2. ~(y < x)
    BY <2>1 DEF before
  <2> QED
    BY <2>2
<1> QED
  BY <1>3

NoText == [size |-> 0, truncated |-> FALSE, done |-> FALSE]

\* f tells the text, or the size of all, after each of the first k parts.
Texts(f, parts, k) ==
  f = [n \in 0 .. k |-> IF n = 0 THEN NoText ELSE appendPart(f[n - 1], parts[n])]

Sizes(f, parts, k) ==
  f = [n \in 0 .. k |-> IF n = 0 THEN 0
                        ELSE IF f[n - 1] > 0 THEN f[n - 1] + 1 + parts[n].size ELSE parts[n].size]

\* Both recursions have a solution.
LEMMA TextsExist ==
  ASSUME NEW parts, NEW length \in Nat
  PROVE  \E f : Texts(f, parts, length)
<1> DEFINE bad == {k \in Nat : ~ \E f : Texts(f, parts, k)}
<1> SUFFICES ASSUME bad # {} PROVE FALSE
  OBVIOUS
<1>1. PICK k \in bad : \A j \in bad : k <= j
  BY LeastNumber, bad \subseteq Nat
<1>2. CASE k = 0
  <2> DEFINE g == [n \in 0 .. 0 |-> NoText]
  <2>1. Texts(g, parts, 0)
    BY SMT DEF Texts
  <2> QED
    BY <2>1, <1>1, <1>2
<1>3. CASE k # 0
  <2>1. k - 1 \in Nat /\ k - 1 \notin bad
    BY <1>1, <1>3
  <2>2. PICK f : Texts(f, parts, k - 1)
    BY <2>1
  <2> DEFINE g == [n \in 0 .. k |-> IF n = 0 THEN NoText ELSE appendPart(f[n - 1], parts[n])]
  <2>3. ASSUME NEW n \in 0 .. k, n # 0 PROVE g[n - 1] = f[n - 1]
    <3>1. n - 1 \in 0 .. (k - 1) /\ n - 1 \in 0 .. k
      BY <1>1, <2>3
    <3> QED
      BY <3>1, <2>2 DEF Texts
  <2>4. Texts(g, parts, k)
    <3>1. \A n \in 0 .. k : g[n] = IF n = 0 THEN NoText ELSE appendPart(g[n - 1], parts[n])
      BY <2>3
    <3>2. g = [n \in 0 .. k |-> g[n]]
      OBVIOUS
    <3> HIDE DEF g
    <3> QED
      BY <3>1, <3>2 DEF Texts
  <2> QED
    BY <2>4, <1>1
<1> QED
  BY <1>2, <1>3

LEMMA SizesExist ==
  ASSUME NEW parts, NEW length \in Nat
  PROVE  \E f : Sizes(f, parts, length)
<1> DEFINE bad == {k \in Nat : ~ \E f : Sizes(f, parts, k)}
<1> SUFFICES ASSUME bad # {} PROVE FALSE
  OBVIOUS
<1>1. PICK k \in bad : \A j \in bad : k <= j
  BY LeastNumber, bad \subseteq Nat
<1>2. CASE k = 0
  <2> DEFINE g == [n \in 0 .. 0 |-> 0]
  <2>1. Sizes(g, parts, 0)
    BY SMT DEF Sizes
  <2> QED
    BY <2>1, <1>1, <1>2
<1>3. CASE k # 0
  <2>1. k - 1 \in Nat /\ k - 1 \notin bad
    BY <1>1, <1>3
  <2>2. PICK f : Sizes(f, parts, k - 1)
    BY <2>1
  <2> DEFINE g == [n \in 0 .. k |-> IF n = 0 THEN 0
                                    ELSE IF f[n - 1] > 0 THEN f[n - 1] + 1 + parts[n].size
                                         ELSE parts[n].size]
  <2>3. ASSUME NEW n \in 0 .. k, n # 0 PROVE g[n - 1] = f[n - 1]
    <3>1. n - 1 \in 0 .. (k - 1) /\ n - 1 \in 0 .. k
      BY <1>1, <2>3
    <3> QED
      BY <3>1, <2>2 DEF Sizes
  <2>4. Sizes(g, parts, k)
    <3>1. \A n \in 0 .. k : g[n] = IF n = 0 THEN 0
                                   ELSE IF g[n - 1] > 0 THEN g[n - 1] + 1 + parts[n].size
                                        ELSE parts[n].size
      BY <2>3
    <3>2. g = [n \in 0 .. k |-> g[n]]
      OBVIOUS
    <3> HIDE DEF g
    <3> QED
      BY <3>1, <3>2 DEF Sizes
  <2> QED
    BY <2>4, <1>1
<1> QED
  BY <1>2, <1>3

\* textOf and Whole solve the recursions.
LEMMA TextUnfolds ==
  ASSUME NEW parts, Len(parts) \in Nat
  PROVE  /\ \E f : Texts(f, parts, Len(parts)) /\ textOf(parts) = f[Len(parts)]
         /\ \E f : Sizes(f, parts, Len(parts)) /\ Whole(parts) = f[Len(parts)]
<1> DEFINE length == Len(parts)
<1>1. textOf(parts) = (CHOOSE f : Texts(f, parts, length))[length]
  BY DEF textOf, Texts, NoText
<1>2. Whole(parts) = (CHOOSE f : Sizes(f, parts, length))[length]
  BY DEF Whole, Sizes
<1>3. length \in Nat
  OBVIOUS
<1> HIDE DEF length
<1>4. Texts((CHOOSE f : Texts(f, parts, length)), parts, length)
  BY <1>3, TextsExist, Zenon
<1>5. Sizes((CHOOSE f : Sizes(f, parts, length)), parts, length)
  BY <1>3, SizesExist, Zenon
<1> QED
  BY <1>1, <1>2, <1>4, <1>5, Zenon DEF length

Part == [size : Nat, cut : BOOLEAN]

\* After n parts with a size of w in all the text is t: it is whole as long as
\* it is not done, and cut at its limit afterwards.
SoFar(t, w, parts, n) ==
  /\ t \in [size : Nat, truncated : BOOLEAN, done : BOOLEAN] /\ w \in Nat
  /\ t.size <= maximumTextBytes + 1
  /\ ~t.done => /\ t.size = w /\ w <= maximumTextBytes
                /\ t.truncated => \E i \in 1 .. n : parts[i].cut
  /\ t.done => t.truncated /\ w >= maximumTextBytes

LEMMA AppendOK ==
  ASSUME NEW parts \in Seq(Part), NEW n \in 1 .. Len(parts), NEW t, NEW w,
         SoFar(t, w, parts, n - 1)
  PROVE  SoFar(appendPart(t, parts[n]),
               IF w > 0 THEN w + 1 + parts[n].size ELSE parts[n].size, parts, n)
<1> DEFINE part      == parts[n]
           joined    == IF t.size > 0 THEN t.size + 1 ELSE 0
           remaining == maximumTextBytes - joined
           whole     == IF w > 0 THEN w + 1 + part.size ELSE part.size
           next      == appendPart(t, part)
<1>1. /\ maximumTextBytes \in Nat \ {0} /\ part \in Part /\ part.size \in Nat /\ w \in Nat
      /\ t.size \in Nat /\ t.truncated \in BOOLEAN /\ t.done \in BOOLEAN
      /\ part.cut \in BOOLEAN /\ whole \in Nat /\ joined \in Nat
  <2>1. part \in Part
    OBVIOUS
  <2>2. part.size \in Nat /\ part.cut \in BOOLEAN
    BY <2>1 DEF Part
  <2>3. /\ t \in [size : Nat, truncated : BOOLEAN, done : BOOLEAN] /\ w \in Nat
    BY DEF SoFar
  <2>4. t.size \in Nat /\ t.truncated \in BOOLEAN /\ t.done \in BOOLEAN
    BY <2>3
  <2> HIDE DEF part
  <2>5. whole \in Nat
    BY <2>2, <2>3
  <2>6. joined \in Nat
    BY <2>4
  <2>7. maximumTextBytes \in Nat \ {0}
    BY ReaderAssumption
  <2> HIDE DEF whole, joined
  <2> QED
    BY <2>1, <2>2, <2>3, <2>4, <2>5, <2>6, <2>7
<1>2. CASE t.done
  <2>1. next = t
    BY <1>2 DEF appendPart
  <2> QED
    BY <1>1, <1>2, <2>1 DEF SoFar
<1>3. CASE ~t.done /\ remaining <= 0
  <2>1. next = [size |-> joined, truncated |-> TRUE, done |-> TRUE]
    BY <1>1, <1>3 DEF appendPart
  <2>2. joined <= maximumTextBytes + 1 /\ whole >= maximumTextBytes
    BY <1>1, <1>3 DEF SoFar
  <2> QED
    BY <1>1, <2>1, <2>2 DEF SoFar
<1>4. CASE ~t.done /\ remaining > 0 /\ part.size > remaining
  <2>1. next = [size |-> maximumTextBytes, truncated |-> TRUE, done |-> TRUE]
    BY <1>1, <1>4 DEF appendPart
  <2>2. whole >= maximumTextBytes
    BY <1>1, <1>4 DEF SoFar
  <2> QED
    BY <1>1, <2>1, <2>2 DEF SoFar
<1>5. CASE ~t.done /\ remaining > 0 /\ part.size <= remaining
  <2>1. next = [size |-> joined + part.size, truncated |-> t.truncated \/ part.cut, done |-> FALSE]
    BY <1>1, <1>5 DEF appendPart
  <2>2. joined + part.size = whole /\ whole <= maximumTextBytes
    BY <1>1, <1>5 DEF SoFar
  <2>3. t.truncated \/ part.cut => \E i \in 1 .. n : parts[i].cut
    BY <1>1, <1>5 DEF SoFar
  <2>4. /\ next.size = whole /\ next.done = FALSE
        /\ next.truncated <=> t.truncated \/ part.cut
        /\ next \in [size : Nat, truncated : BOOLEAN, done : BOOLEAN]
    BY <1>1, <2>1, <2>2
  <2>5. whole \in Nat /\ n \in Nat
    BY <1>1
  <2> HIDE DEF next, whole
  <2>6. SoFar(next, whole, parts, n)
    BY <1>1, <2>2, <2>3, <2>4, <2>5 DEF SoFar
  <2> QED
    BY <2>6 DEF next, whole
<1> QED
  BY <1>1, <1>2, <1>3, <1>4, <1>5

\* For every body, of any number of parts of any size.
LEMMA TextBounded == ASSUME NEW parts \in Seq(Part) PROVE TextWithinOneByte(parts)
<1> DEFINE length == Len(parts)
<1>1. length \in Nat
  OBVIOUS
<1>2. PICK f : Texts(f, parts, length) /\ textOf(parts) = f[length]
  BY <1>1, TextUnfolds
<1>3. PICK g : Sizes(g, parts, length) /\ Whole(parts) = g[length]
  BY <1>1, TextUnfolds
<1> DEFINE bad == {n \in 0 .. length : ~SoFar(f[n], g[n], parts, n)}
<1>4. bad = {}
  <2> SUFFICES ASSUME bad # {} PROVE FALSE
    OBVIOUS
  <2>1. PICK n \in bad : \A j \in bad : n <= j
    <3>1. bad \subseteq Nat
      OBVIOUS
    <3> QED
      BY <3>1, LeastNumber
  <2>2. CASE n = 0
    <3>1. f[0] = NoText /\ g[0] = 0
      BY <1>1, <1>2, <1>3 DEF Texts, Sizes
    <3>2. SoFar(NoText, 0, parts, 0)
      BY ReaderAssumption DEF SoFar, NoText
    <3> QED
      BY <2>1, <2>2, <3>1, <3>2
  <2>3. CASE n # 0
    <3>1. n - 1 \in 0 .. length /\ n - 1 \notin bad /\ n \in 1 .. length
      BY <2>1, <2>3
    <3>2. SoFar(f[n - 1], g[n - 1], parts, n - 1)
      BY <3>1
    <3>3. /\ f[n] = appendPart(f[n - 1], parts[n])
          /\ g[n] = IF g[n - 1] > 0 THEN g[n - 1] + 1 + parts[n].size ELSE parts[n].size
      BY <1>2, <1>3, <2>1, <2>3 DEF Texts, Sizes
    <3>4. SoFar(f[n], g[n], parts, n)
      BY <3>1, <3>2, <3>3, AppendOK
    <3> QED
      BY <2>1, <3>4
  <2> QED
    BY <2>2, <2>3
<1>5. SoFar(textOf(parts), Whole(parts), parts, length)
  BY <1>1, <1>2, <1>3, <1>4
<1>6. DOMAIN parts = 1 .. length /\ maximumTextBytes \in Nat
  BY ReaderAssumption
<1> HIDE DEF length
<1> QED
  BY <1>5, <1>6 DEF SoFar, TextWithinOneByte

\* Two rounds of the loop: the part fits, or nothing is left for it.
LEMMA AppendFits ==
  ASSUME NEW t, NEW part, NEW joined \in Nat, t.size \in Nat, part.size \in Nat, ~t.done,
         joined = (IF t.size > 0 THEN t.size + 1 ELSE 0), maximumTextBytes \in Nat,
         joined < maximumTextBytes, joined + part.size <= maximumTextBytes
  PROVE  appendPart(t, part)
           = [size |-> joined + part.size, truncated |-> t.truncated \/ part.cut, done |-> FALSE]
  BY DEF appendPart

LEMMA AppendStops ==
  ASSUME NEW t, NEW part, NEW joined \in Nat, t.size \in Nat, part.size \in Nat, ~t.done,
         joined = (IF t.size > 0 THEN t.size + 1 ELSE 0), maximumTextBytes \in Nat,
         joined >= maximumTextBytes
  PROVE  appendPart(t, part) = [size |-> joined, truncated |-> TRUE, done |-> TRUE]
  BY DEF appendPart

\* What two parts give, the second of them empty.
LEMMA TwoParts ==
  ASSUME NEW size \in Nat \ {0}, size <= maximumTextBytes, maximumTextBytes <= size + 1
  PROVE  LET parts == <<[size |-> size, cut |-> FALSE], [size |-> 0, cut |-> FALSE]>>
         IN /\ parts \in Seq(Part)
            /\ \A i \in DOMAIN parts : ~parts[i].cut
            /\ textOf(parts).size = size + 1 /\ textOf(parts).truncated
            /\ Whole(parts) = size + 1
<1> DEFINE first == [size |-> size, cut |-> FALSE]
           empty == [size |-> 0, cut |-> FALSE]
           parts == <<first, empty>>
<1>1. /\ first \in Part /\ empty \in Part /\ parts \in Seq(Part)
      /\ Len(parts) = 2 /\ parts[1] = first /\ parts[2] = empty
      /\ \A i \in DOMAIN parts : ~parts[i].cut
  BY DEF Part
<1>2. maximumTextBytes \in Nat
  BY ReaderAssumption
<1> DEFINE whole == [size |-> size, truncated |-> FALSE, done |-> FALSE]
<1>3. appendPart(NoText, first) = whole
  <2>1. /\ NoText.size = 0 /\ ~NoText.done /\ ~NoText.truncated
        /\ first.size = size /\ ~first.cut
    BY DEF NoText
  <2>2. 0 < maximumTextBytes /\ 0 + size <= maximumTextBytes /\ 0 + size = size
    BY <1>2
  <2> HIDE DEF first
  <2>3. appendPart(NoText, first)
          = [size |-> 0 + first.size, truncated |-> NoText.truncated \/ first.cut, done |-> FALSE]
    <3>1. /\ 0 \in Nat /\ NoText.size \in Nat /\ first.size \in Nat /\ ~NoText.done
          /\ 0 = (IF NoText.size > 0 THEN NoText.size + 1 ELSE 0)
          /\ 0 < maximumTextBytes /\ 0 + first.size <= maximumTextBytes
      BY <2>1, <2>2
    <3> QED
      BY <1>2, <3>1, AppendFits, Zenon
  <2>4. 0 + first.size = size /\ (NoText.truncated \/ first.cut) = FALSE
    BY <2>1, <2>2
  <2> QED
    BY <2>3, <2>4
<1>4. appendPart(whole, empty) = [size |-> size + 1, truncated |-> TRUE, done |-> TRUE]
  <2>1. whole.size = size /\ ~whole.done /\ size > 0 /\ empty.size = 0
    OBVIOUS
  <2> HIDE DEF whole, empty
  <2> QED
    BY <1>2, <2>1, AppendStops
<1> HIDE DEF parts
<1>5. PICK f : Texts(f, parts, 2) /\ textOf(parts) = f[2]
  <2>1. Len(parts) \in Nat /\ Len(parts) = 2
    BY <1>1
  <2>2. \E f : Texts(f, parts, Len(parts)) /\ textOf(parts) = f[Len(parts)]
    BY <2>1, TextUnfolds, Zenon
  <2> QED
    BY <2>1, <2>2, Zenon
<1>6. f[0] = NoText /\ f[1] = appendPart(f[0], parts[1]) /\ f[2] = appendPart(f[1], parts[2])
  BY <1>5 DEF Texts
<1>7. PICK g : Sizes(g, parts, 2) /\ Whole(parts) = g[2]
  <2>1. Len(parts) \in Nat /\ Len(parts) = 2
    BY <1>1
  <2>2. \E g : Sizes(g, parts, Len(parts)) /\ Whole(parts) = g[Len(parts)]
    BY <2>1, TextUnfolds, Zenon
  <2> QED
    BY <2>1, <2>2, Zenon
<1>8. /\ g[0] = 0
      /\ g[1] = IF g[0] > 0 THEN g[0] + 1 + parts[1].size ELSE parts[1].size
      /\ g[2] = IF g[1] > 0 THEN g[1] + 1 + parts[2].size ELSE parts[2].size
  BY <1>7 DEF Sizes
<1>9. f[2] = [size |-> size + 1, truncated |-> TRUE, done |-> TRUE] /\ g[2] = size + 1
  BY <1>1, <1>3, <1>4, <1>6, <1>8
<1>10. /\ textOf(parts).size = size + 1 /\ textOf(parts).truncated
       /\ Whole(parts) = size + 1
  BY <1>5, <1>7, <1>9
<1> QED
  BY <1>1, <1>10 DEF parts

-----------------------------------------------------------------------------
(* What a mailbox has held is not forgotten.                               *)

Extends(history, before) ==
  \A m \in Mailboxes : \A k \in 1 .. Len(before[m]) :
    k \in 1 .. Len(history[m]) /\ history[m][k] = before[m][k]

LEMMA PieceKept ==
  ASSUME NEW history, NEW before, Extends(history, before), NEW m \in Mailboxes,
         NEW state, NEW trail, NEW position, Piece(before, m, state, trail, position)
  PROVE  Piece(history, m, state, trail, position)
  BY DEF Extends, Piece

LEMMA TokenKept ==
  ASSUME NEW history, NEW before, Extends(history, before), NEW t \in ReadTokens, TokenOK(before, t)
  PROVE  TokenOK(history, t)
<1>1. t.scope.mailbox \in Mailboxes
  BY DEF ReadTokens, Scope
<1> QED
  BY <1>1, PieceKept DEF TokenOK

LEMMA CallKept ==
  ASSUME NEW history, NEW before, Extends(history, before), NEW c, CallOK(before, c)
  PROVE  CallOK(history, c)
<1>1. CASE c.pc # "idle" /\ c.kind = "list"
  <2>1. c.scope.mailbox \in Mailboxes /\ ListOK(before, c)
    BY <1>1 DEF CallOK, Scope
  <2>2. c.pc = "get" => history[c.scope.mailbox][c.state] = before[c.scope.mailbox][c.state]
    BY <2>1 DEF Extends, ListOK, NextIds, Piece
  <2>3. ListOK(history, c)
    BY <2>1, <2>2, PieceKept DEF ListOK, NextIds
  <2> QED
    BY <1>1, <2>3 DEF CallOK
<1>2. CASE ~(c.pc # "idle" /\ c.kind = "list")
  BY <1>2 DEF CallOK
<1> QED
  BY <1>1, <1>2

-----------------------------------------------------------------------------
(* Steps that go on and steps that refuse.                                 *)

LEMMA NoAnswerOK == ASSUME NEW r, answer' = [NoAnswer EXCEPT !.result = r], r \notin {"page", "message"}
                    PROVE  AnswerOK'
<1>1. answer'.result = r /\ answer'.items = <<>>
  BY DEF NoAnswer
<1> QED
  BY <1>1 DEF AnswerOK, PagesAreOneResult, MailIsTheirs

LEMMA QuietAnswerOK == answer' = NoAnswer => AnswerOK'
<1> SUFFICES ASSUME answer' = NoAnswer PROVE AnswerOK'
  OBVIOUS
<1>1. answer'.result = "none" /\ answer'.items = <<>>
  BY DEF NoAnswer
<1> QED
  BY <1>1 DEF AnswerOK, PagesAreOneResult, MailIsTheirs

LEMMA NoCallOK == NoCall \in ReadCalls /\ NoCall.pc = "idle"
  BY DEF NoCall, ReadCalls

LEMMA RefuseOK ==
  ASSUME ReadInductive, NEW r, Refuse(r), r \notin {"page", "message"} PROVE ReadInductive'
<1>1. UNCHANGED <<now, account, past, token>> /\ call' = NoCall /\ AnswerOK'
  BY NoAnswerOK DEF Refuse, Answer
<1>2. ReadTypeOK'
  BY <1>1, NoCallOK DEF ReadInductive, ReadTypeOK
<1>3. CallOK(past', call') /\ (token' # None => TokenOK(past', token'))
  BY <1>1, NoCallOK DEF ReadInductive, CallOK
<1> QED
  BY <1>1, <1>2, <1>3 DEF ReadInductive

LEMMA ProceedOK ==
  ASSUME ReadInductive, NEW STATE c, Proceed(c), c \in ReadCalls, CallOK(past, c) PROVE ReadInductive'
<1>1. UNCHANGED <<now, account, past, token>> /\ call' = c /\ AnswerOK'
  BY QuietAnswerOK DEF Proceed
<1>2. ReadTypeOK'
  BY <1>1 DEF ReadInductive, ReadTypeOK
<1>3. CallOK(past', call') /\ (token' # None => TokenOK(past', token'))
  BY <1>1 DEF ReadInductive
<1> QED
  BY <1>1, <1>2, <1>3 DEF ReadInductive

-----------------------------------------------------------------------------
(* The reads.                                                              *)

LEMMA TokenErrors ==
  ASSUME NEW purpose PROVE tokenError(purpose) \notin {"page", "message"}
  BY DEF tokenError

LEMMA ListMessagesOK ==
  ASSUME ReadInductive, NEW scope \in Scope, NEW limit \in 1 .. maximumPageSize, NEW t \in {None, token},
         ListMessages(scope, limit, t)
  PROVE  ReadInductive'
<1> DEFINE position == IF t = None THEN 0 ELSE t.position
           previous == IF t = None THEN 0 ELSE t.state
           trail    == IF t = None THEN <<>> ELSE t.trail
           c        == [NoCall EXCEPT !.pc = "mapping", !.kind = "list", !.scope = scope,
                                      !.limit = limit, !.position = position,
                                      !.previous = previous, !.trail = trail]
<1>1. \/ Refuse(tokenError("cursor"))
      \/ Proceed(c) /\ (t # None => openReadToken(t, scope, "cursor") /\ t.state # 0)
  BY DEF ListMessages
<1>2. CASE Refuse(tokenError("cursor"))
  BY <1>2, TokenErrors, RefuseOK
<1>3. CASE Proceed(c) /\ (t # None => openReadToken(t, scope, "cursor") /\ t.state # 0)
  <2>1. maximumPageSize \in Nat /\ limit \in Nat /\ limit > 0
    BY ReaderAssumption
  <2>2. t # None => t \in ReadTokens /\ Piece(past, scope.mailbox, t.state, t.trail, t.position)
    BY <1>3 DEF ReadInductive, ReadTypeOK, TokenOK, openReadToken
  <2>3. position \in Nat /\ previous \in Nat /\ trail \in Seq(Ids)
    BY <2>2 DEF ReadTokens
  <2>4. previous = 0 => trail = <<>> /\ position = 0
    BY <1>3
  <2>5. previous # 0 => Piece(past, scope.mailbox, previous, trail, position)
    BY <2>2
  <2> HIDE DEF position, previous, trail
  <2>6. c \in ReadCalls
    BY <2>1, <2>3, NoCallOK DEF ReadCalls
  <2>7. /\ c.pc = "mapping" /\ c.kind = "list" /\ c.scope = scope /\ c.limit = limit
        /\ c.position = position /\ c.previous = previous /\ c.trail = trail
    BY DEF NoCall
  <2> HIDE DEF c
  <2>8. CallOK(past, c)
    BY <2>1, <2>4, <2>5, <2>7 DEF CallOK, ListOK
  <2> QED
    BY <1>3, <2>6, <2>8, ProceedOK
<1> QED
  BY <1>1, <1>2, <1>3

LEMMA GetMessageOK ==
  ASSUME ReadInductive, NEW scope \in Scope, token # None, GetMessage(scope, token)
  PROVE  ReadInductive'
<1> DEFINE c == [NoCall EXCEPT !.pc = "mapping", !.kind = "message", !.scope = scope,
                               !.message = token.message, !.named = token.scope]
<1>1. \/ Refuse(tokenError("message"))
      \/ Proceed(c) /\ token.scope = scope
  BY DEF GetMessage, openReadToken
<1>2. CASE Refuse(tokenError("message"))
  BY <1>2, TokenErrors, RefuseOK
<1>3. CASE Proceed(c) /\ token.scope = scope
  <2>1. token.message \in Ids \cup {None}
    BY DEF ReadInductive, ReadTypeOK, ReadTokens
  <2>2. c \in ReadCalls
    BY <1>3, <2>1, NoCallOK DEF ReadCalls
  <2>3. c.pc = "mapping" /\ c.kind = "message" /\ c.scope = scope /\ c.named = scope
    BY <1>3 DEF NoCall
  <2> HIDE DEF c
  <2>4. CallOK(past, c)
    BY <2>3 DEF CallOK
  <2> QED
    BY <1>3, <2>2, <2>4, ProceedOK
<1> QED
  BY <1>1, <1>2, <1>3

LEMMA RequestFailsOK ==
  ASSUME ReadInductive, requestFails \/ denied PROVE ReadInductive'
  BY RefuseOK DEF requestFails, denied

\* The same read, one request further.
LEMMA NextRequestOK ==
  ASSUME ReadInductive, call.pc # "idle", NEW pc \in {"mapping", "session", "query", "get"},
         pc = "query" => call.kind = "list",
         pc = "get" => call.kind = "message",
         Proceed([call EXCEPT !.pc = pc])
  PROVE  ReadInductive'
<1> DEFINE c == [call EXCEPT !.pc = pc]
<1>1. c \in ReadCalls
  BY DEF ReadInductive, ReadTypeOK, ReadCalls
<1>2. /\ c.pc = pc /\ c.kind = call.kind /\ c.scope = call.scope /\ c.limit = call.limit
      /\ c.position = call.position /\ c.previous = call.previous /\ c.trail = call.trail
      /\ c.named = call.named
  BY DEF ReadInductive, ReadTypeOK, ReadCalls
<1> HIDE DEF c
<1>3. CallOK(past, c)
  BY <1>2 DEF ReadInductive, CallOK, ListOK
<1> QED
  BY <1>1, <1>3, ProceedOK DEF c

LEMMA CheckMappingOK ==
  ASSUME ReadInductive, checkMapping PROVE ReadInductive'
  BY NextRequestOK, RefuseOK DEF checkMapping

LEMMA OpenSessionOK ==
  ASSUME ReadInductive, openMailboxSession PROVE ReadInductive'
<1>1. call.kind \in {"list", "message"}
  BY DEF ReadInductive, ReadTypeOK, ReadCalls, CallOK, openMailboxSession
<1> QED
  BY <1>1, NextRequestOK DEF openMailboxSession

\* Where the read stands when it asks for its page: the pages before are the
\* first messages of the mailbox as it is now.
LEMMA QueryFacts ==
  ASSUME ReadInductive, call.pc = "query", Authenticated, SameQuery(QueryState(account.mailbox))
  PROVE  /\ account = call.scope /\ call.scope \in Scope /\ account.mailbox \in Mailboxes
         /\ call.kind = "list" /\ ListOK(past, call)
         /\ Mail(account.mailbox) \in Seq(Ids)
         /\ Mail(account.mailbox) = past[account.mailbox][QueryState(account.mailbox)]
         /\ Piece(past, account.mailbox, QueryState(account.mailbox), call.trail, call.position)
<1>1. /\ account = call.scope /\ call.scope \in Scope /\ account.mailbox \in Mailboxes
      /\ call.kind = "list" /\ ListOK(past, call)
  BY DEF ReadInductive, CallOK, Authenticated, Scope
<1>2. past[account.mailbox] \in Seq(Seq(Ids)) /\ Len(past[account.mailbox]) > 0
  BY <1>1 DEF ReadInductive, ReadTypeOK
<1>3. QueryState(account.mailbox) \in 1 .. Len(past[account.mailbox])
  BY <1>2 DEF QueryState
<1>4. Mail(account.mailbox) = past[account.mailbox][QueryState(account.mailbox)]
  BY DEF Mail, Last, QueryState
<1>5. Mail(account.mailbox) \in Seq(Ids)
  BY <1>2, <1>3, <1>4
<1>6. CASE call.previous = 0
  <2>1. call.trail = <<>> /\ call.position = 0
    BY <1>1, <1>6 DEF ListOK
  <2> QED
    BY <1>1, <1>3, <1>4, <1>5, <2>1 DEF Piece
<1>7. CASE call.previous # 0
  BY <1>1, <1>4, <1>5, <1>7 DEF ListOK, SameQuery
<1> QED
  BY <1>1, <1>4, <1>5, <1>6, <1>7

\* What the query finds: the messages after the position, as many as the page has.
LEMMA FoundIds ==
  ASSUME NEW mail \in Seq(Ids), NEW position \in Nat, NEW limit \in Nat \ {0}, position <= Len(mail)
  PROVE  LET upto  == IF Len(mail) < position + limit + 1 THEN Len(mail) ELSE position + limit + 1
             found == SubSeq(mail, position + 1, upto)
             ids   == IF Len(found) > limit THEN SubSeq(found, 1, limit) ELSE found
         IN /\ ids \in Seq(Ids)
            /\ position + Len(ids) <= Len(mail)
            /\ \A i \in 1 .. Len(ids) : ids[i] = mail[position + i]
            /\ ~(Len(found) > limit) => position + Len(ids) = Len(mail)
            /\ ids = <<>> => ~(Len(found) > limit)
<1> DEFINE upto  == IF Len(mail) < position + limit + 1 THEN Len(mail) ELSE position + limit + 1
           found == SubSeq(mail, position + 1, upto)
           first == SubSeq(found, 1, limit)
<1>1. upto \in Nat /\ position <= upto /\ upto <= Len(mail)
  OBVIOUS
<1>2. \A i \in position + 1 .. upto : mail[i] \in Ids
  BY <1>1
<1>3. /\ found \in Seq(Ids) /\ Len(found) = upto - position
      /\ \A i \in 1 .. Len(found) : found[i] = mail[position + i]
  <2>1. /\ found \in Seq(Ids)
        /\ Len(found) = IF position + 1 <= upto THEN upto - (position + 1) + 1 ELSE 0
        /\ \A i \in 1 .. upto - (position + 1) + 1 : found[i] = mail[(position + 1) + i - 1]
    BY <1>1, <1>2, SubSeqProperties
  <2> HIDE DEF upto, found
  <2>2. Len(found) = upto - position
    BY <1>1, <2>1
  <2>3. ASSUME NEW i \in 1 .. Len(found) PROVE found[i] = mail[position + i]
    <3>1. i \in 1 .. upto - (position + 1) + 1 /\ (position + 1) + i - 1 = position + i
      BY <1>1, <2>2
    <3> QED
      BY <2>1, <3>1
  <2> QED
    BY <2>1, <2>2, <2>3
<1>4. Len(found) > limit <=> upto = position + limit + 1
  BY <1>1, <1>3
<1>5. ~(Len(found) > limit) => upto = Len(mail)
  BY <1>4
<1> HIDE DEF found, upto
<1>6. CASE Len(found) > limit
  <2>1. \A i \in 1 .. limit : found[i] \in Ids
    BY <1>3, <1>6
  <2>2. /\ first \in Seq(Ids) /\ Len(first) = limit
        /\ \A i \in 1 .. limit : first[i] = found[i]
    <3>1. /\ first \in Seq(Ids)
          /\ Len(first) = IF 1 <= limit THEN limit - 1 + 1 ELSE 0
          /\ \A i \in 1 .. limit - 1 + 1 : first[i] = found[1 + i - 1]
      BY <2>1, SubSeqProperties
    <3> HIDE DEF first
    <3> QED
      BY <3>1
  <2> HIDE DEF first
  <2>3. first # <<>> /\ position + Len(first) <= Len(mail)
    BY <1>1, <1>3, <1>6, <2>2
  <2>4. \A i \in 1 .. Len(first) : first[i] = mail[position + i]
    BY <1>3, <1>6, <2>2
  <2> QED
    BY <1>6, <2>2, <2>3, <2>4 DEF found, upto, first
<1>7. CASE ~(Len(found) > limit)
  <2>1. position + Len(found) = Len(mail)
    BY <1>1, <1>3, <1>5, <1>7
  <2> QED
    BY <1>3, <1>7, <2>1 DEF found, upto
<1> QED
  BY <1>6, <1>7

\* The trail of a page is the beginning of what the mailbox held, and all of it
\* when its length says so.
LEMMA PieceIsPrefix ==
  ASSUME NEW held \in Seq(Ids), NEW trail \in Seq(Ids), Len(trail) <= Len(held),
         \A i \in 1 .. Len(trail) : trail[i] = held[i]
  PROVE  /\ IsPrefix(trail, held)
         /\ Len(trail) = Len(held) => trail = held
<1> DEFINE n == Len(trail)
           a == SubSeq(trail, 1, n)
           b == SubSeq(held, 1, n)
<1>1. n \in Nat /\ (\A i \in 1 .. n : trail[i] \in Ids /\ held[i] \in Ids)
  OBVIOUS
<1>2. /\ a \in Seq(Ids) /\ Len(a) = (IF 1 <= n THEN n - 1 + 1 ELSE 0)
      /\ \A i \in 1 .. n - 1 + 1 : a[i] = trail[1 + i - 1]
  BY <1>1, SubSeqProperties
<1>3. /\ b \in Seq(Ids) /\ Len(b) = (IF 1 <= n THEN n - 1 + 1 ELSE 0)
      /\ \A i \in 1 .. n - 1 + 1 : b[i] = held[1 + i - 1]
  BY <1>1, SubSeqProperties
<1>4. \A i \in 1 .. n : trail[i] = held[i]
  OBVIOUS
<1>5. Len(trail) = Len(held) => trail = held
  BY SeqEqual
<1>6. IsPrefix(trail, held) <=> Len(trail) <= Len(held) /\ a = b
  BY DEF IsPrefix
<1> HIDE DEF a, b, n
<1>7. Len(a) = n /\ Len(b) = n /\ \A i \in 1 .. n : a[i] = b[i]
  <2>1. Len(a) = n /\ Len(b) = n
    BY <1>1, <1>2, <1>3
  <2>2. ASSUME NEW i \in 1 .. n PROVE a[i] = b[i]
    <3>1. i \in 1 .. n - 1 + 1 /\ 1 + i - 1 = i
      BY <1>1
    <3> QED
      BY <1>2, <1>3, <1>4, <3>1
  <2> QED
    BY <2>1, <2>2
<1>8. a = b
  BY <1>2, <1>3, <1>7, SeqEqual
<1> QED
  BY <1>5, <1>6, <1>8

\* The end of the mailbox: the page is empty.
LEMMA EmptyPageOK ==
  ASSUME ReadInductive, NEW scope \in Scope, NEW state, NEW trail \in Seq(Ids), NEW position,
         Piece(past, scope.mailbox, state, trail, position),
         position = Len(past[scope.mailbox][state]),
         answer' = [NoAnswer EXCEPT !.result = "page", !.scope = scope,
                                    !.trail = trail, !.state = state, !.last = TRUE],
         call' = NoCall, UNCHANGED <<now, account, past, token>>
  PROVE  ReadInductive'
<1>1. /\ answer'.result = "page" /\ answer'.scope = scope /\ answer'.trail = trail
      /\ answer'.state = state /\ answer'.items = <<>>
  BY DEF NoAnswer
<1>2. past[scope.mailbox][state] \in Seq(Ids)
  BY DEF ReadInductive, ReadTypeOK, Piece, Scope
<1>3. IsPrefix(trail, past[scope.mailbox][state]) /\ trail = past[scope.mailbox][state]
  BY <1>2, PieceIsPrefix DEF Piece
<1>4. PagesAreOneResult'
  <2>1. DOMAIN answer'.items = {}
    BY <1>1
  <2>2. past'[answer'.scope.mailbox][answer'.state] = past[scope.mailbox][state]
    BY <1>1
  <2> QED
    BY <1>1, <1>3, <2>1, <2>2 DEF PagesAreOneResult
<1>5. MailIsTheirs'
  BY <1>1 DEF MailIsTheirs
<1>6. ReadTypeOK'
  BY NoCallOK DEF ReadInductive, ReadTypeOK
<1>7. CallOK(past', call') /\ (token' # None => TokenOK(past', token'))
  BY NoCallOK DEF ReadInductive, CallOK
<1> QED
  BY <1>4, <1>5, <1>6, <1>7 DEF ReadInductive, AnswerOK

LEMMA EmailQueryOK ==
  ASSUME ReadInductive, emailQuery PROVE ReadInductive'
<1> DEFINE mail  == Mail(account.mailbox)
           state == QueryState(account.mailbox)
           upto  == IF Len(mail) < call.position + call.limit + 1
                    THEN Len(mail) ELSE call.position + call.limit + 1
           found == SubSeq(mail, call.position + 1, upto)
           more  == Len(found) > call.limit
           ids   == IF more THEN SubSeq(found, 1, call.limit) ELSE found
           next  == [call EXCEPT !.pc = "get", !.ids = ids, !.more = more, !.state = state]
<1>1. CASE Refuse(tokenError("cursor"))
  BY <1>1, TokenErrors, RefuseOK
<1>2. CASE SameQuery(state)
  <2>1. /\ account = call.scope /\ call.scope \in Scope /\ account.mailbox \in Mailboxes
        /\ call.kind = "list" /\ ListOK(past, call) /\ call.pc = "query"
        /\ mail \in Seq(Ids) /\ mail = past[account.mailbox][state]
        /\ Piece(past, account.mailbox, state, call.trail, call.position)
    BY <1>2, QueryFacts DEF emailQuery
  <2>2. call \in ReadCalls /\ call.position \in Nat /\ call.limit \in Nat \ {0}
    BY <2>1 DEF ReadInductive, ReadTypeOK, ReadCalls, ListOK
  <2>3. call.position <= Len(mail)
    BY <2>1 DEF Piece
  <2>4. /\ ids \in Seq(Ids)
        /\ call.position + Len(ids) <= Len(mail)
        /\ \A i \in 1 .. Len(ids) : ids[i] = mail[call.position + i]
        /\ ~more => call.position + Len(ids) = Len(mail)
        /\ ids = <<>> => ~more
    BY <2>1, <2>2, <2>3, FoundIds
  <2>5. state \in Nat /\ more \in BOOLEAN
    BY <2>1 DEF Piece
  <2>6. \/ ids # <<>> /\ Proceed(next)
        \/ /\ ids = <<>>
           /\ Answer([NoAnswer EXCEPT !.result = "page", !.scope = call.scope,
                        !.trail = call.trail, !.state = state, !.last = TRUE])
           /\ UNCHANGED <<now, account, past, changes, token>>
        \/ Refuse(tokenError("cursor"))
    BY DEF emailQuery
  <2> HIDE DEF mail, state, ids, more
  <2>7. CASE Proceed(next)
    <3>1. next \in ReadCalls
      BY <2>2, <2>4, <2>5 DEF ReadCalls
    <3>2. /\ next.pc = "get" /\ next.kind = "list" /\ next.scope = call.scope /\ next.limit = call.limit
          /\ next.position = call.position /\ next.previous = call.previous /\ next.trail = call.trail
          /\ next.ids = ids /\ next.state = state /\ next.more = more
      BY <2>1, <2>2 DEF ReadCalls
    <3> HIDE DEF next
    <3>3. NextIds(past, next)
      BY <2>1, <2>4, <3>2 DEF NextIds
    <3>4. CallOK(past, next)
      BY <2>1, <3>2, <3>3 DEF CallOK, ListOK
    <3> QED
      BY <2>7, <3>1, <3>4, ProceedOK
  <2>8. CASE /\ ids = <<>>
             /\ Answer([NoAnswer EXCEPT !.result = "page", !.scope = call.scope,
                          !.trail = call.trail, !.state = state, !.last = TRUE])
             /\ UNCHANGED <<now, account, past, changes, token>>
    <3>1. call.trail \in Seq(Ids) /\ call.position = Len(past[call.scope.mailbox][state])
      BY <2>1, <2>2, <2>4, <2>8 DEF ReadCalls
    <3>2. Piece(past, call.scope.mailbox, state, call.trail, call.position)
      BY <2>1
    <3> QED
      BY <2>1, <2>8, <3>1, <3>2, EmptyPageOK DEF Answer
  <2> QED
    BY <1>1, <2>6, <2>7, <2>8
<1> QED
  BY <1>1, <1>2 DEF emailQuery

\* A page with mail.  What it shows follows what the pages before have shown.
LEMMA PageOK ==
  ASSUME ReadInductive, call.pc = "get", call.kind = "list", Authenticated, Page(call.ids)
  PROVE  ReadInductive'
<1> DEFINE mailbox == call.scope.mailbox
           held    == past[mailbox][call.state]
           ids     == call.ids
           trail   == call.trail \o ids
           items   == [i \in DOMAIN ids |-> <<mailbox, ids[i]>>]
           next    == ReadToken("cursor", call.scope, now + cursorLifetime, None, call.state,
                                call.position + Len(ids), trail)
<1>1. /\ call \in ReadCalls /\ call.scope \in Scope /\ NextIds(past, call)
      /\ now \in Nat /\ account = call.scope
  BY DEF ReadInductive, ReadTypeOK, CallOK, ListOK, Authenticated
<1>2. /\ mailbox \in Mailboxes /\ call.trail \in Seq(Ids) /\ ids \in Seq(Ids)
      /\ call.position \in Nat /\ call.state \in Nat /\ call.more \in BOOLEAN
  BY <1>1 DEF ReadCalls, Scope
<1>3. /\ call.state \in 1 .. Len(past[mailbox]) /\ held \in Seq(Ids)
      /\ Len(call.trail) = call.position
      /\ \A i \in 1 .. call.position : call.trail[i] = held[i]
      /\ call.position + Len(ids) <= Len(held)
      /\ \A i \in 1 .. Len(ids) : ids[i] = held[call.position + i]
      /\ ~call.more => call.position + Len(ids) = Len(held)
  BY <1>1, <1>2 DEF NextIds, Piece, ReadInductive, ReadTypeOK
<1>4. /\ trail \in Seq(Ids) /\ Len(trail) = call.position + Len(ids)
      /\ \A i \in 1 .. Len(trail) : trail[i] = held[i]
      /\ \A i \in 1 .. Len(ids) : trail[call.position + i] = ids[i]
  <2>1. /\ trail \in Seq(Ids) /\ Len(trail) = Len(call.trail) + Len(ids)
        /\ \A i \in 1 .. Len(call.trail) + Len(ids) :
             trail[i] = IF i <= Len(call.trail) THEN call.trail[i] ELSE ids[i - Len(call.trail)]
    BY <1>2, ConcatProperties
  <2> HIDE DEF trail, ids, held
  <2>2. Len(ids) \in Nat
    BY <1>2
  <2>3. ASSUME NEW i \in 1 .. Len(ids) PROVE trail[call.position + i] = ids[i]
    <3> DEFINE k == call.position + i
    <3>1. k \in 1 .. Len(call.trail) + Len(ids) /\ ~(k <= Len(call.trail)) /\ k - Len(call.trail) = i
      BY <1>2, <1>3, <2>2
    <3> HIDE DEF k
    <3>2. trail[k] = ids[k - Len(call.trail)]
      BY <2>1, <3>1
    <3> QED
      BY <3>1, <3>2 DEF k
  <2>4. ASSUME NEW i \in 1 .. Len(trail) PROVE trail[i] = held[i]
    <3>1. CASE i <= call.position
      BY <1>2, <1>3, <2>1, <2>2, <3>1
    <3>2. CASE ~(i <= call.position)
      <4>1. i - call.position \in 1 .. Len(ids) /\ call.position + (i - call.position) = i
        BY <1>2, <1>3, <2>1, <2>2, <3>2
      <4> QED
        BY <1>3, <2>3, <4>1
    <3> QED
      BY <3>1, <3>2
  <2> QED
    BY <1>3, <2>1, <2>3, <2>4
<1>5. /\ answer' = [NoAnswer EXCEPT !.result = "page", !.scope = call.scope, !.items = items,
                      !.trail = trail, !.state = call.state, !.last = ~call.more]
      /\ call' = NoCall /\ UNCHANGED <<now, account, past>>
      /\ \/ token' = token
         \/ token' = next
         \/ \E m \in ToSet(ids) :
              token' = ReadToken("message", call.scope, now + referenceLifetime, m, 0, 0, <<>>)
  BY <1>1 DEF Page, Answer
<1>6. /\ answer'.result = "page" /\ answer'.scope = call.scope /\ answer'.items = items
      /\ answer'.trail = trail /\ answer'.state = call.state /\ answer'.last = ~call.more
  BY <1>5 DEF NoAnswer
<1>7. DOMAIN items = 1 .. Len(ids) /\ Len(items) = Len(ids)
      /\ \A i \in 1 .. Len(ids) : items[i] = <<mailbox, ids[i]>>
  BY <1>2
<1>8. PagesAreOneResult'
  <2>1. past'[answer'.scope.mailbox][answer'.state] = held
    BY <1>5, <1>6
  <2>2. IsPrefix(trail, held) /\ (Len(trail) = Len(held) => trail = held)
    BY <1>3, <1>4, PieceIsPrefix
  <2>3. answer'.last => trail = held
    BY <1>3, <1>4, <1>6, <2>2
  <2>4. ASSUME NEW i \in DOMAIN answer'.items
        PROVE  answer'.items[i][2] = trail[Len(trail) - Len(answer'.items) + i]
    <3>1. i \in 1 .. Len(ids)
      BY <1>6, <1>7
    <3>2. Len(trail) - Len(answer'.items) + i = call.position + i
      <4> HIDE DEF trail, items
      <4> QED
        BY <1>2, <1>4, <1>6, <1>7, <3>1
    <3>3. answer'.items[i][2] = ids[i]
      BY <1>6, <1>7, <3>1
    <3>4. trail[call.position + i] = ids[i]
      BY <1>4, <3>1
    <3> HIDE DEF trail, ids
    <3> QED
      BY <3>2, <3>3, <3>4
  <2> HIDE DEF trail, held, items
  <2> QED
    BY <1>6, <2>1, <2>2, <2>3, <2>4 DEF PagesAreOneResult
<1>9. MailIsTheirs'
  <2> HIDE DEF items
  <2> QED
    BY <1>6, <1>7 DEF MailIsTheirs
<1>10. token' # None => token' \in ReadTokens /\ TokenOK(past', token')
  <2>1. CASE token' = token
    BY <1>5, <2>1 DEF ReadInductive, ReadTypeOK
  <2>2. CASE token' = next
    <3>0. now + cursorLifetime \in Int /\ call.position + Len(ids) \in Nat
      <4>1. cursorLifetime \in Nat
        BY ReaderAssumption
      <4>2. Len(ids) \in Nat
        BY <1>2
      <4> QED
        BY <1>1, <1>2, <4>1, <4>2
    <3>1. next \in ReadTokens
      <4> HIDE DEF trail, ids
      <4> QED
        BY <1>1, <1>2, <1>4, <3>0 DEF ReadToken, ReadTokens
    <3>2. /\ next.scope = call.scope /\ next.state = call.state
          /\ next.trail = trail /\ next.position = call.position + Len(ids)
      BY DEF ReadToken
    <3> HIDE DEF next, trail
    <3>3. TokenOK(past, next)
      BY <1>3, <1>4, <3>2 DEF TokenOK, Piece
    <3> QED
      BY <1>5, <2>2, <3>1, <3>3
  <2>3. ASSUME NEW m \in ToSet(ids),
               token' = ReadToken("message", call.scope, now + referenceLifetime, m, 0, 0, <<>>)
        PROVE  token' \in ReadTokens /\ TokenOK(past', token')
    <3>1. m \in Ids
      BY <1>2 DEF ToSet
    <3> QED
      BY <1>1, <2>3, <3>1, ReaderAssumption DEF ReadToken, ReadTokens, TokenOK
  <2> QED
    BY <1>5, <2>1, <2>2, <2>3
<1>11. ReadTypeOK' /\ CallOK(past', call')
  BY <1>5, <1>10, NoCallOK DEF ReadInductive, ReadTypeOK, CallOK
<1> QED
  BY <1>8, <1>9, <1>10, <1>11 DEF ReadInductive, AnswerOK

LEMMA GetPageOK == ASSUME ReadInductive, getPage PROVE ReadInductive'
  BY PageOK, TokenErrors, RefuseOK DEF getPage

LEMMA GetDetailOK ==
  ASSUME ReadInductive, getDetail PROVE ReadInductive'
<1> DEFINE item == <<account.mailbox, call.message>>
           next == ReadToken("attachment", call.scope, now + referenceLifetime, call.message, 0, 0, <<>>)
<1>1. /\ call \in ReadCalls /\ call.scope \in Scope /\ call.named = call.scope
      /\ now \in Nat /\ account = call.scope
  BY DEF ReadInductive, ReadTypeOK, CallOK, getDetail, Authenticated
<1>2. CASE Refuse("MESSAGE_NOT_FOUND")
  BY <1>2, RefuseOK
<1>3. CASE ~Refuse("MESSAGE_NOT_FOUND")
  <2>1. /\ answer' = [NoAnswer EXCEPT !.result = "message", !.scope = call.scope, !.named = call.named,
                        !.items = <<item>>]
        /\ call' = NoCall /\ UNCHANGED <<now, account, past>> /\ token' \in {token, next}
    BY <1>3 DEF getDetail, Answer
  <2>2. /\ answer'.result = "message" /\ answer'.scope = call.scope /\ answer'.named = call.scope
        /\ answer'.items = <<item>>
    BY <1>1, <2>1 DEF NoAnswer
  <2>3. PagesAreOneResult'
    BY <2>2 DEF PagesAreOneResult
  <2>4. MailIsTheirs'
    <3>1. \A i \in DOMAIN answer'.items : answer'.items[i][1] = answer'.scope.mailbox
      BY <1>1, <2>2
    <3> QED
      BY <2>2, <3>1 DEF MailIsTheirs
  <2>5. token' # None => token' \in ReadTokens /\ TokenOK(past', token')
    <3>1. CASE token' = token
      BY <2>1, <3>1 DEF ReadInductive, ReadTypeOK
    <3>2. CASE token' = next
      BY <1>1, <3>2, ReaderAssumption DEF ReadToken, ReadTokens, ReadCalls, TokenOK
    <3> QED
      BY <2>1, <3>1, <3>2
  <2>6. ReadTypeOK' /\ CallOK(past', call')
    BY <2>1, <2>5, NoCallOK DEF ReadInductive, ReadTypeOK, CallOK
  <2> QED
    BY <2>3, <2>4, <2>5, <2>6 DEF ReadInductive, AnswerOK
<1> QED
  BY <1>2, <1>3

-----------------------------------------------------------------------------
(* The world around.                                                       *)

\* The world changes, the read stays where it is.
LEMMA WorldOK ==
  ASSUME ReadInductive, UNCHANGED <<token, call>>, AnswerOK',
         now' \in Nat, account' \in Scope \cup {None}, past' \in [Mailboxes -> Seq(Seq(Ids))],
         Extends(past', past)
  PROVE  ReadInductive'
<1>1. ASSUME NEW m \in Mailboxes PROVE Len(past'[m]) > 0
  <2>1. past[m] \in Seq(Seq(Ids)) /\ past'[m] \in Seq(Seq(Ids)) /\ Len(past[m]) > 0
    BY DEF ReadInductive, ReadTypeOK
  <2>2. 1 \in 1 .. Len(past'[m])
    BY <2>1 DEF Extends
  <2> QED
    BY <2>1, <2>2
<1>2. ReadTypeOK'
  BY <1>1 DEF ReadInductive, ReadTypeOK
<1>3. CallOK(past', call')
  BY CallKept DEF ReadInductive
<1>4. token' # None => TokenOK(past', token')
  BY TokenKept DEF ReadInductive, ReadTypeOK
<1> QED
  BY <1>2, <1>3, <1>4 DEF ReadInductive

LEMMA SameHistory == past' = past => Extends(past', past)
  BY DEF Extends

\* A mailbox with a message more or less is a sequence of messages.
LEMMA EditTyped ==
  ASSUME NEW mail \in Seq(Ids)
  PROVE  /\ \A i \in 1 .. Len(mail) + 1, m \in Ids : InsertAt(mail, i, m) \in Seq(Ids)
         /\ \A i \in DOMAIN mail : RemoveAt(mail, i) \in Seq(Ids)
<1>1. ASSUME NEW i \in 1 .. Len(mail) + 1, NEW j \in 1 .. Len(mail) + 1
      PROVE  SubSeq(mail, 1, i - 1) \in Seq(Ids) /\ SubSeq(mail, j, Len(mail)) \in Seq(Ids)
  <2>1. /\ i - 1 \in Int /\ j \in Int /\ Len(mail) \in Int
        /\ \A k \in 1 .. i - 1 : mail[k] \in Ids
        /\ \A k \in j .. Len(mail) : mail[k] \in Ids
    OBVIOUS
  <2> QED
    BY <2>1, SubSeqProperties
<1>2. ASSUME NEW i \in 1 .. Len(mail) + 1, NEW m \in Ids PROVE InsertAt(mail, i, m) \in Seq(Ids)
  <2>1. <<m>> \in Seq(Ids)
    OBVIOUS
  <2> QED
    BY <1>1, <2>1, ConcatProperties DEF InsertAt
<1>3. ASSUME NEW i \in DOMAIN mail PROVE RemoveAt(mail, i) \in Seq(Ids)
  <2>1. i \in 1 .. Len(mail) + 1 /\ i + 1 \in 1 .. Len(mail) + 1
    OBVIOUS
  <2> QED
    BY <1>1, <2>1, ConcatProperties DEF RemoveAt
<1> QED
  BY <1>2, <1>3

LEMMA ChangeMailOK ==
  ASSUME ReadInductive, ChangeMail PROVE ReadInductive'
<1> DEFINE mailbox == account.mailbox
           mail    == Mail(mailbox)
<1>1. /\ mailbox \in Mailboxes /\ past \in [Mailboxes -> Seq(Seq(Ids))]
      /\ past[mailbox] \in Seq(Seq(Ids)) /\ Len(past[mailbox]) > 0
      /\ now \in Nat /\ account \in Scope
  BY DEF ReadInductive, ReadTypeOK, ChangeMail, Scope
<1>2. mail \in Seq(Ids)
  BY <1>1 DEF Mail, Last
<1>3. PICK next \in Seq(Ids) : past' = [past EXCEPT ![mailbox] = Append(past[mailbox], next)]
  BY <1>2, EditTyped DEF ChangeMail
<1>5. /\ Append(past[mailbox], next) \in Seq(Seq(Ids))
      /\ Len(Append(past[mailbox], next)) = Len(past[mailbox]) + 1
      /\ \A k \in 1 .. Len(past[mailbox]) : Append(past[mailbox], next)[k] = past[mailbox][k]
  BY <1>1, <1>3, AppendProperties
<1>6. past' \in [Mailboxes -> Seq(Seq(Ids))]
  BY <1>1, <1>3, <1>5
<1>7. ASSUME NEW m \in Mailboxes, NEW k \in 1 .. Len(past[m])
      PROVE  k \in 1 .. Len(past'[m]) /\ past'[m][k] = past[m][k]
  <2>1. CASE m = mailbox
    <3>1. past'[m] = Append(past[mailbox], next) /\ Len(past[mailbox]) \in Nat
      BY <1>1, <1>3, <2>1
    <3> QED
      BY <1>5, <2>1, <3>1
  <2>2. CASE m # mailbox
    BY <1>1, <1>3, <2>2
  <2> QED
    BY <2>1, <2>2
<1>8. Extends(past', past)
  BY <1>7 DEF Extends
<1>9. UNCHANGED <<now, account, token, call>> /\ AnswerOK'
  BY QuietAnswerOK DEF ChangeMail
<1> QED
  BY <1>1, <1>6, <1>8, <1>9, WorldOK

LEMMA ChangeAccountOK ==
  ASSUME ReadInductive, NEW scope \in Scope \cup {None}, ChangeAccount(scope) PROVE ReadInductive'
<1>1. UNCHANGED <<now, past, token, call>> /\ account' = scope /\ AnswerOK'
  BY QuietAnswerOK DEF ChangeAccount
<1> QED
  BY <1>1, SameHistory, WorldOK DEF ReadInductive, ReadTypeOK

LEMMA TickOK == ASSUME ReadInductive, Tick PROVE ReadInductive'
<1>1. UNCHANGED <<account, past, token, call>> /\ now' = now + 1 /\ AnswerOK'
  BY QuietAnswerOK DEF Tick
<1>2. now' \in Nat
  BY <1>1 DEF ReadInductive, ReadTypeOK
<1> QED
  BY <1>1, <1>2, SameHistory, WorldOK DEF ReadInductive, ReadTypeOK

LEMMA StutterOK == ASSUME ReadInductive, UNCHANGED readVars PROVE ReadInductive'
<1>1. UNCHANGED <<now, account, past, token, call, answer>>
  BY DEF readVars
<1>2. AnswerOK'
  BY <1>1 DEF ReadInductive, AnswerOK, PagesAreOneResult, MailIsTheirs
<1> QED
  BY <1>1, <1>2, SameHistory, WorldOK DEF ReadInductive, ReadTypeOK

-----------------------------------------------------------------------------
(* The theorems.                                                           *)

LEMMA ReadInitOK == ReadInit => ReadInductive
<1> SUFFICES ASSUME ReadInit PROVE ReadInductive
  OBVIOUS
<1>1. ASSUME NEW m \in Mailboxes PROVE past[m] \in Seq(Seq(Ids)) /\ Len(past[m]) > 0
  <2>1. PICK s \in SeqOf(Ids, maximumPagePosition + 1) : past[m] = <<s>>
    BY DEF ReadInit
  <2>2. PICK n \in 0 .. maximumPagePosition + 1 : s \in [1 .. n -> Ids]
    BY DEF SeqOf
  <2>3. n \in Nat
    BY ReaderAssumption
  <2>4. s \in Seq(Ids)
    BY <2>2, <2>3
  <2> QED
    BY <2>1, <2>4
<1>2. past \in [Mailboxes -> Seq(Seq(Ids))]
  <2>1. past = [m \in Mailboxes |-> past[m]]
    BY DEF ReadInit
  <2> QED
    BY <1>1, <2>1
<1>3. account \in Scope /\ now \in Nat /\ token = None /\ call = NoCall
  BY ReaderAssumption DEF ReadInit, Scope
<1>4. ReadTypeOK
  BY <1>1, <1>2, <1>3, NoCallOK DEF ReadTypeOK
<1>5. AnswerOK
  <2>1. answer.result = "none" /\ answer.items = <<>>
    BY DEF ReadInit, NoAnswer
  <2> QED
    BY <2>1 DEF AnswerOK, PagesAreOneResult, MailIsTheirs
<1> QED
  BY <1>3, <1>4, <1>5, NoCallOK DEF ReadInductive, CallOK

LEMMA ReadStepOK == ReadInductive /\ [ReadNext]_readVars => ReadInductive'
<1> SUFFICES ASSUME ReadInductive, [ReadNext]_readVars PROVE ReadInductive'
  OBVIOUS
<1>1. ASSUME NEW scope \in Scope, NEW limit \in 1 .. maximumPageSize, NEW t \in {None, token},
             ListMessages(scope, limit, t)
      PROVE  ReadInductive'
  BY <1>1, ListMessagesOK
<1>2. ASSUME NEW scope \in Scope \cup {None}, ChangeAccount(scope) PROVE ReadInductive'
  BY <1>2, ChangeAccountOK
<1>3. ASSUME NEW scope \in Scope, token # None, GetMessage(scope, token) PROVE ReadInductive'
  BY <1>3, GetMessageOK
<1> QED
  BY <1>1, <1>2, <1>3, CheckMappingOK, OpenSessionOK, EmailQueryOK, GetPageOK, GetDetailOK,
     RequestFailsOK, ChangeMailOK, TickOK, StutterOK
  DEF ReadNext

\* The inductive invariant: a cursor, and a read, know a beginning of what the
\* mailbox held at a query state that is not forgotten.
THEOREM ReadInductiveHolds == ReadSpec => []ReadInductive
<1> QED
  BY ReadInitOK, ReadStepOK, PTL DEF ReadSpec

\* Pages that ListMessages chains by cursors are one result, for any mailbox,
\* page size and number of changes between the pages and within them.
THEOREM PagesChain == ReadSpec => []PagesAreOneResult
<1>1. ReadInductive => PagesAreOneResult
  BY DEF ReadInductive, AnswerOK
<1> QED
  BY <1>1, ReadInductiveHolds, PTL

\* ListMessages and GetMessage show mail of the mailbox in the request's scope
\* only, whoever gets the address meanwhile.
THEOREM MailTheirs == ReadSpec => []MailIsTheirs
<1>1. ReadInductive => MailIsTheirs
  BY DEF ReadInductive, AnswerOK
<1> QED
  BY <1>1, ReadInductiveHolds, PTL

\* What the loop of GetMessage guarantees for every body, any number of parts of any
\* size: at most one byte more than maximumTextBytes, a mark whenever something is
\* left out, and no mark unless the body reaches the limit or the server has cut it.
THEOREM TextIsWithinOneByte == \A parts \in Seq(Part) : TextWithinOneByte(parts)
<1> QED
  BY TextBounded

\* What it does not guarantee, whatever the limit: there is a body of exactly
\* maximumTextBytes that is marked as truncated, and one whose text has
\* maximumTextBytes + 1 bytes, so neither half of TextAsDocumented holds.
THEOREM TextNotAsDocumented ==
  ASSUME maximumTextBytes > 1
  PROVE  /\ \E parts \in Seq(Part) :
              /\ \A i \in DOMAIN parts : ~parts[i].cut
              /\ Whole(parts) = maximumTextBytes /\ textOf(parts).truncated
              /\ ~TextAsDocumented(parts)
         /\ \E parts \in Seq(Part) :
              /\ \A i \in DOMAIN parts : ~parts[i].cut
              /\ textOf(parts).size = maximumTextBytes + 1
              /\ ~TextAsDocumented(parts)
<1> DEFINE Body(size) == <<[size |-> size, cut |-> FALSE], [size |-> 0, cut |-> FALSE]>>
<1>1. maximumTextBytes \in Nat
  BY ReaderAssumption
<1>2. LET parts == Body(maximumTextBytes - 1)
      IN /\ parts \in Seq(Part) /\ \A i \in DOMAIN parts : ~parts[i].cut
         /\ Whole(parts) = maximumTextBytes /\ textOf(parts).truncated
  <2>1. maximumTextBytes - 1 \in Nat \ {0} /\ (maximumTextBytes - 1) + 1 = maximumTextBytes
    BY <1>1
  <2> QED
    BY <1>1, <2>1, TwoParts
<1>3. LET parts == Body(maximumTextBytes)
      IN /\ parts \in Seq(Part) /\ \A i \in DOMAIN parts : ~parts[i].cut
         /\ textOf(parts).size = maximumTextBytes + 1
  BY <1>1, TwoParts
<1> HIDE DEF Body
<1>4. ~TextAsDocumented(Body(maximumTextBytes - 1))
  BY <1>1, <1>2 DEF TextAsDocumented
<1>5. ~TextAsDocumented(Body(maximumTextBytes))
  BY <1>1, <1>3 DEF TextAsDocumented
<1> QED
  BY <1>2, <1>3, <1>4, <1>5
=============================================================================
