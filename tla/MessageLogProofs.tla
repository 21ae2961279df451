-------------------------- MODULE MessageLogProofs ---------------------------
(***************************************************************************)
(* The message file of the bulletin board, for every content: the scan for *)
(* headers is a function of the lines behind it; a message written behind  *)
(* whole messages is found with its number and its text, and the ones      *)
(* before it as they were.                                                 *)
(***************************************************************************)
EXTENDS MessageLog, OrderedProofs, SequenceTheorems, TLAPS

LEMMA LeastOf ==
    ASSUME NEW S \in SUBSET Nat, S # {}
    PROVE  Min(S) \in S /\ \A k \in S : Min(S) <= k
BY LeastExists DEF Min

LEMMA LineAt ==
    ASSUME NEW f \in Seq(Line), NEW k \in 1..Len(f)
    PROVE  f[k] \in Line /\ f[k].n \in Int
<1>1. f[k] \in Line
  BY ElementOfSeq
<1> QED
  BY <1>1 DEF Line

\* The next try is behind the line that has the next '>', or behind the file.
LEMMA AfterBracketIs ==
    ASSUME NEW f \in Seq(Line), NEW k \in 1..Len(f)
    PROVE  /\ AfterBracket(f, k) \in (k + 1)..(Len(f) + 1)
           /\ \A j \in k..Len(f) :
                 f[j].tag # "text" => AfterBracket(f, k) <= j + 1
           /\ \/ AfterBracket(f, k) = Len(f) + 1
              \/ f[AfterBracket(f, k) - 1].tag # "text"
<1> DEFINE Ends == {j \in k..Len(f) : f[j].tag # "text"} \cup {Len(f)}
<1>1. Len(f) \in Nat
  BY LenProperties
<1>2. Ends \in SUBSET Nat /\ Ends # {}
  BY <1>1
<1> DEFINE m == Min(Ends)
<1>3. m \in Ends /\ \A j \in Ends : m <= j
  <2> HIDE DEF Ends
  <2> QED
    BY <1>2, LeastOf
<1>4. AfterBracket(f, k) = 1 + m
  BY DEF AfterBracket
<1> HIDE DEF m
<1> QED
  BY <1>1, <1>3, <1>4

LEMMA AfterLastLine ==
    ASSUME NEW f \in Seq(Line)
    PROVE  AfterBracket(f, Len(f) + 1) = Len(f) + 1
<1>1. Len(f) \in Nat
  BY LenProperties
<1>2. {j \in (Len(f) + 1)..Len(f) : f[j].tag # "text"} \cup {Len(f)} = {Len(f)}
  BY <1>1
<1>3. Min({Len(f)}) = Len(f)
  <2>1. {Len(f)} \in SUBSET Nat /\ {Len(f)} # {}
    BY <1>1
  <2>2. Min({Len(f)}) \in {Len(f)}
    BY <2>1, LeastOf
  <2> QED
    BY <2>2
<1>4. AfterBracket(f, Len(f) + 1) = 1 + Min({Len(f)})
  BY <1>2, Zenon DEF AfterBracket
<1> QED
  BY <1>1, <1>3, <1>4

\* The headers that are there to be found.
Openings(f)  == {k \in 1..Len(f) : f[k].tag = "open"}
HeaderAt(f, k) == [id |-> f[k].n, body |-> k + 1]
Headings(f)  == {HeaderAt(f, k) : k \in Openings(f)}

\* from[k]: the headers a scan that starts at line k finds.
ScanFrom(f, from, k) ==
    IF k > Len(f) THEN << >>
    ELSE IF f[k].tag = "open"
         THEN <<HeaderAt(f, k)>> \o from[AfterBracket(f, k + 1)]
         ELSE from[AfterBracket(f, k)]

Scan(f, from) ==
    /\ from \in [1..(Len(f) + 2) -> Seq(Headings(f))]
    /\ \A k \in 1..(Len(f) + 2) : from[k] = ScanFrom(f, from, k)

\* A scan from k needs the scans from later lines only.
LEMMA ScanGoesOn ==
    ASSUME NEW f \in Seq(Line), NEW k \in 1..Len(f)
    PROVE  /\ f[k].tag # "open" => AfterBracket(f, k) \in (k + 1)..(Len(f) + 2)
           /\ AfterBracket(f, k + 1) \in (k + 1)..(Len(f) + 2)
<1>1. Len(f) \in Nat
  BY LenProperties
<1>2. AfterBracket(f, k) \in (k + 1)..(Len(f) + 1)
  BY AfterBracketIs
<1>3. AfterBracket(f, k + 1) \in (k + 1)..(Len(f) + 1)
  <2>1. CASE k = Len(f)
    <3>1. AfterBracket(f, k + 1) = Len(f) + 1
      BY <2>1, AfterLastLine
    <3> QED
      BY <3>1, <1>1, <2>1
  <2>2. CASE k # Len(f)
    <3>1. k + 1 \in 1..Len(f)
      BY <1>1, <2>2
    <3>2. AfterBracket(f, k + 1) \in (k + 1 + 1)..(Len(f) + 1)
      BY <3>1, AfterBracketIs
    <3> QED
      BY <3>2, <1>1
  <2> QED
    BY <2>1, <2>2
<1> QED
  BY <1>1, <1>2, <1>3

LEMMA ScanFromIs ==
    ASSUME NEW f \in Seq(Line), NEW from, NEW k \in 1..(Len(f) + 2),
           \A j \in (k + 1)..(Len(f) + 2) : from[j] \in Seq(Headings(f))
    PROVE  ScanFrom(f, from, k) \in Seq(Headings(f))
<1>1. Len(f) \in Nat
  BY LenProperties
<1>2. CASE k > Len(f)
  BY <1>2, EmptySeq DEF ScanFrom
<1>3. CASE ~(k > Len(f))
  <2>1. k \in 1..Len(f)
    BY <1>1, <1>3
  <2>2. f[k].tag = "open" => HeaderAt(f, k) \in Headings(f)
    BY <2>1 DEF Openings, Headings
  <2>3. CASE f[k].tag = "open"
    <3>1. from[AfterBracket(f, k + 1)] \in Seq(Headings(f))
      BY <2>1, ScanGoesOn
    <3>2. <<HeaderAt(f, k)>> \in Seq(Headings(f))
      BY <2>2, <2>3
    <3>3. <<HeaderAt(f, k)>> \o from[AfterBracket(f, k + 1)] \in Seq(Headings(f))
      BY <3>1, <3>2, ConcatProperties
    <3> QED
      BY <1>3, <2>3, <3>3 DEF ScanFrom
  <2>4. CASE f[k].tag # "open"
    <3>1. from[AfterBracket(f, k)] \in Seq(Headings(f))
      BY <2>1, <2>4, ScanGoesOn
    <3> QED
      BY <1>3, <2>4, <3>1 DEF ScanFrom
  <2> QED
    BY <2>3, <2>4
<1> QED
  BY <1>2, <1>3

\* Two tables that agree on the later lines give the same scan.
LEMMA ScanFromAgrees ==
    ASSUME NEW f \in Seq(Line), NEW from, NEW other, NEW k \in 1..(Len(f) + 2),
           \A j \in (k + 1)..(Len(f) + 2) : from[j] = other[j]
    PROVE  ScanFrom(f, from, k) = ScanFrom(f, other, k)
<1>1. Len(f) \in Nat
  BY LenProperties
<1>2. CASE k > Len(f)
  BY <1>2 DEF ScanFrom
<1>3. CASE ~(k > Len(f))
  <2>1. k \in 1..Len(f)
    BY <1>1, <1>3
  <2>2. from[AfterBracket(f, k + 1)] = other[AfterBracket(f, k + 1)]
    BY <2>1, ScanGoesOn
  <2>3. f[k].tag # "open" => from[AfterBracket(f, k)] = other[AfterBracket(f, k)]
    BY <2>1, ScanGoesOn
  <2> QED
    BY <2>2, <2>3 DEF ScanFrom
<1> QED
  BY <1>2, <1>3

LEMMA HeadersIs ==
    ASSUME NEW f \in Seq(Line)
    PROVE  \E from : Scan(f, from) /\ Headers(f) = from[1]
<1> DEFINE Last == Len(f) + 2
           H == Seq(Headings(f))
           Steps(from) == from = [k \in 1..Last |-> ScanFrom(f, from, k)]
           Part(n) == (Last - n)..Last
           Fits(from, n) == from \in [Part(n) -> H]
                            /\ \A k \in Part(n) : from[k] = ScanFrom(f, from, k)
           Good == {n \in 0..(Last - 1) : \E from : Fits(from, n)}
<1>1. Len(f) \in Nat /\ Last \in Nat /\ Last - 1 \in Nat /\ 1 \in 1..Last
  BY LenProperties
<1>2. 0 \in Good
  <2> DEFINE g == [k \in Part(0) |-> << >>]
  <2>1. Part(0) = {Last} /\ << >> \in H
    BY <1>1, EmptySeq
  <2>2. g \in [Part(0) -> H]
    BY <2>1
  <2>3. ScanFrom(f, g, Last) = << >>
    BY <1>1 DEF ScanFrom
  <2>4. Fits(g, 0)
    BY <2>1, <2>2, <2>3
  <2>5. 0 \in 0..(Last - 1)
    BY <1>1
  <2> HIDE DEF g, Fits, Last
  <2> QED
    BY <2>4, <2>5
<1>3. ASSUME NEW n \in 1..(Last - 1), n - 1 \in Good PROVE n \in Good
  <2>1. PICK h : Fits(h, n - 1)
    BY <1>3
  <2> DEFINE m == Last - n
             g == [k \in Part(n) |-> IF k = m THEN ScanFrom(f, h, m) ELSE h[k]]
  <2>2. /\ m \in 1..Last /\ Part(n) = {m} \cup Part(n - 1) /\ Part(n) \in SUBSET (1..Last)
        /\ (m + 1)..Last = Part(n - 1)
        /\ \A k \in Part(n - 1) : k # m /\ (k + 1)..Last \in SUBSET Part(n - 1)
    BY <1>1
  <2>3. \A k \in Part(n - 1) : h[k] \in H /\ h[k] = ScanFrom(f, h, k)
    BY <2>1
  <2> HIDE DEF Part, H, m, Last
  <2>4. ScanFrom(f, h, m) \in H
    BY <2>2, <2>3, ScanFromIs DEF H, Last
  <2>5. g[m] = ScanFrom(f, h, m) /\ \A k \in Part(n - 1) : g[k] = h[k]
    BY <2>2
  <2>6. g \in [Part(n) -> H]
    BY <2>2, <2>3, <2>4
  <2> HIDE DEF g
  <2>7. ScanFrom(f, g, m) = ScanFrom(f, h, m)
    BY <2>2, <2>5, ScanFromAgrees DEF Last
  <2>8. ASSUME NEW k \in Part(n - 1) PROVE ScanFrom(f, g, k) = ScanFrom(f, h, k)
    <3>1. k \in 1..Last /\ \A j \in (k + 1)..Last : g[j] = h[j]
      BY <2>2, <2>5
    <3> QED
      BY <3>1, ScanFromAgrees DEF Last
  <2>9. Fits(g, n)
    BY <2>2, <2>3, <2>5, <2>6, <2>7, <2>8
  <2> QED
    BY <1>1, <2>9
<1>4. Good = 0..(Last - 1)
  <2>1. Good \in SUBSET (0..(Last - 1))
    OBVIOUS
  <2> HIDE DEF Good, Last
  <2> QED
    BY <1>1, <1>2, <1>3, <2>1, StepsKeep
<1>5. \E from : Steps(from)
  <2>1. Last - 1 \in Good /\ Part(Last - 1) = 1..Last
    <3> HIDE DEF Good, Last
    <3> QED
      BY <1>1, <1>4 DEF Part
  <2>2. PICK g : Fits(g, Last - 1)
    BY <2>1
  <2>3. DOMAIN g = 1..Last /\ g = [k \in DOMAIN g |-> g[k]]
    BY <2>1, <2>2
  <2>4. \A k \in 1..Last : g[k] = ScanFrom(f, g, k)
    BY <2>1, <2>2
  <2>5. g = [k \in 1..Last |-> ScanFrom(f, g, k)]
    BY <2>3, <2>4
  <2> QED
    BY <2>5
<1> DEFINE from == CHOOSE from : Steps(from)
<1>6. Steps(from)
  BY <1>5
<1>7. Headers(f) = from[1]
  BY DEF Headers, ScanFrom, HeaderAt
<1> HIDE DEF from
<1>8. DOMAIN from = 1..Last /\ \A k \in 1..Last : from[k] = ScanFrom(f, from, k)
  <2>1. from = [k \in 1..Last |-> ScanFrom(f, from, k)]
    BY <1>6
  <2> HIDE DEF Steps, Last
  <2> QED
    BY <2>1
<1> DEFINE Typed == {n \in 0..(Last - 1) : \A k \in Part(n) : from[k] \in H}
<1>9. 0 \in Typed
  <2>1. Part(0) = {Last} /\ Last \in 1..Last
    BY <1>1
  <2>2. Last > Len(f) /\ 0 \in 0..(Last - 1)
    BY <1>1
  <2> HIDE DEF Last, Part
  <2>3. from[Last] = << >>
    BY <1>8, <2>1, <2>2 DEF ScanFrom
  <2>4. << >> \in H
    BY EmptySeq
  <2> HIDE DEF H
  <2> QED
    BY <2>1, <2>2, <2>3, <2>4
<1>10. ASSUME NEW n \in 1..(Last - 1), n - 1 \in Typed PROVE n \in Typed
  <2> DEFINE m == Last - n
  <2>1. /\ m \in 1..Last /\ Part(n) = {m} \cup Part(n - 1)
        /\ (m + 1)..Last = Part(n - 1)
    BY <1>1
  <2>2. \A k \in Part(n - 1) : from[k] \in H
    BY <1>10
  <2> HIDE DEF Part, m, Last, H
  <2>3. ScanFrom(f, from, m) \in H
    BY <2>1, <2>2, ScanFromIs DEF Last, H
  <2>4. from[m] \in H
    BY <1>8, <2>1, <2>3
  <2> QED
    BY <1>1, <2>1, <2>2, <2>4
<1>11. Typed = 0..(Last - 1)
  <2>1. Typed \in SUBSET (0..(Last - 1))
    OBVIOUS
  <2> HIDE DEF Typed, Last
  <2> QED
    BY <1>1, <1>9, <1>10, <2>1, StepsKeep
<1>12. \A k \in 1..Last : from[k] \in H
  <2>1. Last - 1 \in Typed /\ Part(Last - 1) = 1..Last
    BY <1>1, <1>11
  <2> QED
    BY <2>1
<1>13. from \in [1..Last -> H]
  <2>1. from = [k \in 1..Last |-> ScanFrom(f, from, k)]
    BY <1>6
  <2>2. from = [k \in 1..Last |-> from[k]]
    BY <2>1, <1>8
  <2> HIDE DEF Steps, Last, H
  <2> QED
    BY <1>12, <2>2
<1> QED
  BY <1>7, <1>8, <1>13 DEF Scan


LEMMA AppendedIs ==
    ASSUME NEW f \in Seq(Line), NEW id \in Int, NEW body \in Seq(Line)
    PROVE  LET g == Appended(f, id, body)
               L == Len(f)
           IN  /\ g \in Seq(Line) /\ Len(g) = L + Len(body) + 2
               /\ \A k \in 1..L : g[k] = f[k]
               /\ g[L + 1] = Open(id + 1) /\ g[Len(g)] = Close
               /\ \A k \in 1..Len(body) : g[L + 1 + k] = body[k]
<1> DEFINE a == f \o <<Open(id + 1)>>
           b == a \o body
           g == b \o <<Close>>
<1>1. Len(f) \in Nat /\ Len(body) \in Nat
  BY LenProperties
<1>2. <<Open(id + 1)>> \in Seq(Line) /\ <<Close>> \in Seq(Line)
  BY DEF Open, Close, Line
<1>3. Len(<<Open(id + 1)>>) = 1 /\ <<Open(id + 1)>>[1] = Open(id + 1)
      /\ Len(<<Close>>) = 1 /\ <<Close>>[1] = Close
  OBVIOUS
<1>4. /\ a \in Seq(Line) /\ Len(a) = Len(f) + 1
      /\ \A k \in 1..(Len(f) + 1) :
            a[k] = IF k <= Len(f) THEN f[k] ELSE <<Open(id + 1)>>[k - Len(f)]
  BY <1>2, <1>3, ConcatProperties
<1>5. (\A k \in 1..Len(f) : a[k] = f[k]) /\ a[Len(f) + 1] = Open(id + 1)
  BY <1>1, <1>3, <1>4
<1> HIDE DEF a
<1>6. /\ b \in Seq(Line) /\ Len(b) = Len(f) + 1 + Len(body)
      /\ \A k \in 1..(Len(f) + 1 + Len(body)) :
            b[k] = IF k <= Len(f) + 1 THEN a[k] ELSE body[k - (Len(f) + 1)]
  <2>1. /\ b \in Seq(Line) /\ Len(b) = Len(a) + Len(body)
        /\ \A k \in 1..(Len(a) + Len(body)) :
              b[k] = IF k <= Len(a) THEN a[k] ELSE body[k - Len(a)]
    BY <1>4, ConcatProperties
  <2> QED
    BY <1>4, <2>1
<1> HIDE DEF b
<1>7. /\ g \in Seq(Line) /\ Len(g) = Len(f) + 1 + Len(body) + 1
      /\ \A k \in 1..(Len(f) + 1 + Len(body) + 1) :
            g[k] = IF k <= Len(f) + 1 + Len(body) THEN b[k]
                   ELSE <<Close>>[k - (Len(f) + 1 + Len(body))]
  <2>1. /\ g \in Seq(Line) /\ Len(g) = Len(b) + Len(<<Close>>)
        /\ \A k \in 1..(Len(b) + Len(<<Close>>)) :
              g[k] = IF k <= Len(b) THEN b[k] ELSE <<Close>>[k - Len(b)]
    BY <1>2, <1>6, ConcatProperties
  <2> QED
    BY <1>3, <1>6, <2>1
<1>8. Appended(f, id, body) = g
  BY DEF Appended, a, b
<1> HIDE DEF g
<1>9. Len(g) = Len(f) + Len(body) + 2 /\ g[Len(g)] = Close
  BY <1>1, <1>3, <1>7
<1>10. ASSUME NEW k \in 1..Len(f) PROVE g[k] = f[k]
  BY <1>1, <1>5, <1>6, <1>7
<1>11. g[Len(f) + 1] = Open(id + 1)
  <2>1. /\ Len(f) + 1 \in 1..(Len(f) + 1 + Len(body))
        /\ Len(f) + 1 \in 1..(Len(f) + 1 + Len(body) + 1)
        /\ Len(f) + 1 <= Len(f) + 1 + Len(body) /\ Len(f) + 1 <= Len(f) + 1
    BY <1>1
  <2>2. g[Len(f) + 1] = b[Len(f) + 1] /\ b[Len(f) + 1] = a[Len(f) + 1]
    BY <1>6, <1>7, <2>1
  <2> QED
    BY <1>5, <2>2
<1>12. ASSUME NEW k \in 1..Len(body) PROVE g[Len(f) + 1 + k] = body[k]
  <2>1. /\ Len(f) + 1 + k \in 1..(Len(f) + 1 + Len(body))
        /\ Len(f) + 1 + k \in 1..(Len(f) + 1 + Len(body) + 1)
        /\ Len(f) + 1 + k - (Len(f) + 1) = k /\ ~(Len(f) + 1 + k <= Len(f) + 1)
        /\ Len(f) + 1 + k <= Len(f) + 1 + Len(body)
    BY <1>1
  <2>2. g[Len(f) + 1 + k] = b[Len(f) + 1 + k]
    BY <1>7, <2>1
  <2>3. b[Len(f) + 1 + k] = body[Len(f) + 1 + k - (Len(f) + 1)]
    BY <1>6, <2>1
  <2> QED
    BY <2>1, <2>2, <2>3
<1> QED
  BY <1>7, <1>8, <1>9, <1>10, <1>11, <1>12

\* In a file of whole messages the next '>' is where it was before more was
\* written behind it.
LEMMA AfterBracketKept ==
    ASSUME NEW f \in Seq(Line), NEW g \in Seq(Line), Len(g) > Len(f),
           \A k \in 1..Len(f) : g[k] = f[k],
           NEW k \in 1..Len(f), Whole(f)
    PROVE  AfterBracket(g, k) = AfterBracket(f, k)
<1> DEFINE a == AfterBracket(f, k)
           b == AfterBracket(g, k)
<1>1. Len(f) \in Nat /\ Len(g) \in Nat /\ k \in 1..Len(g)
  BY LenProperties
<1>2. /\ a \in (k + 1)..(Len(f) + 1)
      /\ \A j \in k..Len(f) : f[j].tag # "text" => a <= j + 1
      /\ a = Len(f) + 1 \/ f[a - 1].tag # "text"
  BY AfterBracketIs
<1>3. /\ b \in (k + 1)..(Len(g) + 1)
      /\ \A j \in k..Len(g) : g[j].tag # "text" => b <= j + 1
      /\ b = Len(g) + 1 \/ g[b - 1].tag # "text"
  BY <1>1, AfterBracketIs
<1>4. f[Len(f)].tag = "close"
  BY <1>1 DEF Whole
<1> HIDE DEF a, b
<1>5. f[a - 1].tag # "text" /\ a - 1 \in k..Len(f)
  BY <1>1, <1>2, <1>4
<1>6. b <= a
  <2>1. g[a - 1] = f[a - 1] /\ a - 1 \in k..Len(g)
    BY <1>1, <1>5
  <2>2. b <= a - 1 + 1
    BY <1>3, <1>5, <2>1
  <2> QED
    BY <1>2, <2>2
<1>7. a <= b
  <2>1. b - 1 \in k..Len(f) /\ b # Len(g) + 1
    BY <1>1, <1>2, <1>3, <1>6
  <2>2. f[b - 1].tag # "text"
    BY <1>1, <1>3, <2>1
  <2>3. a <= b - 1 + 1
    BY <1>2, <2>1, <2>2
  <2> QED
    BY <1>3, <2>3
<1> QED
  BY <1>2, <1>3, <1>6, <1>7 DEF a, b

\* From a line behind a '>' of the last message on, no header is found.
LEMMA NoneInLastMessage ==
    ASSUME NEW f \in Seq(Line), NEW id \in Int, NEW body \in Seq(Line), Clean(body),
           NEW from, Scan(Appended(f, id, body), from)
    PROVE  LET g == Appended(f, id, body)
           IN  \A j \in (Len(f) + 3)..(Len(g) + 1) :
                  g[j - 1].tag # "text" => from[j] = << >>
<1> DEFINE g == Appended(f, id, body)
           L == Len(f)
           N == Len(g)
<1>1. /\ g \in Seq(Line) /\ N = L + Len(body) + 2 /\ g[N] = Close
      /\ \A k \in 1..Len(body) : g[L + 1 + k] = body[k]
      /\ L \in Nat /\ Len(body) \in Nat /\ N \in Nat
  BY AppendedIs, LenProperties
<1>2. \A k \in 1..(N + 2) : from[k] = ScanFrom(g, from, k)
  BY DEF Scan
<1> HIDE DEF g, N, L
<1>sizes. L \in Nat /\ N \in Nat /\ Len(body) \in Nat /\ N = L + Len(body) + 2
  BY <1>1
<1> DEFINE Claim(j) == j \in (L + 3)..(N + 1) /\ g[j - 1].tag # "text" => from[j] = << >>
           Good == {n \in 0..N : \A j \in (N + 1 - n)..(N + 1) : Claim(j)}
<1>3. from[N + 1] = << >>
  <2>1. N + 1 \in 1..(N + 2) /\ N + 1 > N
    BY <1>sizes
  <2>2. from[N + 1] = ScanFrom(g, from, N + 1)
    BY <1>2, <2>1
  <2> QED
    BY <2>1, <2>2 DEF ScanFrom, N
<1>4. 0 \in Good
  <2>1. 0 \in 0..N /\ \A j \in (N + 1 - 0)..(N + 1) : j = N + 1
    BY <1>sizes
  <2>2. \A j \in (N + 1 - 0)..(N + 1) : from[j] = << >>
    BY <1>3, <2>1
  <2> QED
    BY <2>1, <2>2
<1>5. ASSUME NEW n \in 1..N, n - 1 \in Good PROVE n \in Good
  <2> DEFINE j == N + 1 - n
  <2>1. /\ j \in 1..N /\ n \in 0..N
        /\ \A i \in (N + 1 - n)..(N + 1) : i = j \/ i \in (j + 1)..(N + 1)
        /\ N + 1 - (n - 1) = j + 1
    BY <1>sizes
  <2>2. \A i \in (j + 1)..(N + 1) : Claim(i)
    BY <1>5, <2>1
  <2> HIDE DEF j
  <2>3. ASSUME j \in (L + 3)..(N + 1), g[j - 1].tag # "text" PROVE from[j] = << >>
    <3>1. g[j].tag # "open"
      <4>1. CASE j = N
        BY <1>1, <4>1 DEF Close
      <4>2. CASE j # N
        <5> DEFINE k == j - L - 2
        <5>1. /\ k \in 1..(Len(body) - 1) /\ k \in 1..Len(body) /\ k + 1 \in 1..Len(body)
              /\ L + 1 + k = j - 1 /\ L + 1 + (k + 1) = j
          BY <1>1, <2>1, <2>3, <4>2
        <5> HIDE DEF k
        <5>2. g[j - 1] = body[k] /\ g[j] = body[k + 1]
          BY <1>1, <5>1
        <5> QED
          BY <2>3, <5>1, <5>2 DEF Clean
      <4> QED
        BY <4>1, <4>2
    <3> DEFINE i == AfterBracket(g, j)
    <3>2. i \in (j + 1)..(N + 1) /\ (i = N + 1 \/ g[i - 1].tag # "text")
      BY <1>1, <2>1, AfterBracketIs DEF N
    <3>3. from[j] = from[i]
      <4>1. j \in 1..(N + 2) /\ ~(j > N)
        BY <1>sizes, <2>1
      <4>2. from[j] = ScanFrom(g, from, j)
        BY <1>2, <4>1
      <4> QED
        BY <3>1, <4>1, <4>2 DEF ScanFrom, N
    <3> HIDE DEF i
    <3>4. g[i - 1].tag # "text" /\ i \in (L + 3)..(N + 1)
      <4>1. i \in (L + 3)..(N + 1) /\ (i = N + 1 => i - 1 = N)
        BY <1>sizes, <2>3, <3>2
      <4>2. g[N].tag # "text"
        BY <1>1 DEF Close
      <4> QED
        BY <3>2, <4>1, <4>2
    <3>5. from[i] = << >>
      BY <2>2, <3>2, <3>4
    <3> QED
      BY <3>3, <3>5
  <2>4. \A i \in (N + 1 - n)..(N + 1) : Claim(i)
    BY <2>1, <2>2, <2>3
  <2> QED
    BY <2>1, <2>4
<1>6. Good = 0..N
  <2>1. Good \in SUBSET (0..N)
    OBVIOUS
  <2> HIDE DEF Good
  <2> QED
    BY <1>1, <1>4, <1>5, <2>1, StepsKeep
<1>7. N \in Good /\ N + 1 - N = 1
  <2> HIDE DEF Good
  <2> QED
    BY <1>1, <1>6
<1>8. ASSUME NEW j \in (L + 3)..(N + 1), g[j - 1].tag # "text" PROVE from[j] = << >>
  <2>1. j \in 1..(N + 1)
    BY <1>1
  <2> QED
    BY <1>7, <1>8, <2>1
<1> QED
  BY <1>8 DEF g, N, L

\* A message written behind whole messages is found behind them, and only it.
LEMMA AppendedHeaders ==
    ASSUME NEW f \in Seq(Line), Whole(f), NEW id \in Int,
           NEW body \in Seq(Line), Clean(body)
    PROVE  /\ Whole(Appended(f, id, body))
           /\ Headers(Appended(f, id, body)) =
                 Append(Headers(f), [id |-> id + 1, body |-> Len(f) + 2])
<1> DEFINE g == Appended(f, id, body)
           L == Len(f)
           N == Len(g)
           h == [id |-> id + 1, body |-> L + 2]
<1>1. /\ g \in Seq(Line) /\ N = L + Len(body) + 2 /\ g[N] = Close
      /\ g[L + 1] = Open(id + 1)
      /\ \A k \in 1..L : g[k] = f[k]
      /\ L \in Nat /\ Len(body) \in Nat /\ N \in Nat
  BY AppendedIs, LenProperties
<1>2. PICK F : Scan(f, F) /\ Headers(f) = F[1]
  BY HeadersIs
<1>3. PICK G : Scan(g, G) /\ Headers(g) = G[1]
  BY <1>1, HeadersIs
<1>4. \A j \in (L + 3)..(N + 1) : g[j - 1].tag # "text" => G[j] = << >>
  BY <1>3, NoneInLastMessage
<1>5. /\ \A k \in 1..(L + 2) : F[k] \in Seq(Headings(f)) /\ F[k] = ScanFrom(f, F, k)
      /\ \A k \in 1..(N + 2) : G[k] = ScanFrom(g, G, k)
  BY <1>2, <1>3 DEF Scan
<1>6. Whole(g)
  BY <1>1 DEF Whole, Close
<1> HIDE DEF g, N, L
<1>sizes. L \in Nat /\ N \in Nat /\ Len(body) \in Nat /\ N = L + Len(body) + 2
  BY <1>1
<1> DEFINE S == Headings(f) \cup {h}
<1>7. <<h>> \in Seq(S) /\ \A k \in 1..(L + 2) : F[k] \in Seq(S)
  <2>1. \A k \in 1..(L + 2) : F[k] \in Seq(Headings(f))
    BY <1>5
  <2>2. Headings(f) \subseteq S /\ h \in S
    OBVIOUS
  <2> HIDE DEF S
  <2> QED
    BY <2>1, <2>2, SeqMonotonic
<1>8. G[L + 1] = <<h>>
  <2>1. L + 1 \in 1..(N + 2) /\ ~(L + 1 > N) /\ L + 2 \in 1..N /\ L + 1 + 1 = L + 2
    BY <1>1
  <2> DEFINE i == AfterBracket(g, L + 2)
  <2>2. i \in (L + 2 + 1)..(N + 1) /\ (i = N + 1 \/ g[i - 1].tag # "text")
    BY <1>1, <2>1, AfterBracketIs DEF N
  <2>3. G[L + 1] = <<HeaderAt(g, L + 1)>> \o G[i]
    <3>1. G[L + 1] = ScanFrom(g, G, L + 1)
      BY <1>5, <2>1
    <3>2. g[L + 1].tag = "open"
      BY <1>1 DEF Open
    <3> QED
      BY <2>1, <3>1, <3>2 DEF ScanFrom, N
  <2> HIDE DEF i
  <2>4. g[i - 1].tag # "text" /\ i \in (L + 3)..(N + 1)
    <3>1. i \in (L + 3)..(N + 1) /\ (i = N + 1 => i - 1 = N)
      BY <1>sizes, <2>2
    <3>2. g[N].tag # "text"
      BY <1>1 DEF Close
    <3> QED
      BY <2>2, <3>1, <3>2
  <2>5. G[i] = << >>
    BY <1>4, <2>4
  <2>6. HeaderAt(g, L + 1) = h
    BY <1>1 DEF HeaderAt, Open
  <2>7. <<h>> \o << >> = <<h>>
    BY <1>7, ConcatEmptySeq
  <2> QED
    BY <2>3, <2>5, <2>6, <2>7
<1> DEFINE Good == {n \in 0..L : \A k \in (L + 1 - n)..(L + 1) : G[k] = F[k] \o <<h>>}
<1>9. 0 \in Good
  <2>1. \A k \in (L + 1 - 0)..(L + 1) : k = L + 1
    BY <1>1
  <2>2. F[L + 1] = << >>
    <3>1. L + 1 \in 1..(L + 2) /\ L + 1 > L
      BY <1>sizes
    <3>2. F[L + 1] = ScanFrom(f, F, L + 1)
      BY <1>5, <3>1
    <3> QED
      BY <3>1, <3>2 DEF ScanFrom, L
  <2>3. << >> \o <<h>> = <<h>>
    BY <1>7, ConcatEmptySeq
  <2> HIDE DEF h
  <2>4. G[L + 1] = F[L + 1] \o <<h>>
    BY <1>8, <2>2, <2>3
  <2>5. \A k \in (L + 1 - 0)..(L + 1) : G[k] = F[k] \o <<h>>
    BY <2>1, <2>4
  <2>6. 0 \in 0..L
    BY <1>sizes
  <2> QED
    BY <2>5, <2>6
<1>10. ASSUME NEW n \in 1..L, n - 1 \in Good PROVE n \in Good
  <2> DEFINE k == L + 1 - n
  <2>1. /\ k \in 1..L /\ n \in 0..L /\ k \in 1..(L + 2) /\ k \in 1..(N + 2)
        /\ ~(k > L) /\ ~(k > N)
        /\ \A i \in (L + 1 - n)..(L + 1) : i = k \/ i \in (k + 1)..(L + 1)
        /\ L + 1 - (n - 1) = k + 1
    BY <1>1
  <2>2. \A i \in (k + 1)..(L + 1) : G[i] = F[i] \o <<h>>
    BY <1>10, <2>1
  <2> HIDE DEF k, h
  <2>3. g[k] = f[k] /\ HeaderAt(g, k) = HeaderAt(f, k)
    BY <1>1, <2>1 DEF HeaderAt
  <2>4. Len(g) > Len(f) /\ \A i \in 1..Len(f) : g[i] = f[i]
    BY <1>1 DEF N, L
  <2>5. \A i \in 1..L : AfterBracket(g, i) = AfterBracket(f, i)
                        /\ AfterBracket(f, i) \in (i + 1)..(L + 1)
    BY <1>1, <2>4, AfterBracketKept, AfterBracketIs DEF L
  <2>6. G[k] = F[k] \o <<h>>
    <3>1. CASE f[k].tag = "open"
      <4>1. k + 1 \in 1..L
        BY <1>1, <2>1, <3>1 DEF Whole, L
      <4> DEFINE i == AfterBracket(f, k + 1)
      <4>2. i \in (k + 1)..(L + 1) /\ i \in 1..(L + 2) /\ AfterBracket(g, k + 1) = i
        BY <1>1, <2>1, <2>5, <4>1
      <4> HIDE DEF i
      <4>3. F[k] = <<HeaderAt(f, k)>> \o F[i]
        BY <1>5, <2>1, <3>1 DEF ScanFrom, L, i
      <4>4. G[k] = <<HeaderAt(f, k)>> \o G[i]
        BY <1>5, <2>1, <2>3, <3>1, <4>2 DEF ScanFrom, N
      <4>5. <<HeaderAt(f, k)>> \in Seq(S)
        <5>1. HeaderAt(f, k) \in S
          BY <2>1, <3>1 DEF Headings, Openings, L
        <5> HIDE DEF S
        <5> QED
          BY <5>1
      <4>6. G[i] = F[i] \o <<h>> /\ F[i] \in Seq(S)
        BY <1>7, <2>2, <4>2
      <4> HIDE DEF S
      <4>7. <<HeaderAt(f, k)>> \o (F[i] \o <<h>>) = (<<HeaderAt(f, k)>> \o F[i]) \o <<h>>
        <5> DEFINE a == <<HeaderAt(f, k)>>
                   b == F[i]
                   c == <<h>>
        <5>1. a \in Seq(S) /\ b \in Seq(S) /\ c \in Seq(S)
          BY <1>7, <4>5, <4>6
        <5> HIDE DEF a, b, c
        <5>2. (a \o b) \o c = a \o (b \o c)
          BY <5>1, ConcatAssociative
        <5> QED
          BY <5>2 DEF a, b, c
      <4> QED
        BY <4>3, <4>4, <4>6, <4>7
    <3>2. CASE f[k].tag # "open"
      <4> DEFINE i == AfterBracket(f, k)
      <4>1. i \in (k + 1)..(L + 1) /\ AfterBracket(g, k) = i
        BY <2>1, <2>5
      <4>2. F[k] = F[i]
        BY <1>5, <2>1, <3>2 DEF ScanFrom, L
      <4>3. G[k] = G[i]
        BY <1>5, <2>1, <2>3, <3>2, <4>1 DEF ScanFrom, N
      <4> HIDE DEF i
      <4> QED
        BY <2>2, <4>1, <4>2, <4>3
    <3> QED
      BY <3>1, <3>2
  <2> QED
    BY <2>1, <2>2, <2>6
<1>11. Good = 0..L
  <2>1. Good \in SUBSET (0..L)
    OBVIOUS
  <2> HIDE DEF Good
  <2> QED
    BY <1>1, <1>9, <1>10, <2>1, StepsKeep
<1>12. G[1] = F[1] \o <<h>>
  <2>1. L \in Good
    <3> HIDE DEF Good
    <3> QED
      BY <1>1, <1>11
  <2>2. L + 1 - L = 1 /\ 1 \in 1..(L + 1)
    BY <1>1
  <2> HIDE DEF h
  <2> QED
    BY <2>1, <2>2
<1>13. F[1] \o <<h>> = Append(F[1], h)
  <2>1. 1 \in 1..(L + 2) /\ h \in S
    BY <1>sizes
  <2> HIDE DEF S, h
  <2>2. F[1] \in Seq(S)
    BY <1>7, <2>1
  <2> QED
    BY <2>1, <2>2, AppendIsConcat
<1> QED
  BY <1>2, <1>3, <1>6, <1>12, <1>13 DEF g, L


\* The lines a message is read from.
Footer(f, start) ==
    Min({j \in start..Len(f) : f[j].tag = "close"} \cup {Len(f) + 1})

LEMMA BodyAtIs ==
    ASSUME NEW f \in Seq(Line), NEW start \in 1..(Len(f) + 1)
    PROVE  LET m == Footer(f, start)
           IN  /\ m \in start..(Len(f) + 1)
               /\ m = Len(f) + 1 \/ f[m].tag = "close"
               /\ \A j \in start..Len(f) : f[j].tag = "close" => m <= j
               /\ BodyAt(f, start) \in Seq(Line)
               /\ Len(BodyAt(f, start)) = m - start
               /\ \A k \in 1..(m - start) : BodyAt(f, start)[k] = f[start + k - 1]
<1> DEFINE Ends == {j \in start..Len(f) : f[j].tag = "close"} \cup {Len(f) + 1}
           m == Footer(f, start)
<1>1. Len(f) \in Nat
  BY LenProperties
<1>2. m \in Ends /\ \A j \in Ends : m <= j
  <2>1. Ends \in SUBSET Nat /\ Ends # {}
    BY <1>1
  <2>2. m = Min(Ends)
    BY DEF Footer
  <2> HIDE DEF Ends, m
  <2> QED
    BY <2>1, <2>2, LeastOf
<1>3. BodyAt(f, start) = SubSeq(f, start, m - 1)
  BY DEF BodyAt, Footer
<1> HIDE DEF m
<1>4. /\ m \in start..(Len(f) + 1)
      /\ m = Len(f) + 1 \/ f[m].tag = "close"
      /\ \A j \in start..Len(f) : f[j].tag = "close" => m <= j
  BY <1>1, <1>2
<1>5. \A i \in start..(m - 1) : f[i] \in Line
  <2>1. \A i \in start..(m - 1) : i \in 1..Len(f)
    BY <1>1, <1>4
  <2> QED
    BY <2>1, ElementOfSeq
<1>6. start \in Int /\ m - 1 \in Int /\ m - 1 - start + 1 = m - start
      /\ (~(start <= m - 1) => m - start = 0)
  BY <1>1, <1>4
<1>7. /\ SubSeq(f, start, m - 1) \in Seq(Line)
      /\ Len(SubSeq(f, start, m - 1)) = m - start
      /\ \A k \in 1..(m - start) : SubSeq(f, start, m - 1)[k] = f[start + k - 1]
  <2>1. /\ SubSeq(f, start, m - 1) \in Seq(Line)
        /\ Len(SubSeq(f, start, m - 1)) =
              IF start <= m - 1 THEN m - 1 - start + 1 ELSE 0
        /\ \A k \in 1..(m - 1 - start + 1) :
              SubSeq(f, start, m - 1)[k] = f[start + k - 1]
    BY <1>5, <1>6, SubSeqProperties
  <2> QED
    BY <1>6, <2>1
<1> QED
  BY <1>3, <1>4, <1>7 DEF m

LEMMA HeadersType ==
    ASSUME NEW f \in Seq(Line)
    PROVE  /\ Headers(f) \in Seq(Headings(f))
           /\ LastId(f) \in Int
           /\ \A k \in 1..Len(Headers(f)) :
                 /\ Headers(f)[k].id \in Int
                 /\ Headers(f)[k].body - 1 \in Openings(f)
                 /\ Headers(f)[k].body \in 2..(Len(f) + 1)
<1>1. Headers(f) \in Seq(Headings(f))
  <2>1. PICK from : Scan(f, from) /\ Headers(f) = from[1]
    BY HeadersIs
  <2>2. 1 \in 1..(Len(f) + 2)
    BY LenProperties
  <2> QED
    BY <2>1, <2>2 DEF Scan
<1>2. ASSUME NEW k \in 1..Len(Headers(f))
      PROVE  /\ Headers(f)[k].id \in Int
             /\ Headers(f)[k].body - 1 \in Openings(f)
             /\ Headers(f)[k].body \in 2..(Len(f) + 1)
  <2>1. Headers(f)[k] \in Headings(f)
    BY <1>1, ElementOfSeq
  <2>2. PICK j \in Openings(f) : Headers(f)[k] = HeaderAt(f, j)
    BY <2>1 DEF Headings
  <2>3. j \in 1..Len(f) /\ Len(f) \in Nat
    BY LenProperties DEF Openings
  <2>4. f[j].n \in Int
    BY <2>3, LineAt
  <2>5. Headers(f)[k].id = f[j].n /\ Headers(f)[k].body = j + 1 /\ j + 1 - 1 = j
    BY <2>2, <2>3 DEF HeaderAt
  <2> QED
    BY <2>3, <2>4, <2>5
<1>3. LastId(f) \in Int
  <2>1. CASE Headers(f) = << >>
    BY <2>1 DEF LastId, FIRST_MESSAGE_INDEX
  <2>2. CASE Headers(f) # << >>
    <3>1. Len(Headers(f)) \in 1..Len(Headers(f))
      BY <1>1, <2>2, EmptySeq
    <3>2. Headers(f)[Len(Headers(f))].id \in Int
      BY <1>2, <3>1
    <3> QED
      BY <2>2, <3>2 DEF LastId
  <2> QED
    BY <2>1, <2>2
<1> QED
  BY <1>1, <1>2, <1>3

LEMMA FoundType ==
    ASSUME NEW f \in Seq(Line), NEW id \in Int, Found(f, id) # {}
    PROVE  /\ Min(Found(f, id)) \in 1..Len(Headers(f))
           /\ Min(Found(f, id)) \in Found(f, id)
           /\ BodyAt(f, Headers(f)[Min(Found(f, id))].body) \in Seq(Line)
<1>1. Headers(f) \in Seq(Headings(f))
  BY HeadersType
<1>2. DOMAIN Headers(f) = 1..Len(Headers(f)) /\ Len(Headers(f)) \in Nat
  BY <1>1, LenProperties
<1>3. Found(f, id) \in SUBSET Nat /\ Found(f, id) \in SUBSET (1..Len(Headers(f)))
  BY <1>2 DEF Found
<1>4. Min(Found(f, id)) \in Found(f, id)
  BY <1>3, LeastOf
<1>5. Min(Found(f, id)) \in 1..Len(Headers(f))
  BY <1>3, <1>4
<1>6. Headers(f)[Min(Found(f, id))].body \in 2..(Len(f) + 1)
  BY <1>5, HeadersType
<1>7. Headers(f)[Min(Found(f, id))].body \in 1..(Len(f) + 1)
  <2>1. Len(f) \in Nat
    BY LenProperties
  <2> QED
    BY <1>6, <2>1
<1> QED
  BY <1>4, <1>5, <1>7, BodyAtIs

\* What the file says after a message was appended.
Entry == [id : Int, body : Seq(Line)]

LEMMA EntriesType ==
    ASSUME NEW f \in Seq(Line)
    PROVE  /\ Entries(f) \in Seq(Entry) /\ Len(Entries(f)) = Len(Headers(f))
           /\ \A k \in 1..Len(Headers(f)) :
                 Entries(f)[k] = [id |-> Headers(f)[k].id,
                                  body |-> BodyAt(f, Headers(f)[k].body)]
<1>1. Headers(f) \in Seq(Headings(f))
  BY HeadersType
<1>2. DOMAIN Headers(f) = 1..Len(Headers(f)) /\ Len(Headers(f)) \in Nat /\ Len(f) \in Nat
  BY <1>1, LenProperties
<1>3. ASSUME NEW k \in 1..Len(Headers(f))
      PROVE  [id |-> Headers(f)[k].id, body |-> BodyAt(f, Headers(f)[k].body)] \in Entry
  <2>1. Headers(f)[k].id \in Int /\ Headers(f)[k].body \in 1..(Len(f) + 1)
    BY <1>2, HeadersType
  <2>2. BodyAt(f, Headers(f)[k].body) \in Seq(Line)
    BY <2>1, BodyAtIs
  <2> QED
    BY <2>1, <2>2 DEF Entry
<1>4. Entries(f) = [k \in 1..Len(Headers(f)) |->
                      [id |-> Headers(f)[k].id, body |-> BodyAt(f, Headers(f)[k].body)]]
  BY <1>2 DEF Entries
<1> QED
  BY <1>2, <1>3, <1>4

\* Behind a file of whole messages, a text that has no line the scan would take
\* for a header is one more message, and the ones before it are as they were:
\* what appendMsg writes (msgparser.c:234-258) is read again as it was written
\* (msgparser.c:76-190).
THEOREM AppendedEntries ==
    ASSUME NEW f \in Seq(Line), Whole(f), NEW id \in Int,
           NEW body \in Seq(Line), Clean(body)
    PROVE  Entries(Appended(f, id, body)) =
              Append(Entries(f), [id |-> id + 1, body |-> body])
<1> DEFINE g == Appended(f, id, body)
           L == Len(f)
           N == Len(g)
           h == [id |-> id + 1, body |-> L + 2]
           e == [id |-> id + 1, body |-> body]
           n == Len(Headers(f))
<1>1. /\ g \in Seq(Line) /\ N = L + Len(body) + 2 /\ g[N] = Close
      /\ \A k \in 1..L : g[k] = f[k]
      /\ \A k \in 1..Len(body) : g[L + 1 + k] = body[k]
      /\ L \in Nat /\ Len(body) \in Nat /\ N \in Nat
  BY AppendedIs, LenProperties
<1>2. /\ Headers(f) \in Seq(Headings(f)) /\ n \in Nat
      /\ Headers(g) = Append(Headers(f), h)
  BY HeadersType, LenProperties, AppendedHeaders
<1>3. /\ Len(Headers(g)) = n + 1
      /\ \A k \in 1..n : Headers(g)[k] = Headers(f)[k]
      /\ Headers(g)[n + 1] = h
  <2> DEFINE S == Headings(f) \cup {h}
  <2>1. Headings(f) \subseteq S /\ h \in S
    OBVIOUS
  <2> HIDE DEF S, h
  <2>2. Headers(f) \in Seq(S)
    BY <1>2, <2>1, SeqMonotonic
  <2> QED
    BY <1>2, <2>1, <2>2, AppendProperties
<1> HIDE DEF g, N, L, n
<1>4. /\ Entries(f) \in Seq(Entry) /\ Len(Entries(f)) = n
      /\ \A k \in 1..n : Entries(f)[k] = [id |-> Headers(f)[k].id,
                                          body |-> BodyAt(f, Headers(f)[k].body)]
  BY EntriesType DEF n
<1>5. /\ Entries(g) \in Seq(Entry) /\ Len(Entries(g)) = n + 1
      /\ \A k \in 1..(n + 1) : Entries(g)[k] = [id |-> Headers(g)[k].id,
                                                body |-> BodyAt(g, Headers(g)[k].body)]
  BY <1>1, <1>3, EntriesType
<1>6. ASSUME NEW k \in 1..n PROVE Entries(g)[k] = Entries(f)[k]
  <2> DEFINE start == Headers(f)[k].body
             m == Footer(f, start)
             w == Footer(g, start)
  <2>1. start - 1 \in Openings(f) /\ start \in 2..(L + 1)
    BY HeadersType DEF n, L
  <2>2. f[start - 1].tag = "open" /\ start - 1 \in 1..L
    BY <2>1 DEF Openings, L
  <2>3. f[L].tag = "close"
    BY <1>1, <2>2 DEF Whole, L
  <2>4. start \in 2..L /\ start \in 1..(L + 1) /\ start \in 1..(N + 1)
    <3>1. start - 1 # L
      BY <2>2, <2>3
    <3> QED
      BY <1>1, <2>1, <3>1
  <2> HIDE DEF start
  <2>5. /\ m \in start..(L + 1) /\ (m = L + 1 \/ f[m].tag = "close")
        /\ \A j \in start..L : f[j].tag = "close" => m <= j
        /\ BodyAt(f, start) \in Seq(Line) /\ Len(BodyAt(f, start)) = m - start
        /\ \A i \in 1..(m - start) : BodyAt(f, start)[i] = f[start + i - 1]
    BY <2>4, BodyAtIs DEF L
  <2>6. /\ w \in start..(N + 1) /\ (w = N + 1 \/ g[w].tag = "close")
        /\ \A j \in start..N : g[j].tag = "close" => w <= j
        /\ BodyAt(g, start) \in Seq(Line) /\ Len(BodyAt(g, start)) = w - start
        /\ \A i \in 1..(w - start) : BodyAt(g, start)[i] = g[start + i - 1]
    BY <1>1, <2>4, BodyAtIs DEF N
  <2> HIDE DEF m, w
  <2>7. m \in start..L /\ f[m].tag = "close"
    <3>1. m <= L
      BY <1>1, <2>3, <2>4, <2>5
    <3> QED
      BY <1>1, <2>4, <2>5, <3>1
  <2>8. w <= m
    <3>1. m \in start..N /\ m \in 1..L
      BY <1>1, <2>4, <2>7
    <3>2. g[m] = f[m]
      BY <1>1, <3>1
    <3> QED
      BY <2>6, <2>7, <3>1, <3>2
  <2>9. m <= w
    <3>1. w \in 1..L /\ w # N + 1 /\ w \in start..L
      BY <1>1, <2>4, <2>6, <2>7, <2>8
    <3>2. f[w].tag = "close"
      BY <1>1, <2>6, <3>1
    <3> QED
      BY <2>5, <3>1, <3>2
  <2>10. w = m
    BY <1>1, <2>4, <2>5, <2>6, <2>8, <2>9
  <2>11. BodyAt(g, start) = BodyAt(f, start)
    <3>1. \A i \in 1..(m - start) : g[start + i - 1] = f[start + i - 1]
      <4>1. \A i \in 1..(m - start) : start + i - 1 \in 1..L
        BY <1>1, <2>4, <2>7
      <4> QED
        BY <1>1, <4>1
    <3>2. \A i \in 1..(m - start) : BodyAt(g, start)[i] = BodyAt(f, start)[i]
      BY <2>5, <2>6, <2>10, <3>1
    <3> QED
      BY <2>5, <2>6, <2>10, <3>2, SeqEqual
  <2>12. k \in 1..(n + 1) /\ Headers(g)[k] = Headers(f)[k]
    BY <1>2, <1>3
  <2> QED
    BY <1>4, <1>5, <2>11, <2>12 DEF start
<1>7. Entries(g)[n + 1] = e
  <2> DEFINE w == Footer(g, L + 2)
  <2>1. L + 2 \in 1..(N + 1) /\ n + 1 \in 1..(n + 1)
    BY <1>1, <1>2
  <2>2. /\ w \in (L + 2)..(N + 1) /\ (w = N + 1 \/ g[w].tag = "close")
        /\ \A j \in (L + 2)..N : g[j].tag = "close" => w <= j
        /\ BodyAt(g, L + 2) \in Seq(Line) /\ Len(BodyAt(g, L + 2)) = w - (L + 2)
        /\ \A i \in 1..(w - (L + 2)) : BodyAt(g, L + 2)[i] = g[L + 2 + i - 1]
    BY <1>1, <2>1, BodyAtIs DEF N
  <2> HIDE DEF w
  <2>3. w <= N
    <3>1. N \in (L + 2)..N
      BY <1>1
    <3> QED
      BY <1>1, <2>2, <3>1 DEF Close
  <2>4. ASSUME w # N PROVE FALSE
    <3> DEFINE i == w - (L + 1)
    <3>sizes. /\ L \in Nat /\ Len(body) \in Nat /\ N = L + Len(body) + 2
              /\ w \in (L + 2)..(N + 1) /\ w <= N /\ w # N
      BY <1>1, <2>2, <2>3, <2>4
    <3>1. i \in 1..Len(body) /\ L + 1 + i = w /\ w # N + 1
      BY <3>sizes
    <3> HIDE DEF i
    <3>2. g[w] = body[i]
      BY <1>1, <3>1
    <3>3. body[i].tag # "close"
      BY <3>1 DEF Clean
    <3> QED
      BY <2>2, <3>1, <3>2, <3>3
  <2>5. w - (L + 2) = Len(body) /\ \A i \in 1..Len(body) : L + 2 + i - 1 = L + 1 + i
    BY <1>1, <2>4
  <2>6. \A i \in 1..Len(body) : BodyAt(g, L + 2)[i] = body[i]
    BY <1>1, <2>2, <2>5
  <2>7. BodyAt(g, L + 2) = body
    BY <2>2, <2>5, <2>6, SeqEqual
  <2> QED
    BY <1>3, <1>5, <2>1, <2>7
<1>8. e \in Entry
  BY DEF Entry
<1> HIDE DEF e, h
<1>9. /\ Append(Entries(f), e) \in Seq(Entry) /\ Len(Append(Entries(f), e)) = n + 1
      /\ \A k \in 1..n : Append(Entries(f), e)[k] = Entries(f)[k]
      /\ Append(Entries(f), e)[n + 1] = e
  BY <1>4, <1>8, AppendProperties
<1>10. \A k \in 1..(n + 1) : Entries(g)[k] = Append(Entries(f), e)[k]
  <2>1. \A k \in 1..(n + 1) : k \in 1..n \/ k = n + 1
    BY <1>2
  <2> QED
    BY <1>6, <1>7, <1>9, <2>1
<1>11. Entries(g) = Append(Entries(f), e)
  BY <1>5, <1>9, <1>10, SeqEqual
<1> QED
  BY <1>11 DEF g, e

=============================================================================
