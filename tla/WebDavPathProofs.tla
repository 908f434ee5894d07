-------------------------- MODULE WebDavPathProofs --------------------------
(***************************************************************************)
(* Theorems about the paths of WebDav, for every path: that the names      *)
(* which _EnsureWebDAVDirectories makes directories of are those the       *)
(* server sees in the URI that _EncodeWithoutSeparator writes.  The loops  *)
(* are folds; an invariant of a loop is proved for the states the fold     *)
(* runs through, by a least counterexample.                                *)
(***************************************************************************)
EXTENDS WebDav, Integers, SequenceTheorems, WellFoundedInduction, TLAPS

-----------------------------------------------------------------------------
(* Induction and folds                                                     *)

(* What holds of 0 and passes from each number to the next holds of all:   *)
(* the set of exceptions would have a least element.                       *)
LEMMA SetInduction ==
    ASSUME NEW S, 0 \in S, \A n \in Nat : n \in S => n + 1 \in S
    PROVE  Nat \subseteq S
<1> DEFINE T == Nat \ S
           R == {ss \in Nat \X Nat : ss[1] < ss[2]}
<1>1. SUFFICES ASSUME T # {} PROVE FALSE
  OBVIOUS
<1>2. IsWellFoundedOn(R, Nat)
  BY NatLessThanWellFounded DEF OpToRel
<1>3. PICK x \in T : \A y \in T : ~(<<y, x>> \in R)
  <2>1. T \subseteq Nat
    OBVIOUS
  <2> HIDE DEF T, R
  <2> QED BY ONLY <2>1, <1>1, <1>2, WFMin
<1>4. x \in Nat /\ x # 0 /\ x \notin S
  OBVIOUS
<1>5. x - 1 \in Nat /\ x - 1 < x /\ (x - 1) + 1 = x
  BY <1>4
<1>6. x - 1 \in T /\ <<x - 1, x>> \in R
  BY <1>4, <1>5
<1> QED
  BY <1>3, <1>6

(* The same up to a bound.                                                 *)
LEMMA BoundedInduction ==
    ASSUME NEW n \in Nat, NEW S, 0 \in S, \A k \in 0 .. n - 1 : k \in S => k + 1 \in S
    PROVE  0 .. n \subseteq S
<1> DEFINE U == S \cup {k \in Nat : k > n}
<1>1. 0 \in U
  OBVIOUS
<1>2. \A k \in Nat : k \in U => k + 1 \in U
  OBVIOUS
<1> HIDE DEF U
<1>3. Nat \subseteq U
  BY <1>1, <1>2, SetInduction
<1> QED
  BY <1>3 DEF U

(* A nonempty set of numbers up to n has a maximum.                        *)
LEMMA MaxOfInterval ==
    ASSUME NEW n \in Nat
    PROVE  \A s \in SUBSET (1 .. n) : s # {} => Max(s) \in s /\ \A y \in s : y <= Max(s)
<1> DEFINE Has(k) == \A s \in SUBSET (1 .. k) : s # {} => \E x \in s : \A y \in s : x >= y
           S == {k \in Nat : Has(k)}
<1>1. 0 \in S
  <2>1. 1 .. 0 = {}
    OBVIOUS
  <2> QED
    BY <2>1
<1>2. ASSUME NEW k \in Nat, k \in S
      PROVE  k + 1 \in S
  <2> SUFFICES ASSUME NEW s \in SUBSET (1 .. k + 1), s # {}
               PROVE  \E x \in s : \A y \in s : x >= y
    OBVIOUS
  <2>1. CASE k + 1 \in s
    BY <2>1
  <2>2. CASE k + 1 \notin s
    <3>1. s \in SUBSET (1 .. k)
      BY <2>2
    <3> QED
      BY <3>1, <1>2
  <2> QED
    BY <2>1, <2>2
<1> HIDE DEF S
<1>3. Nat \subseteq S
  BY <1>1, <1>2, SetInduction
<1>4. Has(n)
  BY <1>3 DEF S
<1> QED
  BY <1>4 DEF Max

(* A fold over a sequence of length n steps through the subsets of 1 .. n  *)
(* from their maxima; the function that does so exists.                    *)
IsFold(g, St, base, n, F) ==
    /\ g \in [SUBSET (1 .. n) -> St]
    /\ \A s \in SUBSET (1 .. n) :
          g[s] = IF s = {} THEN base ELSE F[<<g[s \ {Max(s)}], Max(s)>>]

(* The function a fold computes exists.                                    *)
LEMMA FoldExists ==
    ASSUME NEW St, NEW base \in St, NEW n \in Nat, NEW F \in [St \X (1 .. n) -> St]
    PROVE  \E g : IsFold(g, St, base, n, F)
<1> DEFINE Folds(g, k) == \A s \in SUBSET (1 .. k) :
              g[s] = IF s = {} THEN base ELSE F[<<g[s \ {Max(s)}], Max(s)>>]
           Found(k) == k <= n => \E g \in [SUBSET (1 .. k) -> St] : Folds(g, k)
           S == {k \in Nat : Found(k)}
<1> HIDE DEF Folds, Found
<1>1. 0 \in S
  <2>1. [s \in SUBSET (1 .. 0) |-> base] \in [SUBSET (1 .. 0) -> St]
    OBVIOUS
  <2>2. Folds([s \in SUBSET (1 .. 0) |-> base], 0)
    <3>1. \A s \in SUBSET (1 .. 0) : s = {}
      OBVIOUS
    <3> QED
      BY <3>1 DEF Folds
  <2> QED
    BY <2>1, <2>2 DEF Found
<1>2. ASSUME NEW k \in Nat, k \in S
      PROVE  k + 1 \in S
  <2>0. Found(k)
    BY <1>2
  <2> SUFFICES ASSUME k + 1 <= n
               PROVE  \E g \in [SUBSET (1 .. k + 1) -> St] : Folds(g, k + 1)
    <3>1. k + 1 \in Nat
      OBVIOUS
    <3> QED
      BY <3>1, Zenon DEF Found
  <2>9. k <= n
    OBVIOUS
  <2>1. PICK h \in [SUBSET (1 .. k) -> St] : Folds(h, k)
    BY <2>0, <2>9, Zenon DEF Found
  <2> DEFINE g == [s \in SUBSET (1 .. k + 1) |->
                      IF k + 1 \in s THEN F[<<h[s \ {k + 1}], k + 1>>] ELSE h[s]]
  <2>2. ASSUME NEW s \in SUBSET (1 .. k + 1)
        PROVE  s \ {k + 1} \in SUBSET (1 .. k)
    OBVIOUS
  <2>3. g \in [SUBSET (1 .. k + 1) -> St]
    <3> SUFFICES ASSUME NEW s \in SUBSET (1 .. k + 1)
                 PROVE  (IF k + 1 \in s THEN F[<<h[s \ {k + 1}], k + 1>>] ELSE h[s]) \in St
      OBVIOUS
    <3>1. h[s \ {k + 1}] \in St /\ k + 1 \in 1 .. n
      BY <2>2
    <3>2. k + 1 \notin s => s \in SUBSET (1 .. k)
      OBVIOUS
    <3> QED
      BY <3>1, <3>2
  <2>4. ASSUME NEW s \in SUBSET (1 .. k)
        PROVE  g[s] = h[s]
    <3>1. s \in SUBSET (1 .. k + 1) /\ k + 1 \notin s
      OBVIOUS
    <3> QED
      BY <3>1
  <2>5. ASSUME NEW s \in SUBSET (1 .. k + 1), s # {}
        PROVE  g[s] = F[<<g[s \ {Max(s)}], Max(s)>>]
    <3>1. Max(s) \in s /\ \A y \in s : y <= Max(s)
      <4>1. k + 1 \in Nat
        OBVIOUS
      <4> QED
        BY <2>5, <4>1, MaxOfInterval
    <3>2. CASE k + 1 \in s
      <4>1. Max(s) = k + 1
        <5>1. Max(s) \in 1 .. k + 1 /\ k + 1 <= Max(s)
          BY <3>1, <3>2
        <5> QED
          BY <5>1
      <4>2. g[s \ {k + 1}] = h[s \ {k + 1}]
        BY <2>2, <2>4
      <4> QED
        BY <3>2, <4>1, <4>2
    <3>3. CASE k + 1 \notin s
      <4>1. s \in SUBSET (1 .. k) /\ s \ {Max(s)} \in SUBSET (1 .. k)
        <5>1. \A x \in s : x \in 1 .. k
          BY <3>3
        <5> QED
          BY <5>1
      <4>2. h[s] = F[<<h[s \ {Max(s)}], Max(s)>>]
        BY <2>1, <2>5, <4>1 DEF Folds
      <4>3. g[s] = h[s] /\ g[s \ {Max(s)}] = h[s \ {Max(s)}]
        BY <2>4, <4>1
      <4> QED
        BY <4>2, <4>3
    <3> QED
      BY <3>2, <3>3
  <2>6. g[{}] = base
    BY <2>1, <2>4 DEF Folds
  <2> HIDE DEF g
  <2>7. Folds(g, k + 1)
    BY <2>5, <2>6 DEF Folds
  <2> QED
    BY <2>3, <2>7
<1> HIDE DEF S
<1>3. Nat \subseteq S
  BY <1>1, <1>2, SetInduction
<1>4. Found(n)
  BY <1>3 DEF S
<1>5. n <= n
  OBVIOUS
<1> QED
  BY <1>4, <1>5, Zenon DEF Found, Folds, IsFold

(* The last step of a fold over the first k places.                        *)
LEMMA MaxOfFirst ==
    ASSUME NEW k \in Nat \ {0}
    PROVE  Max(1 .. k) = k /\ (1 .. k) \ {k} = 1 .. k - 1
<1>1. 1 .. k \in SUBSET (1 .. k) /\ k \in 1 .. k
  OBVIOUS
<1>2. Max(1 .. k) \in 1 .. k /\ \A y \in 1 .. k : y <= Max(1 .. k)
  BY <1>1, MaxOfInterval
<1> QED
  BY <1>1, <1>2

(* The states a fold runs through, from the first place to the last.       *)
IsRun(r, St, base, n, F) ==
    /\ r \in [0 .. n -> St]
    /\ r[0] = base
    /\ \A k \in 1 .. n : r[k] = F[<<r[k - 1], k>>]

Runs(c, St, base, n, F) == \E r : IsRun(r, St, base, n, F) /\ c[1 .. n] = r[n]

Stepped(c, St, n, F) ==
    \A s \in SUBSET (1 .. n) : s # {} /\ c[s \ {Max(s)}] \in St
        => c[s] = F[<<c[s \ {Max(s)}], Max(s)>>]

(* A function that folds the subsets of the first n places runs through    *)
(* them.                                                                   *)
LEMMA FoldRun ==
    ASSUME NEW St, NEW base \in St, NEW n \in Nat, NEW F \in [St \X (1 .. n) -> St],
           NEW c, c[{}] = base, Stepped(c, St, n, F)
    PROVE  Runs(c, St, base, n, F)
<1> DEFINE r == [k \in 0 .. n |-> c[1 .. k]]
           D == {k \in 0 .. n : r[k] \in St}
<1>1. r[0] = base
  <2>1. 1 .. 0 = {} /\ 0 \in 0 .. n
    OBVIOUS
  <2> QED
    BY <2>1
<1>2. ASSUME NEW k \in 1 .. n, r[k - 1] \in St
      PROVE  r[k] = F[<<r[k - 1], k>>] /\ r[k] \in St
  <2>1. 1 .. k \in SUBSET (1 .. n) /\ 1 .. k # {} /\ k \in Nat \ {0} /\ k \in 0 .. n /\ k - 1 \in 0 .. n
    OBVIOUS
  <2>2. Max(1 .. k) = k /\ (1 .. k) \ {k} = 1 .. k - 1
    BY <2>1, MaxOfFirst
  <2>3. c[1 .. k] = F[<<c[1 .. k - 1], k>>] /\ c[1 .. k - 1] \in St
    BY <1>2, <2>1, <2>2 DEF Stepped
  <2>4. F[<<c[1 .. k - 1], k>>] \in St
    BY <2>3
  <2> QED
    BY <2>1, <2>3, <2>4
<1> HIDE DEF r
<1>3. 0 .. n \subseteq D
  <2>1. 0 \in D
    BY <1>1
  <2>2. ASSUME NEW k \in 0 .. n - 1, k \in D
        PROVE  k + 1 \in D
    <3>1. k + 1 \in 1 .. n /\ (k + 1) - 1 = k /\ r[k] \in St
      BY <2>2
    <3>2. r[k + 1] \in St
      BY <1>2, <3>1
    <3> QED
      BY <3>1, <3>2
  <2> HIDE DEF D
  <2> QED
    BY <2>1, <2>2, BoundedInduction
<1>4. r \in [0 .. n -> St]
  <2>1. r = [k \in 0 .. n |-> r[k]]
    BY DEF r
  <2> QED
    BY <1>3, <2>1
<1>5. ASSUME NEW k \in 1 .. n
      PROVE  r[k] = F[<<r[k - 1], k>>]
  <2>1. k - 1 \in 0 .. n
    OBVIOUS
  <2> QED
    BY <1>2, <1>4, <2>1
<1>6. c[1 .. n] = r[n]
  BY DEF r
<1> QED
  BY <1>1, <1>4, <1>5, <1>6 DEF IsRun, Runs

Text == Seq(Symbols)

(* A part of a text.                                                       *)
LEMMA TextPart ==
    ASSUME NEW s \in Text, NEW m \in Nat \ {0}, NEW n \in Nat, n <= Len(s)
    PROVE  /\ SubSeq(s, m, n) \in Text
           /\ Len(SubSeq(s, m, n)) = IF m <= n THEN n - m + 1 ELSE 0
           /\ \A i \in 1 .. n - m + 1 : SubSeq(s, m, n)[i] = s[m + i - 1]
<1>1. \A i \in m .. n : s[i] \in Symbols
  BY DEF Text
<1> QED
  BY <1>1, SubSeqProperties DEF Text

-----------------------------------------------------------------------------
(* How the server reads a URI                                              *)

Start == [names |-> <<>>, open |-> FALSE]

Seen(s) == FoldLeft(Read, Start, s)

Reading == {x \in [names : Seq(Text), open : BOOLEAN] : x.open => x.names # <<>>}

(* The server reads a list of names.                                       *)
LEMMA ReadType ==
    ASSUME NEW x \in Reading, NEW c \in Symbols
    PROVE  Read(x, c) \in Reading
<1>1. CASE c = "/"
  BY <1>1 DEF Read, Reading
<1>2. CASE c # "/" /\ x.open
  <2> DEFINE n == Len(x.names)
             e == Append(x.names[n], c)
  <2>1. x.names \in Seq(Text) /\ n \in 1 .. Len(x.names) /\ e \in Text
    BY <1>2 DEF Reading, Text
  <2>2. [x.names EXCEPT ![n] = e] \in Seq(Text) /\ Len([x.names EXCEPT ![n] = e]) = Len(x.names)
    BY <2>1, ExceptSeq
  <2>3. Read(x, c) = [names |-> [x.names EXCEPT ![n] = e], open |-> x.open]
    BY <1>2 DEF Read, Reading
  <2> HIDE DEF n, e
  <2> QED
    BY <1>2, <2>1, <2>2, <2>3 DEF Reading
<1>3. CASE c # "/" /\ ~x.open
  BY <1>3 DEF Read, Reading, Text
<1> QED
  BY <1>1, <1>2, <1>3

(* Reading a URI goes from character to character.                         *)
LEMMA ReadRun ==
    ASSUME NEW s \in Text
    PROVE  \E r \in [0 .. Len(s) -> Reading] :
              /\ r[0] = Start
              /\ \A k \in 1 .. Len(s) : r[k] = Read(r[k - 1], s[k])
              /\ Seen(s) = r[Len(s)]
<1> DEFINE n == Len(s)
           F == [x \in Reading \X (1 .. n) |-> Read(x[1], s[x[2]])]
           Steps(h) == h = [S \in SUBSET DOMAIN s |->
                               IF S = {} THEN Start
                               ELSE Read(h[S \ {Max(S)}], s[Max(S)])]
           c == CHOOSE h : Steps(h)
<1>1. n \in Nat /\ DOMAIN s = 1 .. n /\ \A i \in 1 .. n : s[i] \in Symbols
  BY DEF Text
<1>2. Start \in Reading
  BY DEF Start, Reading
<1>3. \A x \in Reading, k \in 1 .. n : Read(x, s[k]) \in Reading
  BY <1>1, ReadType
<1>4. F \in [Reading \X (1 .. n) -> Reading]
  BY <1>3
<1>5. PICK g : IsFold(g, Reading, Start, n, F)
  <2>1. n \in Nat
    BY <1>1
  <2> HIDE DEF n, F
  <2> QED
    BY <2>1, <1>2, <1>4, FoldExists
<1>6. Steps(g)
  <2>1. ASSUME NEW S \in SUBSET (1 .. n), S # {}
        PROVE  g[S] = Read(g[S \ {Max(S)}], s[Max(S)])
    <3>1. Max(S) \in 1 .. n
      BY <1>1, <2>1, MaxOfInterval
    <3>2. g[S \ {Max(S)}] \in Reading
      BY <1>5 DEF IsFold
    <3>3. g[S] = F[<<g[S \ {Max(S)}], Max(S)>>]
      BY <1>5, <2>1 DEF IsFold
    <3> QED
      BY <1>1, <3>1, <3>2, <3>3
  <2>2. \A S \in SUBSET (1 .. n) :
           g[S] = IF S = {} THEN Start ELSE Read(g[S \ {Max(S)}], s[Max(S)])
    BY <1>5, <2>1 DEF IsFold
  <2> QED
    BY <1>1, <1>5, <2>2 DEF IsFold
<1>7. Steps(c)
  <2> HIDE DEF Steps
  <2> QED
    BY <1>6
<1>8. Seen(s) = c[1 .. n]
  <2>1. Seen(s) = c[DOMAIN s]
    BY DEF Seen, FoldLeft, MapThenFoldSet
  <2> QED
    BY <1>1, <2>1
<1>9. \A S \in SUBSET (1 .. n) :
         c[S] = IF S = {} THEN Start ELSE Read(c[S \ {Max(S)}], s[Max(S)])
  BY <1>1, <1>7
<1> HIDE DEF c
<1>10. c[{}] = Start
  BY <1>9
<1>11. Stepped(c, Reading, n, F)
  <2> SUFFICES ASSUME NEW S \in SUBSET (1 .. n), S # {}, c[S \ {Max(S)}] \in Reading
               PROVE  c[S] = F[<<c[S \ {Max(S)}], Max(S)>>]
    BY DEF Stepped
  <2>1. Max(S) \in 1 .. n
    BY <1>1, MaxOfInterval
  <2> QED
    BY <1>1, <1>9, <2>1
<1>12. PICK r : IsRun(r, Reading, Start, n, F) /\ c[1 .. n] = r[n]
  <2>1. n \in Nat
    BY <1>1
  <2> HIDE DEF n, F
  <2>2. Runs(c, Reading, Start, n, F)
    <3> HIDE DEF n, F, Steps
    <3> QED
      BY <1>2, <1>4, <1>10, <1>11, <2>1, FoldRun
  <2> QED
    BY <2>2 DEF Runs
<1>13. ASSUME NEW k \in 1 .. n
       PROVE  r[k] = Read(r[k - 1], s[k])
  <2>1. r[k] = F[<<r[k - 1], k>>]
    BY <1>12 DEF IsRun
  <2>2. r[k - 1] \in Reading
    <3>1. k - 1 \in 0 .. n
      BY <1>1
    <3> QED
      BY <1>12, <3>1 DEF IsRun
  <2> QED
    BY <2>1, <2>2
<1> QED
  BY <1>8, <1>12, <1>13 DEF IsRun

-----------------------------------------------------------------------------
(* The loops of the client over a path                                     *)

(* Escaping keeps the length and changes slashes only.                     *)
LEMMA EscapeType ==
    ASSUME NEW s \in Text
    PROVE  /\ Escape(s) \in Text /\ Len(Escape(s)) = Len(s)
           /\ \A i \in 1 .. Len(s) : Escape(s)[i] = IF s[i] = "/" THEN "%2F" ELSE s[i]
<1>1. \A i \in 1 .. Len(s) : (IF s[i] = "/" THEN "%2F" ELSE s[i]) \in Symbols
  BY WebDavAssumption DEF Text
<1>2. Escape(s) = [i \in 1 .. Len(s) |-> IF s[i] = "/" THEN "%2F" ELSE s[i]] /\ Len(s) \in Nat
  BY DEF Escape, Text
<1> QED
  BY <1>1, <1>2 DEF Text

Cutting == [start : Nat \ {0}, names : Seq(Text)]

Copying == [start : Nat \ {0}, out : Text]

(* A step of either loop keeps the types of its variables.                 *)
LEMMA CutType ==
    ASSUME NEW s \in Text, NEW x \in Cutting, NEW i \in 1 .. Len(s)
    PROVE  Cut(s, x, i) \in Cutting
<1>1. Escape(SubSeq(s, x.start, i - 1)) \in Text
  <2>1. x.start \in Nat \ {0} /\ i - 1 \in Nat /\ i - 1 <= Len(s)
    BY DEF Cutting, Text
  <2> QED
    BY <2>1, TextPart, EscapeType
<1>2. i \in Nat
  BY DEF Text
<1> QED
  BY <1>1, <1>2 DEF Cut, Cutting

(* The same for _EncodeWithoutSeparator.                                   *)
LEMMA CopyType ==
    ASSUME NEW s \in Text, NEW x \in Copying, NEW i \in 1 .. Len(s)
    PROVE  Copy(s, x, i) \in Copying
<1>1. Escape(SubSeq(s, x.start, i - 1)) \in Text
  <2>1. x.start \in Nat \ {0} /\ i - 1 \in Nat /\ i - 1 <= Len(s)
    BY DEF Copying, Text
  <2> QED
    BY <2>1, TextPart, EscapeType
<1>2. i \in Nat
  BY DEF Text
<1>3. x.out \in Text /\ Append(x.out, "/") \in Text /\ <<"/">> \in Text
  BY WebDavAssumption DEF Copying, Text
<1>4. x.out \o Escape(SubSeq(s, x.start, i - 1)) \o <<"/">> \in Text
  BY <1>1, <1>3 DEF Text
<1> DEFINE new == x.out \o Escape(SubSeq(s, x.start, i - 1)) \o <<"/">>
<1>5. Copy(s, x, i) \in {x, [x EXCEPT !.out = Append(@, "/")], [start |-> i + 1, out |-> new]}
  BY DEF Copy
<1> HIDE DEF new
<1>6. [start |-> i + 1, out |-> new] \in Copying
  BY <1>2, <1>4 DEF Copying, new
<1>7. [x EXCEPT !.out = Append(@, "/")] \in Copying
  BY <1>3 DEF Copying
<1> QED
  BY <1>5, <1>6, <1>7

CutStart == [start |-> 1, names |-> <<>>]

CopyStart == [start |-> 1, out |-> <<>>]

CutAll(s) == FoldLeftDomain(LAMBDA state, i : Cut(s, state, i), CutStart, s)

CopyAll(s) == FoldLeftDomain(LAMBDA state, i : Copy(s, state, i), CopyStart, s)

(* _EnsureWebDAVDirectories goes from character to character.              *)
LEMMA CutRun ==
    ASSUME NEW s \in Text
    PROVE  \E r \in [0 .. Len(s) -> Cutting] :
              /\ r[0] = CutStart
              /\ \A k \in 1 .. Len(s) : r[k] = Cut(s, r[k - 1], k)
              /\ CutAll(s) = r[Len(s)]
<1> DEFINE n == Len(s)
           F == [x \in Cutting \X (1 .. n) |-> Cut(s, x[1], x[2])]
           Steps(h) == h = [S \in SUBSET DOMAIN [i \in DOMAIN s |-> i] |->
                               IF S = {} THEN CutStart
                               ELSE Cut(s, h[S \ {Max(S)}], [i \in DOMAIN s |-> i][Max(S)])]
           c == CHOOSE h : Steps(h)
<1>1. n \in Nat /\ DOMAIN [i \in DOMAIN s |-> i] = 1 .. n /\ \A i \in 1 .. n : s[i] \in Symbols
  BY DEF Text
<1>2. CutStart \in Cutting
  BY DEF Cutting, CutStart
<1>3. \A x \in Cutting, k \in 1 .. n : Cut(s, x, k) \in Cutting
  BY <1>1, CutType
<1>4. F \in [Cutting \X (1 .. n) -> Cutting]
  BY <1>3
<1>5. PICK g : IsFold(g, Cutting, CutStart, n, F)
  <2>1. n \in Nat
    BY <1>1
  <2> HIDE DEF n, F
  <2> QED
    BY <2>1, <1>2, <1>4, FoldExists
<1>6. Steps(g)
  <2>1. ASSUME NEW S \in SUBSET (1 .. n), S # {}
        PROVE  g[S] = Cut(s, g[S \ {Max(S)}], [i \in DOMAIN s |-> i][Max(S)])
    <3>1. Max(S) \in 1 .. n
      BY <1>1, <2>1, MaxOfInterval
    <3>2. g[S \ {Max(S)}] \in Cutting
      BY <1>5 DEF IsFold
    <3>3. g[S] = F[<<g[S \ {Max(S)}], Max(S)>>]
      BY <1>5, <2>1 DEF IsFold
    <3> QED
      BY <1>1, <3>1, <3>2, <3>3
  <2>2. \A S \in SUBSET (1 .. n) :
           g[S] = IF S = {} THEN CutStart ELSE Cut(s, g[S \ {Max(S)}], [i \in DOMAIN s |-> i][Max(S)])
    BY <1>5, <2>1 DEF IsFold
  <2> QED
    BY <1>1, <1>5, <2>2 DEF IsFold
<1>7. Steps(c)
  <2> HIDE DEF Steps
  <2> QED
    BY <1>6
<1>8. CutAll(s) = c[1 .. n]
  <2>1. CutAll(s) = c[DOMAIN [i \in DOMAIN s |-> i]]
    BY DEF CutAll, FoldLeftDomain, FoldLeft, MapThenFoldSet
  <2> QED
    BY <1>1, <2>1
<1>9. \A S \in SUBSET (1 .. n) :
         c[S] = IF S = {} THEN CutStart ELSE Cut(s, c[S \ {Max(S)}], [i \in DOMAIN s |-> i][Max(S)])
  BY <1>1, <1>7
<1> HIDE DEF c
<1>10. c[{}] = CutStart
  BY <1>9
<1>11. Stepped(c, Cutting, n, F)
  <2> SUFFICES ASSUME NEW S \in SUBSET (1 .. n), S # {}, c[S \ {Max(S)}] \in Cutting
               PROVE  c[S] = F[<<c[S \ {Max(S)}], Max(S)>>]
    BY DEF Stepped
  <2>1. Max(S) \in 1 .. n
    BY <1>1, MaxOfInterval
  <2> QED
    BY <1>1, <1>9, <2>1
<1>12. PICK r : IsRun(r, Cutting, CutStart, n, F) /\ c[1 .. n] = r[n]
  <2>1. n \in Nat
    BY <1>1
  <2> HIDE DEF n, F
  <2>2. Runs(c, Cutting, CutStart, n, F)
    <3> HIDE DEF n, F, Steps
    <3> QED
      BY <1>2, <1>4, <1>10, <1>11, <2>1, FoldRun
  <2> QED
    BY <2>2 DEF Runs
<1>13. ASSUME NEW k \in 1 .. n
       PROVE  r[k] = Cut(s, r[k - 1], k)
  <2>1. r[k] = F[<<r[k - 1], k>>]
    BY <1>12 DEF IsRun
  <2>2. r[k - 1] \in Cutting
    <3>1. k - 1 \in 0 .. n
      BY <1>1
    <3> QED
      BY <1>12, <3>1 DEF IsRun
  <2> QED
    BY <2>1, <2>2
<1> QED
  BY <1>8, <1>12, <1>13 DEF IsRun

(* And so does _EncodeWithoutSeparator.                                    *)
LEMMA CopyRun ==
    ASSUME NEW s \in Text
    PROVE  \E r \in [0 .. Len(s) -> Copying] :
              /\ r[0] = CopyStart
              /\ \A k \in 1 .. Len(s) : r[k] = Copy(s, r[k - 1], k)
              /\ CopyAll(s) = r[Len(s)]
<1> DEFINE n == Len(s)
           F == [x \in Copying \X (1 .. n) |-> Copy(s, x[1], x[2])]
           Steps(h) == h = [S \in SUBSET DOMAIN [i \in DOMAIN s |-> i] |->
                               IF S = {} THEN CopyStart
                               ELSE Copy(s, h[S \ {Max(S)}], [i \in DOMAIN s |-> i][Max(S)])]
           c == CHOOSE h : Steps(h)
<1>1. n \in Nat /\ DOMAIN [i \in DOMAIN s |-> i] = 1 .. n /\ \A i \in 1 .. n : s[i] \in Symbols
  BY DEF Text
<1>2. CopyStart \in Copying
  BY DEF Copying, CopyStart, Text
<1>3. \A x \in Copying, k \in 1 .. n : Copy(s, x, k) \in Copying
  BY <1>1, CopyType
<1>4. F \in [Copying \X (1 .. n) -> Copying]
  BY <1>3
<1>5. PICK g : IsFold(g, Copying, CopyStart, n, F)
  <2>1. n \in Nat
    BY <1>1
  <2> HIDE DEF n, F
  <2> QED
    BY <2>1, <1>2, <1>4, FoldExists
<1>6. Steps(g)
  <2>1. ASSUME NEW S \in SUBSET (1 .. n), S # {}
        PROVE  g[S] = Copy(s, g[S \ {Max(S)}], [i \in DOMAIN s |-> i][Max(S)])
    <3>1. Max(S) \in 1 .. n
      BY <1>1, <2>1, MaxOfInterval
    <3>2. g[S \ {Max(S)}] \in Copying
      BY <1>5 DEF IsFold
    <3>3. g[S] = F[<<g[S \ {Max(S)}], Max(S)>>]
      BY <1>5, <2>1 DEF IsFold
    <3> QED
      BY <1>1, <3>1, <3>2, <3>3
  <2>2. \A S \in SUBSET (1 .. n) :
           g[S] = IF S = {} THEN CopyStart ELSE Copy(s, g[S \ {Max(S)}], [i \in DOMAIN s |-> i][Max(S)])
    BY <1>5, <2>1 DEF IsFold
  <2> QED
    BY <1>1, <1>5, <2>2 DEF IsFold
<1>7. Steps(c)
  <2> HIDE DEF Steps
  <2> QED
    BY <1>6
<1>8. CopyAll(s) = c[1 .. n]
  <2>1. CopyAll(s) = c[DOMAIN [i \in DOMAIN s |-> i]]
    BY DEF CopyAll, FoldLeftDomain, FoldLeft, MapThenFoldSet
  <2> QED
    BY <1>1, <2>1
<1>9. \A S \in SUBSET (1 .. n) :
         c[S] = IF S = {} THEN CopyStart ELSE Copy(s, c[S \ {Max(S)}], [i \in DOMAIN s |-> i][Max(S)])
  BY <1>1, <1>7
<1> HIDE DEF c
<1>10. c[{}] = CopyStart
  BY <1>9
<1>11. Stepped(c, Copying, n, F)
  <2> SUFFICES ASSUME NEW S \in SUBSET (1 .. n), S # {}, c[S \ {Max(S)}] \in Copying
               PROVE  c[S] = F[<<c[S \ {Max(S)}], Max(S)>>]
    BY DEF Stepped
  <2>1. Max(S) \in 1 .. n
    BY <1>1, MaxOfInterval
  <2> QED
    BY <1>1, <1>9, <2>1
<1>12. PICK r : IsRun(r, Copying, CopyStart, n, F) /\ c[1 .. n] = r[n]
  <2>1. n \in Nat
    BY <1>1
  <2> HIDE DEF n, F
  <2>2. Runs(c, Copying, CopyStart, n, F)
    <3> HIDE DEF n, F, Steps
    <3> QED
      BY <1>2, <1>4, <1>10, <1>11, <2>1, FoldRun
  <2> QED
    BY <2>2 DEF Runs
<1>13. ASSUME NEW k \in 1 .. n
       PROVE  r[k] = Copy(s, r[k - 1], k)
  <2>1. r[k] = F[<<r[k - 1], k>>]
    BY <1>12 DEF IsRun
  <2>2. r[k - 1] \in Copying
    <3>1. k - 1 \in 0 .. n
      BY <1>1
    <3> QED
      BY <1>12, <3>1 DEF IsRun
  <2> QED
    BY <2>1, <2>2
<1> QED
  BY <1>8, <1>12, <1>13 DEF IsRun

JoinStart == <<>>

JoinOne(names, uri, i) == IF i = 1 THEN names[i] ELSE uri \o <<"/">> \o names[i]

(* What totaluri becomes is a text.                                        *)
LEMMA JoinType ==
    ASSUME NEW names \in Seq(Text), NEW uri \in Text, NEW i \in 1 .. Len(names)
    PROVE  JoinOne(names, uri, i) \in Text
<1>1. names[i] \in Text /\ <<"/">> \in Text
  BY WebDavAssumption DEF Text
<1> QED
  BY <1>1 DEF JoinOne, Text

(* The URI of a directory grows by one name at a time.                     *)
LEMMA JoinRun ==
    ASSUME NEW names \in Seq(Text)
    PROVE  \E r \in [0 .. Len(names) -> Text] :
              /\ r[0] = JoinStart
              /\ \A k \in 1 .. Len(names) : r[k] = JoinOne(names, r[k - 1], k)
              /\ Joined(names) = r[Len(names)]
<1> DEFINE n == Len(names)
           F == [x \in Text \X (1 .. n) |-> JoinOne(names, x[1], x[2])]
           Steps(h) == h = [S \in SUBSET DOMAIN [i \in DOMAIN names |-> i] |->
                               IF S = {} THEN JoinStart
                               ELSE JoinOne(names, h[S \ {Max(S)}], [i \in DOMAIN names |-> i][Max(S)])]
           c == CHOOSE h : Steps(h)
<1>1. n \in Nat /\ DOMAIN [i \in DOMAIN names |-> i] = 1 .. n /\ \A i \in 1 .. n : names[i] \in Text
  BY DEF Text
<1>2. JoinStart \in Text
  BY DEF Text, JoinStart
<1>3. \A x \in Text, k \in 1 .. n : JoinOne(names, x, k) \in Text
  BY <1>1, JoinType
<1>4. F \in [Text \X (1 .. n) -> Text]
  BY <1>3
<1>5. PICK g : IsFold(g, Text, JoinStart, n, F)
  <2>1. n \in Nat
    BY <1>1
  <2> HIDE DEF n, F
  <2> QED
    BY <2>1, <1>2, <1>4, FoldExists
<1>6. Steps(g)
  <2>1. ASSUME NEW S \in SUBSET (1 .. n), S # {}
        PROVE  g[S] = JoinOne(names, g[S \ {Max(S)}], [i \in DOMAIN names |-> i][Max(S)])
    <3>1. Max(S) \in 1 .. n
      BY <1>1, <2>1, MaxOfInterval
    <3>2. g[S \ {Max(S)}] \in Text
      BY <1>5 DEF IsFold
    <3>3. g[S] = F[<<g[S \ {Max(S)}], Max(S)>>]
      BY <1>5, <2>1 DEF IsFold
    <3> QED
      BY <1>1, <3>1, <3>2, <3>3
  <2>2. \A S \in SUBSET (1 .. n) :
           g[S] = IF S = {} THEN JoinStart ELSE JoinOne(names, g[S \ {Max(S)}], [i \in DOMAIN names |-> i][Max(S)])
    BY <1>5, <2>1 DEF IsFold
  <2> QED
    BY <1>1, <1>5, <2>2 DEF IsFold
<1>7. Steps(c)
  <2> HIDE DEF Steps
  <2> QED
    BY <1>6
<1>8. Joined(names) = c[1 .. n]
  <2>1. Joined(names) = c[DOMAIN [i \in DOMAIN names |-> i]]
    BY DEF Joined, JoinOne, JoinStart, FoldLeftDomain, FoldLeft, MapThenFoldSet
  <2> QED
    BY <1>1, <2>1
<1>9. \A S \in SUBSET (1 .. n) :
         c[S] = IF S = {} THEN JoinStart ELSE JoinOne(names, c[S \ {Max(S)}], [i \in DOMAIN names |-> i][Max(S)])
  BY <1>1, <1>7
<1> HIDE DEF c
<1>10. c[{}] = JoinStart
  BY <1>9
<1>11. Stepped(c, Text, n, F)
  <2> SUFFICES ASSUME NEW S \in SUBSET (1 .. n), S # {}, c[S \ {Max(S)}] \in Text
               PROVE  c[S] = F[<<c[S \ {Max(S)}], Max(S)>>]
    BY DEF Stepped
  <2>1. Max(S) \in 1 .. n
    BY <1>1, MaxOfInterval
  <2> QED
    BY <1>1, <1>9, <2>1
<1>12. PICK r : IsRun(r, Text, JoinStart, n, F) /\ c[1 .. n] = r[n]
  <2>1. n \in Nat
    BY <1>1
  <2> HIDE DEF n, F
  <2>2. Runs(c, Text, JoinStart, n, F)
    <3> HIDE DEF n, F, Steps
    <3> QED
      BY <1>2, <1>4, <1>10, <1>11, <2>1, FoldRun
  <2> QED
    BY <2>2 DEF Runs
<1>13. ASSUME NEW k \in 1 .. n
       PROVE  r[k] = JoinOne(names, r[k - 1], k)
  <2>1. r[k] = F[<<r[k - 1], k>>]
    BY <1>12 DEF IsRun
  <2>2. r[k - 1] \in Text
    <3>1. k - 1 \in 0 .. n
      BY <1>1
    <3> QED
      BY <1>12, <3>1 DEF IsRun
  <2> QED
    BY <2>1, <2>2
<1> QED
  BY <1>8, <1>12, <1>13 DEF IsRun

-----------------------------------------------------------------------------
(* Sequences                                                               *)

(* A concatenation ends as its second part does.                           *)
LEMMA ConcatAppend ==
    ASSUME NEW S, NEW s \in Seq(S), NEW u \in Seq(S), NEW c \in S
    PROVE  s \o Append(u, c) = Append(s \o u, c)
<1>1. s \o Append(u, c) \in Seq(S) /\ Append(s \o u, c) \in Seq(S)
  OBVIOUS
<1>2. Len(s \o Append(u, c)) = Len(Append(s \o u, c))
  OBVIOUS
<1>3. \A i \in 1 .. Len(s \o Append(u, c)) : (s \o Append(u, c))[i] = Append(s \o u, c)[i]
  OBVIOUS
<1> QED
  BY <1>1, <1>2, <1>3, SeqEqual

(* The first n elements of a sequence.                                     *)
LEMMA FirstPart ==
    ASSUME NEW S, NEW s \in Seq(S), NEW n \in 0 .. Len(s)
    PROVE  /\ SubSeq(s, 1, n) \in Seq(S) /\ Len(SubSeq(s, 1, n)) = n
           /\ \A i \in 1 .. n : SubSeq(s, 1, n)[i] = s[i]
<1>1. \A i \in 1 .. n : s[i] \in S
  OBVIOUS
<1> QED
  BY <1>1, SubSeqProperties

(* The first n + 1 elements are the first n and one more.                  *)
LEMMA FirstAppend ==
    ASSUME NEW S, NEW s \in Seq(S), NEW n \in 0 .. Len(s) - 1
    PROVE  SubSeq(s, 1, n + 1) = Append(SubSeq(s, 1, n), s[n + 1])
<1>1. /\ SubSeq(s, 1, n) \in Seq(S) /\ Len(SubSeq(s, 1, n)) = n
      /\ \A i \in 1 .. n : SubSeq(s, 1, n)[i] = s[i]
  BY FirstPart
<1>2. /\ SubSeq(s, 1, n + 1) \in Seq(S) /\ Len(SubSeq(s, 1, n + 1)) = n + 1
      /\ \A i \in 1 .. n + 1 : SubSeq(s, 1, n + 1)[i] = s[i]
  <2>1. n + 1 \in 0 .. Len(s)
    OBVIOUS
  <2> QED
    BY <2>1, FirstPart
<1>3. Append(SubSeq(s, 1, n), s[n + 1]) \in Seq(S)
  BY <1>1
<1>4. \A i \in 1 .. n + 1 : SubSeq(s, 1, n + 1)[i] = Append(SubSeq(s, 1, n), s[n + 1])[i]
  BY <1>1, <1>2
<1>5. Len(Append(SubSeq(s, 1, n), s[n + 1])) = n + 1
  BY <1>1
<1> QED
  BY <1>2, <1>3, <1>4, <1>5, SeqEqual

(* A function on 1 .. n is a sequence.                                     *)
LEMMA FunctionIsSeq ==
    ASSUME NEW S, NEW n \in Nat, NEW f \in [1 .. n -> S]
    PROVE  f \in Seq(S) /\ Len(f) = n
OBVIOUS

(* Front undoes Append.                                                    *)
LEMMA FrontOfAppend ==
    ASSUME NEW S, NEW s \in Seq(S), NEW c \in S
    PROVE  Front(Append(s, c)) = s
<1> DEFINE t == Append(s, c)
           n == Len(s)
           f == SubSeq(t, 1, n)
<1>1. t \in Seq(S) /\ Len(t) = n + 1 /\ n \in Nat /\ \A i \in 1 .. n : t[i] = s[i]
  OBVIOUS
<1>2. f \in Seq(S) /\ Len(f) = n /\ \A i \in 1 .. n : f[i] = t[i]
  <2>1. n \in 0 .. Len(t)
    BY <1>1
  <2> HIDE DEF t, n
  <2> QED
    BY <1>1, <2>1, FirstPart
<1>3. f = s
  <2> HIDE DEF f, t
  <2> QED
    BY <1>1, <1>2, SeqEqual
<1> QED
  BY <1>1, <1>3 DEF Front

(* The front and the last of the first elements.                           *)
LEMMA FrontOfFirst ==
    ASSUME NEW S, NEW s \in Seq(S), NEW n \in 0 .. Len(s) - 1
    PROVE  /\ SubSeq(s, 1, n + 1) # <<>>
           /\ Front(SubSeq(s, 1, n + 1)) = SubSeq(s, 1, n)
           /\ Last(SubSeq(s, 1, n + 1)) = s[n + 1]
<1> DEFINE f == SubSeq(s, 1, n)
<1>1. n \in 0 .. Len(s) /\ s[n + 1] \in S /\ n + 1 \in 0 .. Len(s) /\ n \in Nat
  OBVIOUS
<1>2. f \in Seq(S) /\ SubSeq(s, 1, n + 1) = Append(f, s[n + 1])
  BY <1>1, FirstPart, FirstAppend
<1> HIDE DEF f
<1>3. Append(f, s[n + 1]) # <<>> /\ Last(Append(f, s[n + 1])) = s[n + 1]
  BY <1>1, <1>2 DEF Last
<1>4. Front(Append(f, s[n + 1])) = f
  BY <1>1, <1>2, FrontOfAppend
<1> QED
  BY <1>2, <1>3, <1>4 DEF f

(* A prefix agrees element by element.                                     *)
LEMMA PrefixByElement ==
    ASSUME NEW S, NEW s \in Seq(S), NEW t \in Seq(S)
    PROVE  IsPrefix(s, t) <=> Len(s) <= Len(t) /\ \A i \in 1 .. Len(s) : s[i] = t[i]
<1>1. CASE Len(s) <= Len(t)
  <2> DEFINE n == Len(s)
             u == SubSeq(s, 1, n)
             v == SubSeq(t, 1, n)
  <2>1. n \in 0 .. Len(s) /\ n \in 0 .. Len(t)
    BY <1>1
  <2>2. u \in Seq(S) /\ Len(u) = n /\ \A i \in 1 .. n : u[i] = s[i]
    BY <2>1, FirstPart
  <2>3. v \in Seq(S) /\ Len(v) = n /\ \A i \in 1 .. n : v[i] = t[i]
    BY <2>1, FirstPart
  <2>4. IsPrefix(s, t) <=> u = v
    BY <1>1 DEF IsPrefix
  <2> HIDE DEF u, v
  <2>5. (\A i \in 1 .. n : s[i] = t[i]) => u = v
    BY <2>2, <2>3, SeqEqual
  <2>6. u = v => \A i \in 1 .. n : s[i] = t[i]
    BY <2>2, <2>3
  <2> QED
    BY <1>1, <2>4, <2>5, <2>6
<1>2. CASE ~(Len(s) <= Len(t))
  BY <1>2 DEF IsPrefix
<1> QED
  BY <1>1, <1>2

-----------------------------------------------------------------------------
(* What the server sees of a URI                                           *)

(* Of an empty URI the server has seen nothing.                            *)
LEMMA SeenEmpty == Seen(<<>>) = Start
<1>1. <<>> \in Text /\ Len(<<>>) = 0
  BY DEF Text
<1> QED
  BY <1>1, ReadRun

(* What the server sees of a text is a list of names.                      *)
LEMMA SeenType ==
    ASSUME NEW s \in Text
    PROVE  Seen(s) \in Reading
<1>1. Len(s) \in 0 .. Len(s)
  BY DEF Text
<1> QED
  BY <1>1, ReadRun

(* The server reads one character more.                                    *)
LEMMA SeenAppend ==
    ASSUME NEW s \in Text, NEW c \in Symbols
    PROVE  Seen(Append(s, c)) = Read(Seen(s), c)
<1> DEFINE t == Append(s, c)
           n == Len(s)
<1>1. t \in Text /\ Len(t) = n + 1 /\ n \in Nat /\ t[n + 1] = c /\ \A k \in 1 .. n : t[k] = s[k]
  BY DEF Text
<1>2. PICK r \in [0 .. n -> Reading] :
         /\ r[0] = Start
         /\ \A k \in 1 .. n : r[k] = Read(r[k - 1], s[k])
         /\ Seen(s) = r[n]
  BY ReadRun
<1>3. PICK q \in [0 .. n + 1 -> Reading] :
         /\ q[0] = Start
         /\ \A k \in 1 .. n + 1 : q[k] = Read(q[k - 1], t[k])
         /\ Seen(t) = q[n + 1]
  <2> HIDE DEF t, n
  <2> QED
    BY <1>1, ReadRun
<1> DEFINE D == {k \in 0 .. n : r[k] = q[k]}
<1>4. 0 .. n \subseteq D
  <2>1. 0 \in D
    BY <1>1, <1>2, <1>3
  <2>2. ASSUME NEW k \in 0 .. n - 1, k \in D
        PROVE  k + 1 \in D
    <3>1. k + 1 \in 1 .. n /\ k + 1 \in 1 .. n + 1 /\ (k + 1) - 1 = k /\ t[k + 1] = s[k + 1]
      BY <1>1
    <3>2. r[k + 1] = Read(r[k], s[k + 1]) /\ q[k + 1] = Read(q[k], s[k + 1])
      BY <1>2, <1>3, <3>1
    <3> QED
      BY <2>2, <3>1, <3>2
  <2> HIDE DEF D
  <2> QED
    BY <1>1, <2>1, <2>2, BoundedInduction
<1>5. q[n] = Seen(s)
  BY <1>1, <1>2, <1>4
<1>6. q[n + 1] = Read(q[n], c)
  BY <1>1, <1>3
<1> QED
  BY <1>3, <1>5, <1>6

(* A slash closes the name that is being read.                             *)
LEMMA SeenSlash ==
    ASSUME NEW s \in Text
    PROVE  Seen(Append(s, "/")) = [names |-> Seen(s).names, open |-> FALSE]
<1>1. Seen(Append(s, "/")) = Read(Seen(s), "/") /\ Seen(s) \in Reading
  BY SeenAppend, SeenType, WebDavAssumption
<1> QED
  BY <1>1 DEF Read, Reading

(* After a slash no name is being read.                                    *)
LEMMA EndsClosed ==
    ASSUME NEW s \in Text, EndsInSlash(s)
    PROVE  Seen(s) = [names |-> Segments(s), open |-> FALSE]
<1>1. Segments(s) = Seen(s).names
  BY DEF Segments, Seen, Start
<1>2. CASE s = <<>>
  BY <1>1, <1>2, SeenEmpty DEF Start
<1>3. CASE s # <<>>
  <2>1. PICK u \in Text, c \in Symbols : s = Append(u, c)
    BY <1>3, SequenceEmptyOrAppend DEF Text
  <2>2. c = "/"
    BY <1>3, <2>1 DEF EndsInSlash, Last, Text
  <2> QED
    BY <1>1, <2>1, <2>2, SeenSlash
<1> QED
  BY <1>2, <1>3

NoSlash(s) == \A i \in 1 .. Len(s) : s[i] # "/"

Name == {s \in Text : s # <<>> /\ NoSlash(s)}

(* A name without slashes after a slash is seen as one name.               *)
LEMMA SeenName ==
    ASSUME NEW s \in Text, ~Seen(s).open, NEW x \in Name
    PROVE  Seen(s \o x) = [names |-> Append(Seen(s).names, x), open |-> TRUE]
<1> DEFINE n == Len(x)
           names == Seen(s).names
           Holds(k) == Seen(s \o SubSeq(x, 1, k)) = [names |-> Append(names, SubSeq(x, 1, k)), open |-> TRUE]
           D == {k \in 0 .. n : k > 0 => Holds(k)}
<1>1. x \in Text /\ n \in Nat \ {0} /\ NoSlash(x)
  BY DEF Name, Text
<1>2. Seen(s) \in Reading /\ names \in Seq(Text)
  BY SeenType DEF Reading
<1>3. ASSUME NEW k \in 0 .. n - 1, k \in D
      PROVE  k + 1 \in D
  <2> DEFINE u == SubSeq(x, 1, k)
             c == x[k + 1]
  <2>1. k + 1 \in 1 .. n /\ k + 1 \in 0 .. n /\ k \in 0 .. n /\ c \in Symbols /\ c # "/"
    BY <1>1 DEF NoSlash, Text
  <2>2. u \in Text /\ Len(u) = k
    BY <1>1, <2>1, FirstPart DEF Text
  <2>3. SubSeq(x, 1, k + 1) = Append(u, c)
    BY <1>1, FirstAppend DEF Text
  <2>4. s \o SubSeq(x, 1, k + 1) = Append(s \o u, c) /\ s \o u \in Text
    BY <2>1, <2>2, <2>3, ConcatAppend DEF Text
  <2> HIDE DEF u, c, Holds
  <2>5. Seen(s \o SubSeq(x, 1, k + 1)) = Read(Seen(s \o u), c)
    BY <2>1, <2>4, SeenAppend
  <2>6. CASE k = 0
    <3>1. u = <<>> /\ s \o u = s
      BY <2>2, <2>6 DEF Text
    <3>2. Append(u, c) = <<c>>
      BY <3>1
    <3>3. Read(Seen(s), c) = [names |-> Append(names, <<c>>), open |-> TRUE]
      BY <2>1 DEF Read
    <3>4. Holds(k + 1)
      BY <2>3, <2>5, <3>1, <3>2, <3>3 DEF Holds
    <3> QED
      BY <2>1, <3>4
  <2>7. CASE k > 0
    <3>1. Seen(s \o u) = [names |-> Append(names, u), open |-> TRUE]
      BY <1>3, <2>7 DEF Holds, u
    <3> DEFINE all == Append(names, u)
    <3>2. all \in Seq(Text) /\ Len(all) = Len(names) + 1 /\ all[Len(all)] = u
      BY <1>2, <2>2
    <3>3. Read(Seen(s \o u), c) = [names |-> [all EXCEPT ![Len(all)] = Append(u, c)], open |-> TRUE]
      <4> HIDE DEF all
      <4>1. Read([names |-> all, open |-> TRUE], c)
              = [names |-> [all EXCEPT ![Len(all)] = Append(all[Len(all)], c)], open |-> TRUE]
        BY <2>1 DEF Read
      <4> QED
        BY <3>1, <3>2, <4>1 DEF all
    <3>4. [all EXCEPT ![Len(all)] = Append(u, c)] = Append(names, Append(u, c))
      <4>1. Append(u, c) \in Text
        BY <2>1, <2>2 DEF Text
      <4> DEFINE v == Append(u, c)
                 a == [all EXCEPT ![Len(all)] = v]
      <4> HIDE DEF v
      <4>2. v \in Text
        BY <4>1 DEF v
      <4>3. a \in Seq(Text) /\ Append(names, v) \in Seq(Text) /\ Len(a) = Len(Append(names, v))
        BY <1>2, <3>2, <4>2
      <4>4. ASSUME NEW i \in 1 .. Len(a)
            PROVE  a[i] = Append(names, v)[i]
        <5>1. Len(a) = Len(names) + 1 /\ Len(names) \in Nat
          BY <1>2, <3>2, <4>2
        <5>2. CASE i = Len(names) + 1
          BY <1>2, <3>2, <4>2, <5>1, <5>2
        <5>3. CASE i \in 1 .. Len(names)
          <6>1. all[i] = names[i] /\ Append(names, v)[i] = names[i]
            BY <1>2, <2>2, <4>2, <5>3
          <6>2. a[i] = all[i]
            <7> HIDE DEF all
            <7> QED
              BY <3>2, <5>1, <5>3
          <6> QED
            BY <6>1, <6>2
        <5> QED
          BY <5>1, <5>2, <5>3
      <4>5. a = Append(names, v)
        <5> HIDE DEF a
        <5> QED
          BY <4>3, <4>4, SeqEqual
      <4> QED
        BY <4>5 DEF v
    <3>5. Holds(k + 1)
      BY <2>3, <2>5, <3>3, <3>4 DEF Holds
    <3> QED
      BY <2>1, <3>5
  <2> QED
    BY <2>1, <2>6, <2>7
<1>4. 0 .. n \subseteq D
  <2>1. 0 \in D
    BY <1>1
  <2> HIDE DEF D
  <2> QED
    BY <1>1, <1>3, <2>1, BoundedInduction
<1>5. Holds(n)
  <2> HIDE DEF Holds
  <2> QED
    BY <1>1, <1>4
<1>6. SubSeq(x, 1, n) = x
  BY <1>1, SubSeqFull DEF Text
<1> QED
  BY <1>5, <1>6

-----------------------------------------------------------------------------
(* What the client makes of a path                                         *)

(* What is not empty is a name when it is escaped.                         *)
LEMMA EscapeName ==
    ASSUME NEW s \in Text, s # <<>>
    PROVE  Escape(s) \in Name
<1>1. /\ Escape(s) \in Text /\ Len(Escape(s)) = Len(s)
      /\ \A i \in 1 .. Len(s) : Escape(s)[i] = IF s[i] = "/" THEN "%2F" ELSE s[i]
  BY EscapeType
<1>2. Escape(s) # <<>>
  BY <1>1 DEF Text
<1> HIDE DEF Escape
<1> QED
  BY <1>1, <1>2 DEF Name, NoSlash

(* Nothing is escaped to nothing.                                          *)
LEMMA EscapeEmpty == Escape(<<>>) = <<>>
<1>1. <<>> \in Text /\ Len(<<>>) = 0
  BY DEF Text
<1>2. Escape(<<>>) \in Text /\ Len(Escape(<<>>)) = 0
  BY <1>1, EscapeType
<1> QED
  BY <1>2 DEF Text

(* The loop of _EnsureWebDAVDirectories and that of _EncodeWithoutSeparator *)
(* cut at the same places, so that the server takes the encoded path apart *)
(* into the names of the directories that were made.                       *)
Agree(x, y, k) ==
    /\ x.start = y.start /\ x.start <= k + 1
    /\ x.names \in Seq(Name)
    /\ Seen(y.out) = [names |-> x.names, open |-> FALSE]
    /\ EndsInSlash(y.out)

(* The next character keeps the two loops together, whether it is a slash  *)
(* or not, and whether the slash comes after a name or not.                *)
LEMMA AgreeStep ==
    ASSUME NEW s \in Text, NEW i \in 1 .. Len(s), NEW x \in Cutting, NEW y \in Copying,
           Agree(x, y, i - 1)
    PROVE  Agree(Cut(s, x, i), Copy(s, y, i), i)
<1>1. /\ i \in Nat \ {0} /\ x.start \in Nat \ {0} /\ x.start = y.start /\ x.start <= i
      /\ x.names \in Seq(Name) /\ y.out \in Text
      /\ Seen(y.out) = [names |-> x.names, open |-> FALSE]
      /\ EndsInSlash(y.out)
  BY DEF Agree, Cutting, Copying, Text
<1>2. CASE s[i] # "/"
  <2>1. Cut(s, x, i) = x /\ Copy(s, y, i) = y
    BY <1>2 DEF Cut, Copy
  <2> QED
    BY <1>1, <2>1 DEF Agree
<1>3. CASE s[i] = "/" /\ x.start = i
  <2> DEFINE out == Append(y.out, "/")
  <2>1. Cut(s, x, i) = x /\ Copy(s, y, i) = [start |-> y.start, out |-> out]
    BY <1>1, <1>3 DEF Cut, Copy, Copying
  <2>2. Seen(out) = [names |-> x.names, open |-> FALSE]
    <3>1. Seen(out) = [names |-> Seen(y.out).names, open |-> FALSE]
      BY <1>1, SeenSlash
    <3>2. Seen(y.out).names = x.names
      BY <1>1
    <3> QED
      BY <3>1, <3>2
  <2>3. EndsInSlash(out)
    BY <1>1, WebDavAssumption DEF EndsInSlash, Last, Text
  <2> QED
    BY <1>1, <2>1, <2>2, <2>3 DEF Agree
<1>4. CASE s[i] = "/" /\ x.start # i
  <2> DEFINE piece == SubSeq(s, x.start, i - 1)
             name == Escape(piece)
             out == y.out \o name \o <<"/">>
  <2>1. piece \in Text /\ piece # <<>>
    <3>1. i - 1 \in Nat /\ i - 1 <= Len(s) /\ x.start <= i - 1
      BY <1>1, <1>4 DEF Text
    <3>2. piece \in Text /\ Len(piece) = (i - 1) - x.start + 1
      BY <1>1, <3>1, TextPart
    <3>3. Len(piece) > 0
      BY <1>1, <3>1, <3>2
    <3> HIDE DEF piece
    <3> QED
      BY <3>2, <3>3 DEF Text
  <2>2. name \in Name
    BY <2>1, EscapeName
  <2> HIDE DEF piece, name
  <2>3. /\ Cut(s, x, i) = [start |-> i + 1, names |-> Append(x.names, name)]
        /\ Copy(s, y, i) = [start |-> i + 1, out |-> out]
    BY <1>1, <1>4 DEF Cut, Copy, piece, name
  <2>4. name \in Text /\ y.out \o name \in Text
    BY <1>1, <2>2 DEF Name, Text
  <2>5. out = Append(y.out \o name, "/")
    BY <2>4, WebDavAssumption, AppendIsConcat DEF Text
  <2>6. Seen(y.out \o name).names = Append(x.names, name)
    BY <1>1, <2>2, SeenName
  <2>7. Seen(out) = [names |-> Append(x.names, name), open |-> FALSE]
    BY <2>4, <2>5, <2>6, SeenSlash
  <2>8. EndsInSlash(out)
    BY <2>4, <2>5, WebDavAssumption DEF EndsInSlash, Last, Text
  <2>9. Append(x.names, name) \in Seq(Name)
    BY <1>1, <2>2
  <2> HIDE DEF out
  <2> QED
    BY <1>1, <2>3, <2>7, <2>8, <2>9 DEF Agree
<1> QED
  BY <1>2, <1>3, <1>4

(* The end of both loops.                                                  *)
LEMMA AgreeAtEnd ==
    ASSUME NEW s \in Text
    PROVE  /\ CutAll(s) \in Cutting /\ CopyAll(s) \in Copying
           /\ Agree(CutAll(s), CopyAll(s), Len(s))
<1> DEFINE n == Len(s)
<1>1. n \in Nat
  BY DEF Text
<1>2. PICK r \in [0 .. n -> Cutting] :
         /\ r[0] = CutStart
         /\ \A k \in 1 .. n : r[k] = Cut(s, r[k - 1], k)
         /\ CutAll(s) = r[n]
  BY CutRun
<1>3. PICK q \in [0 .. n -> Copying] :
         /\ q[0] = CopyStart
         /\ \A k \in 1 .. n : q[k] = Copy(s, q[k - 1], k)
         /\ CopyAll(s) = q[n]
  BY CopyRun
<1> DEFINE D == {k \in 0 .. n : Agree(r[k], q[k], k)}
<1>4. 0 \in D
  <2>1. Seen(<<>>) = [names |-> <<>>, open |-> FALSE]
    BY SeenEmpty DEF Start
  <2>2. Agree(CutStart, CopyStart, 0)
    BY <2>1 DEF Agree, CutStart, CopyStart, EndsInSlash
  <2> QED
    BY <1>1, <1>2, <1>3, <2>2
<1>5. ASSUME NEW k \in 0 .. n - 1, k \in D
      PROVE  k + 1 \in D
  <2>1. k + 1 \in 1 .. n /\ k + 1 \in 0 .. n /\ k \in 0 .. n /\ (k + 1) - 1 = k
    BY <1>1
  <2>2. r[k + 1] = Cut(s, r[k], k + 1) /\ q[k + 1] = Copy(s, q[k], k + 1)
    BY <1>2, <1>3, <2>1
  <2>3. r[k] \in Cutting /\ q[k] \in Copying /\ Agree(r[k], q[k], k)
    BY <1>5, <2>1
  <2>4. Agree(r[k + 1], q[k + 1], k + 1)
    BY <2>1, <2>2, <2>3, AgreeStep
  <2> QED
    BY <2>1, <2>4
<1>6. 0 .. n \subseteq D
  <2> HIDE DEF D, n
  <2> QED
    BY <1>1, <1>4, <1>5, BoundedInduction
<1> QED
  BY <1>1, <1>2, <1>3, <1>6

(* What is left after the last slash.                                      *)
Rest(s) == SubSeq(s, CutAll(s).start, Len(s))

(* Both functions treat what is left after the last slash alike.           *)
LEMMA PathEnd ==
    ASSUME NEW s \in Text
    PROVE  /\ Rest(s) \in Text
           /\ NamesOf(s) = IF Rest(s) = <<>> THEN CutAll(s).names
                           ELSE Append(CutAll(s).names, Escape(Rest(s)))
           /\ EncodeWithoutSeparator(s) = CopyAll(s).out \o Escape(Rest(s))
<1> DEFINE m == CutAll(s).start
<1>1. Len(s) \in Nat /\ m \in Nat \ {0} /\ m <= Len(s) + 1 /\ m = CopyAll(s).start
  <2>1. CutAll(s) \in Cutting /\ Agree(CutAll(s), CopyAll(s), Len(s))
    BY AgreeAtEnd
  <2> QED
    BY <2>1 DEF Agree, Cutting, Text
<1>2. Rest(s) \in Text /\ Len(Rest(s)) = IF m <= Len(s) THEN Len(s) - m + 1 ELSE 0
  BY <1>1, TextPart DEF Rest
<1>3. Rest(s) = <<>> <=> m = Len(s) + 1
  BY <1>1, <1>2 DEF Text
<1>4. NamesOf(s) = IF m = Len(s) + 1 THEN CutAll(s).names
                   ELSE Append(CutAll(s).names, Escape(Rest(s)))
  BY DEF NamesOf, CutAll, CutStart, Rest
<1>5. EncodeWithoutSeparator(s) = CopyAll(s).out \o Escape(SubSeq(s, CopyAll(s).start, Len(s)))
  BY DEF EncodeWithoutSeparator, CopyAll, CopyStart
<1> QED
  BY <1>1, <1>2, <1>3, <1>4, <1>5 DEF Rest

(* A step of _EncodeWithoutSeparator that writes nothing cuts nothing.     *)
LEMMA CopyUnwritten ==
    ASSUME NEW s \in Text, NEW x \in Copying, NEW i \in 1 .. Len(s), x.out = <<>> => x.start = 1
    PROVE  Copy(s, x, i).out = <<>> => Copy(s, x, i).start = 1
<1>1. CASE s[i] # "/"
  BY <1>1 DEF Copy
<1>2. CASE s[i] = "/" /\ x.start = i
  <2>1. Copy(s, x, i).out = Append(x.out, "/")
    BY <1>2 DEF Copy, Copying
  <2>2. Append(x.out, "/") # <<>>
    BY WebDavAssumption DEF Copying, Text
  <2> QED
    BY <2>1, <2>2
<1>3. CASE s[i] = "/" /\ x.start # i
  <2> DEFINE name == Escape(SubSeq(s, x.start, i - 1))
  <2>1. Copy(s, x, i).out = x.out \o name \o <<"/">>
    BY <1>3 DEF Copy
  <2>2. name \in Text
    <3>1. x.start \in Nat \ {0} /\ i - 1 \in Nat /\ i - 1 <= Len(s)
      BY DEF Copying, Text
    <3> QED
      BY <3>1, TextPart, EscapeType
  <2> HIDE DEF name
  <2> DEFINE u == x.out \o name
  <2>3. u \in Seq(Symbols) /\ "/" \in Symbols
    BY <2>2, WebDavAssumption DEF Copying, Text
  <2> HIDE DEF u
  <2>4. u \o <<"/">> = Append(u, "/") /\ Append(u, "/") # <<>>
    BY <2>3, AppendIsConcat
  <2> QED
    BY <2>1, <2>4 DEF u
<1> QED
  BY <1>1, <1>2, <1>3

(* The encoded path is empty when the path is, and only then.              *)
LEMMA EncodedEmpty ==
    ASSUME NEW s \in Text
    PROVE  EncodeWithoutSeparator(s) = <<>> <=> s = <<>>
<1> DEFINE n == Len(s)
<1>1. n \in Nat
  BY DEF Text
<1>2. PICK q \in [0 .. n -> Copying] :
         /\ q[0] = CopyStart
         /\ \A k \in 1 .. n : q[k] = Copy(s, q[k - 1], k)
         /\ CopyAll(s) = q[n]
  BY CopyRun
<1> DEFINE D == {k \in 0 .. n : q[k].out = <<>> => q[k].start = 1}
<1>3. 0 \in D
  BY <1>1, <1>2 DEF CopyStart
<1>4. ASSUME NEW k \in 0 .. n - 1, k \in D
      PROVE  k + 1 \in D
  <2>1. k + 1 \in 1 .. n /\ k + 1 \in 0 .. n /\ k \in 0 .. n /\ (k + 1) - 1 = k
    BY <1>1
  <2>2. q[k + 1] = Copy(s, q[k], k + 1) /\ q[k] \in Copying
    BY <1>2, <2>1
  <2> QED
    BY <1>4, <2>1, <2>2, CopyUnwritten
<1>5. 0 .. n \subseteq D
  <2> HIDE DEF D, n
  <2> QED
    BY <1>1, <1>3, <1>4, BoundedInduction
<1>6. CopyAll(s).out = <<>> => CopyAll(s).start = 1
  BY <1>1, <1>2, <1>5
<1>7. /\ EncodeWithoutSeparator(s) = CopyAll(s).out \o Escape(SubSeq(s, CopyAll(s).start, n))
      /\ CopyAll(s) \in Copying
  BY AgreeAtEnd DEF EncodeWithoutSeparator, CopyAll, CopyStart
<1>8. CASE s = <<>>
  <2>1. n = 0
    BY <1>8
  <2>2. CopyAll(s) = CopyStart
    BY <1>2, <2>1
  <2>3. CopyAll(s).out = <<>> /\ CopyAll(s).start = 1
    BY <2>2 DEF CopyStart
  <2>4. SubSeq(s, CopyAll(s).start, n) = <<>>
    <3>1. SubSeq(s, 1, 0) = <<>>
      BY SubSeqEmpty
    <3> QED
      BY <2>1, <2>3, <3>1
  <2>5. EncodeWithoutSeparator(s) = <<>> \o <<>>
    <3> HIDE DEF n
    <3> QED
      BY <1>7, <2>3, <2>4, EscapeEmpty
  <2> QED
    BY <1>8, <2>5
<1>9. CASE s # <<>>
  <2>1. CASE CopyAll(s).out # <<>>
    <3>1. Escape(SubSeq(s, CopyAll(s).start, n)) \in Text
      BY <1>1, <1>7, TextPart, EscapeType DEF Copying
    <3> DEFINE u == CopyAll(s).out
               v == Escape(SubSeq(s, CopyAll(s).start, n))
    <3>2. u \in Seq(Symbols) /\ v \in Seq(Symbols) /\ u # <<>> /\ EncodeWithoutSeparator(s) = u \o v
      BY <1>7, <2>1, <3>1 DEF Copying, Text
    <3> HIDE DEF u, v
    <3>3. Len(u \o v) = Len(u) + Len(v) /\ Len(u) \in Nat \ {0} /\ Len(v) \in Nat
      BY <3>2
    <3>4. Len(<<>>) = 0
      OBVIOUS
    <3> QED
      BY <1>9, <3>2, <3>3, <3>4
  <2>2. CASE CopyAll(s).out = <<>>
    <3>1. SubSeq(s, 1, n) = s
      BY SubSeqFull DEF Text
    <3>2. EncodeWithoutSeparator(s) = <<>> \o Escape(s)
      BY <1>6, <1>7, <2>2, <3>1
    <3>3. Escape(s) \in Text /\ Len(Escape(s)) = n
      BY EscapeType
    <3>4. n # 0
      BY <1>9 DEF Text
    <3> HIDE DEF n
    <3>5. \A u \in Text : Len(u) = n => <<>> \o u # <<>>
      BY <3>4 DEF Text
    <3> QED
      BY <3>2, <3>3, <3>5
  <2> QED
    BY <2>1, <2>2
<1> QED
  BY <1>8, <1>9

(* The server takes the path that _EncodeWithoutSeparator writes apart     *)
(* into the very names that _EnsureWebDAVDirectories makes directories of, *)
(* for every path: with empty names, with slashes at its ends, with a name *)
(* that begins with a slash.                                               *)
THEOREM NamesAreSeen ==
    ASSUME NEW s \in Text
    PROVE  /\ EncodeWithoutSeparator(s) \in Text
           /\ NamesOf(s) \in Seq(Name)
           /\ Segments(EncodeWithoutSeparator(s)) = NamesOf(s)
<1> DEFINE names == CutAll(s).names
           out == CopyAll(s).out
           rest == Escape(Rest(s))
<1>1. /\ names \in Seq(Name) /\ out \in Text
      /\ Seen(out) = [names |-> names, open |-> FALSE]
  BY AgreeAtEnd DEF Agree, Copying
<1>2. \A u \in Text : Segments(u) = Seen(u).names
  BY DEF Segments, Seen, Start
<1>3. CASE Rest(s) = <<>>
  <2>1. EncodeWithoutSeparator(s) = out /\ NamesOf(s) = names
    <3>1. EncodeWithoutSeparator(s) = out \o <<>> /\ NamesOf(s) = names
      BY <1>3, PathEnd, EscapeEmpty
    <3>2. out \o <<>> = out
      BY <1>1, ConcatEmptySeq DEF Text
    <3> QED
      BY <3>1, <3>2
  <2> QED
    BY <1>1, <1>2, <2>1
<1>4. CASE Rest(s) # <<>>
  <2>1. rest \in Name /\ rest \in Text
    BY <1>4, PathEnd, EscapeName DEF Name
  <2>2. EncodeWithoutSeparator(s) = out \o rest /\ NamesOf(s) = Append(names, rest)
    BY <1>4, PathEnd
  <2> HIDE DEF names, out, rest
  <2>3. Seen(out \o rest).names = Append(names, rest)
    BY <1>1, <2>1, SeenName
  <2>4. out \o rest \in Text /\ Append(names, rest) \in Seq(Name)
    BY <1>1, <2>1 DEF Text
  <2> QED
    BY <1>2, <2>2, <2>3, <2>4
<1> QED
  BY <1>3, <1>4

(* The names joined by slashes are seen again one by one.                  *)
LEMMA JoinedAreSeen ==
    ASSUME NEW names \in Seq(Name)
    PROVE  Joined(names) \in Text /\ Segments(Joined(names)) = names
<1> DEFINE n == Len(names)
<1>1. n \in Nat /\ names \in Seq(Text) /\ \A k \in 1 .. n : names[k] \in Name /\ names[k] \in Text
  <2>1. Name \subseteq Text
    BY DEF Name
  <2> QED
    BY <2>1, SeqMonotonic
<1>2. PICK r \in [0 .. n -> Text] :
         /\ r[0] = JoinStart
         /\ \A k \in 1 .. n : r[k] = JoinOne(names, r[k - 1], k)
         /\ Joined(names) = r[n]
  BY <1>1, JoinRun
<1> DEFINE Holds(k) == Seen(r[k]).names = SubSeq(names, 1, k)
           D == {k \in 0 .. n : Holds(k)}
<1>3. 0 \in D
  <2>1. SubSeq(names, 1, 0) = <<>>
    BY <1>1, FirstPart
  <2>2. r[0] = <<>>
    BY <1>2 DEF JoinStart
  <2>3. Seen(r[0]).names = <<>>
    BY <2>2, SeenEmpty DEF Start
  <2>4. Holds(0) /\ 0 \in 0 .. n
    BY <1>1, <2>1, <2>3
  <2> HIDE DEF Holds
  <2> QED
    BY <2>4
<1>4. ASSUME NEW k \in 0 .. n - 1, k \in D
      PROVE  k + 1 \in D
  <2> DEFINE x == names[k + 1]
  <2>1. k + 1 \in 1 .. n /\ k + 1 \in 0 .. n /\ k \in 0 .. n /\ (k + 1) - 1 = k /\ k \in Nat
    BY <1>1
  <2>2. x \in Name /\ x \in Text
    BY <1>1, <2>1
  <2>3. SubSeq(names, 1, k + 1) = Append(SubSeq(names, 1, k), x)
    BY <1>1, FirstAppend
  <2>4. r[k + 1] = JoinOne(names, r[k], k + 1) /\ r[k] \in Text
    BY <1>2, <2>1
  <2> HIDE DEF x
  <2>5. CASE k = 0
    <3>1. r[k + 1] = <<>> \o x
      <4>1. r[k + 1] = x
        BY <2>4, <2>5 DEF JoinOne, x
      <4> QED
        BY <2>2, <4>1, ConcatEmptySeq DEF Text
    <3>2. Seen(<<>> \o x).names = Append(<<>>, x)
      <4>1. <<>> \in Text /\ Seen(<<>>) = [names |-> <<>>, open |-> FALSE]
        BY SeenEmpty DEF Start, Text
      <4> DEFINE e == <<>>
      <4>2. e \in Text /\ Seen(e).names = <<>> /\ ~Seen(e).open
        BY <4>1
      <4> HIDE DEF e
      <4>3. Seen(e \o x).names = Append(Seen(e).names, x)
        BY <2>2, <4>2, SeenName
      <4>4. Seen(e \o x).names = Append(<<>>, x)
        BY <4>2, <4>3
      <4> QED
        BY <4>4 DEF e
    <3>3. SubSeq(names, 1, k) = <<>>
      BY <1>1, <2>1, <2>5, FirstPart
    <3> QED
      BY <2>1, <2>3, <3>1, <3>2, <3>3
  <2>6. CASE k > 0
    <3> DEFINE u == Append(r[k], "/")
    <3>1. r[k + 1] = r[k] \o <<"/">> \o x
      <4>1. k + 1 # 1
        BY <2>1, <2>6
      <4> QED
        BY <2>4, <4>1 DEF JoinOne, x
    <3>2. u \in Text /\ r[k] \o <<"/">> = u
      BY <2>4, WebDavAssumption, AppendIsConcat DEF Text
    <3>3. Seen(u) = [names |-> Seen(r[k]).names, open |-> FALSE]
      BY <2>4, SeenSlash
    <3> HIDE DEF u
    <3>4. Seen(u \o x).names = Append(Seen(r[k]).names, x)
      BY <2>2, <3>2, <3>3, SeenName
    <3>5. Seen(r[k]).names = SubSeq(names, 1, k)
      BY <1>4
    <3> QED
      BY <2>1, <2>3, <3>1, <3>2, <3>4, <3>5
  <2> QED
    BY <2>1, <2>5, <2>6
<1>5. 0 .. n \subseteq D
  <2> HIDE DEF D, n
  <2> QED
    BY <1>1, <1>3, <1>4, BoundedInduction
<1>6. Seen(Joined(names)).names = names
  <2>1. Holds(n)
    <3> HIDE DEF Holds
    <3> QED
      BY <1>1, <1>5
  <2>2. SubSeq(names, 1, n) = names
    BY SubSeqFull
  <2> QED
    BY <1>2, <2>1, <2>2
<1>7. Joined(names) \in Text
  BY <1>1, <1>2
<1> QED
  BY <1>6 , <1>7 DEF Segments, Seen, Start

(* A name without a slash stands for itself.                               *)
LEMMA EscapeUnchanged ==
    ASSUME NEW s \in Text, NoSlash(s)
    PROVE  Escape(s) = s
<1>1. /\ Escape(s) \in Text /\ Len(Escape(s)) = Len(s)
      /\ \A i \in 1 .. Len(s) : Escape(s)[i] = IF s[i] = "/" THEN "%2F" ELSE s[i]
  BY EscapeType
<1>2. \A i \in 1 .. Len(s) : Escape(s)[i] = s[i]
  BY <1>1 DEF NoSlash
<1> HIDE DEF Escape
<1> QED
  BY <1>1, <1>2, SeqEqual DEF Text

(* In a path without empty names every slash ends a name.                  *)
Kept(s, x, k) ==
    /\ x.start <= k + 1
    /\ x.start = 1 \/ (x.start > 1 /\ s[x.start - 1] = "/")
    /\ \A j \in x.start .. k : s[j] # "/"
    /\ Seen(SubSeq(s, 1, x.start - 1)) = [names |-> x.names, open |-> FALSE]

(* The first part of a path, the piece after it and what comes next.       *)
LEMMA Pieces ==
    ASSUME NEW s \in Text, NEW m \in Nat \ {0}, NEW i \in Nat, m <= i + 1, i <= Len(s)
    PROVE  SubSeq(s, 1, i) = SubSeq(s, 1, m - 1) \o SubSeq(s, m, i)
<1>1. /\ 1 \in 1 .. Len(s) + 1 /\ m - 1 \in 1 - 1 .. Len(s) /\ i \in m - 1 .. Len(s) /\ (m - 1) + 1 = m
  BY DEF Text
<1> QED
  BY <1>1, ConcatAdjacentSubSeq DEF Text

(* Each character of a path without empty names keeps that.                *)
LEMMA KeptStep ==
    ASSUME NEW s \in Text, Plain(s), NEW i \in 1 .. Len(s), NEW x \in Cutting, Kept(s, x, i - 1)
    PROVE  Kept(s, Cut(s, x, i), i)
<1> DEFINE m == x.start
<1>1. /\ i \in Nat \ {0} /\ i <= Len(s) /\ Len(s) \in Nat /\ m \in Nat \ {0} /\ m <= i
      /\ m = 1 \/ (m > 1 /\ s[m - 1] = "/")
      /\ \A j \in m .. i - 1 : s[j] # "/"
      /\ Seen(SubSeq(s, 1, m - 1)) = [names |-> x.names, open |-> FALSE]
  BY DEF Kept, Cutting, Text
<1>2. CASE s[i] # "/"
  <2>1. Cut(s, x, i) = x
    BY <1>2 DEF Cut
  <2>2. \A j \in m .. i : s[j] # "/"
    BY <1>1, <1>2
  <2> QED
    BY <1>1, <2>1, <2>2 DEF Kept
<1>3. CASE s[i] = "/"
  <2> DEFINE head == SubSeq(s, 1, m - 1)
             piece == SubSeq(s, m, i - 1)
  <2>1. m # i
    BY <1>1, <1>3 DEF Plain, Text
  <2>2. /\ piece \in Text /\ Len(piece) = (i - 1) - m + 1
        /\ \A j \in 1 .. (i - 1) - m + 1 : piece[j] = s[m + j - 1]
    BY <1>1, <2>1, TextPart
  <2>3. head \in Text
    BY <1>1, TextPart
  <2> HIDE DEF head, piece
  <2>4. NoSlash(piece)
    <3> SUFFICES ASSUME NEW j \in 1 .. Len(piece)
                 PROVE  piece[j] # "/"
      BY DEF NoSlash
    <3>1. piece[j] = s[m + j - 1] /\ m + j - 1 \in m .. i - 1
      BY <1>1, <2>1, <2>2
    <3> QED
      BY <1>1, <3>1
  <2>5. piece # <<>>
    BY <1>1, <2>1, <2>2
  <2>6. piece \in Name /\ Escape(piece) = piece
    BY <2>2, <2>4, <2>5, EscapeUnchanged DEF Name
  <2>7. Cut(s, x, i) = [start |-> i + 1, names |-> Append(x.names, piece)]
    BY <1>3, <2>1, <2>6 DEF Cut, piece
  <2>8. SubSeq(s, 1, i - 1) = head \o piece
    <3>1. i - 1 \in Nat /\ m <= (i - 1) + 1 /\ i - 1 <= Len(s)
      BY <1>1
    <3> QED
      BY <1>1, <3>1, Pieces DEF head, piece
  <2>9. SubSeq(s, 1, i) = Append(SubSeq(s, 1, i - 1), "/")
    <3>1. i - 1 \in 0 .. Len(s) - 1 /\ (i - 1) + 1 = i
      BY <1>1
    <3> QED
      BY <1>3, <3>1, FirstAppend DEF Text
  <2>10. Seen(head \o piece).names = Append(x.names, piece)
    BY <1>1, <2>3, <2>6, SeenName DEF head
  <2>11. head \o piece \in Text
    BY <2>2, <2>3 DEF Text
  <2>12. Seen(SubSeq(s, 1, i)) = [names |-> Append(x.names, piece), open |-> FALSE]
    BY <2>8, <2>9, <2>10, <2>11, SeenSlash
  <2>13. (i + 1) - 1 = i /\ i + 1 > 1
    BY <1>1
  <2> QED
    BY <1>1, <1>3, <2>7, <2>12, <2>13 DEF Kept
<1> QED
  BY <1>2, <1>3

(* So it is at the end of the loop.                                        *)
LEMMA KeptAtEnd ==
    ASSUME NEW s \in Text, Plain(s)
    PROVE  Kept(s, CutAll(s), Len(s))
<1> DEFINE n == Len(s)
<1>1. n \in Nat
  BY DEF Text
<1>2. PICK r \in [0 .. n -> Cutting] :
         /\ r[0] = CutStart
         /\ \A k \in 1 .. n : r[k] = Cut(s, r[k - 1], k)
         /\ CutAll(s) = r[n]
  BY CutRun
<1> DEFINE D == {k \in 0 .. n : Kept(s, r[k], k)}
<1>3. 0 \in D
  <2>1. SubSeq(s, 1, 1 - 1) = <<>>
    BY <1>1, TextPart DEF Text
  <2>2. Kept(s, CutStart, 0)
    <3>1. CutStart.start = 1 /\ CutStart.names = <<>>
      BY DEF CutStart
    <3>2. Seen(SubSeq(s, 1, CutStart.start - 1)) = [names |-> CutStart.names, open |-> FALSE]
      BY <2>1, <3>1, SeenEmpty DEF Start
    <3> QED
      BY <3>1, <3>2 DEF Kept
  <2> QED
    BY <1>1, <1>2, <2>2
<1>4. ASSUME NEW k \in 0 .. n - 1, k \in D
      PROVE  k + 1 \in D
  <2>1. k + 1 \in 1 .. n /\ k + 1 \in 0 .. n /\ k \in 0 .. n /\ (k + 1) - 1 = k
    BY <1>1
  <2>2. r[k + 1] = Cut(s, r[k], k + 1) /\ r[k] \in Cutting /\ Kept(s, r[k], k)
    BY <1>2, <1>4, <2>1
  <2>3. Kept(s, r[k + 1], k + 1)
    BY <2>1, <2>2, KeptStep
  <2> QED
    BY <2>1, <2>3
<1>5. 0 .. n \subseteq D
  <2> HIDE DEF D, n
  <2> QED
    BY <1>1, <1>3, <1>4, BoundedInduction
<1> QED
  BY <1>1, <1>2, <1>5

(* A path without empty names means the same to the server before and      *)
(* after it is encoded.                                                    *)
THEOREM PlainAreSeen ==
    ASSUME NEW s \in Text, Plain(s)
    PROVE  /\ Segments(s) = NamesOf(s)
           /\ EndsInSlash(s) <=> EndsInSlash(EncodeWithoutSeparator(s))
<1> DEFINE m == CutAll(s).start
           names == CutAll(s).names
           head == SubSeq(s, 1, m - 1)
           n == Len(s)
<1>1. n \in Nat /\ m \in Nat \ {0} /\ m <= n + 1 /\ CopyAll(s).out \in Text /\ EndsInSlash(CopyAll(s).out)
  <2>1. CutAll(s) \in Cutting /\ CopyAll(s) \in Copying /\ Agree(CutAll(s), CopyAll(s), Len(s))
    BY AgreeAtEnd
  <2> QED
    BY <2>1 DEF Agree, Cutting, Copying, Text
<1>2. /\ m = 1 \/ (m > 1 /\ s[m - 1] = "/")
      /\ \A j \in m .. n : s[j] # "/"
      /\ Seen(head) = [names |-> names, open |-> FALSE]
  BY KeptAtEnd DEF Kept
<1>3. head \in Text
  BY <1>1, TextPart
<1>4. /\ Rest(s) \in Text /\ Len(Rest(s)) = IF m <= n THEN n - m + 1 ELSE 0
      /\ \A i \in 1 .. n - m + 1 : Rest(s)[i] = s[m + i - 1]
  BY <1>1, TextPart DEF Rest
<1>5. s = head \o Rest(s)
  <2>1. SubSeq(s, 1, n) = s
    BY SubSeqFull DEF Text
  <2>2. SubSeq(s, 1, n) = SubSeq(s, 1, m - 1) \o SubSeq(s, m, n)
    <3>1. n \in Nat /\ n <= Len(s)
      BY <1>1
    <3> HIDE DEF m, n
    <3> QED
      BY <1>1, <3>1, Pieces
  <2> QED
    BY <2>1, <2>2 DEF Rest
<1>6. Segments(s) = Seen(s).names
  BY DEF Segments, Seen, Start
<1> HIDE DEF m, names, head
<1>7. CASE m = n + 1
  <2>1. Rest(s) = <<>>
    BY <1>1, <1>4, <1>7 DEF Text
  <2>2. s = head
    BY <1>3, <1>5, <2>1, ConcatEmptySeq DEF Text
  <2>3. NamesOf(s) = names
    BY <2>1, PathEnd DEF names
  <2>4. EndsInSlash(s)
    BY <1>1, <1>2, <1>7 DEF EndsInSlash, Last, Text
  <2>5. EncodeWithoutSeparator(s) = CopyAll(s).out
    <3>1. EncodeWithoutSeparator(s) = CopyAll(s).out \o <<>>
      BY <2>1, PathEnd, EscapeEmpty
    <3> QED
      BY <1>1, <3>1, ConcatEmptySeq DEF Text
  <2> QED
    BY <1>1, <1>2, <1>6, <2>2, <2>3, <2>4, <2>5
<1>8. CASE m <= n
  <2>1. Rest(s) # <<>>
    BY <1>1, <1>4, <1>8 DEF Text
  <2>2. NoSlash(Rest(s))
    <3> SUFFICES ASSUME NEW j \in 1 .. Len(Rest(s))
                 PROVE  Rest(s)[j] # "/"
      BY DEF NoSlash
    <3>1. Rest(s)[j] = s[m + j - 1] /\ m + j - 1 \in m .. n
      BY <1>1, <1>4, <1>8
    <3> QED
      BY <1>2, <3>1
  <2>3. Rest(s) \in Name /\ Escape(Rest(s)) = Rest(s)
    BY <1>4, <2>1, <2>2, EscapeUnchanged DEF Name
  <2>4. NamesOf(s) = Append(names, Rest(s))
    BY <2>1, <2>3, PathEnd DEF names
  <2>5. Seen(s).names = Append(names, Rest(s))
    <3>1. Seen(head \o Rest(s)).names = Append(Seen(head).names, Rest(s))
      BY <1>2, <1>3, <2>3, SeenName
    <3>2. Seen(head).names = names
      BY <1>2
    <3>3. Seen(s) = Seen(head \o Rest(s))
      BY <1>5
    <3> QED
      BY <3>1, <3>2, <3>3
  <2>6. ~EndsInSlash(s)
    BY <1>1, <1>2, <1>8 DEF EndsInSlash, Last, Text
  <2>7. ~EndsInSlash(EncodeWithoutSeparator(s))
    <3> DEFINE e == CopyAll(s).out \o Rest(s)
    <3>1. EncodeWithoutSeparator(s) = e
      BY <2>3, PathEnd
    <3>2. Len(Rest(s)) \in Nat \ {0}
      BY <1>1, <1>4, <1>8
    <3>3. e \in Text /\ Len(e) = Len(CopyAll(s).out) + Len(Rest(s)) /\ e[Len(e)] = Rest(s)[Len(Rest(s))]
      <4> DEFINE out == CopyAll(s).out
                 rest == Rest(s)
      <4>1. out \in Seq(Symbols) /\ rest \in Seq(Symbols) /\ Len(rest) \in Nat \ {0}
        BY <1>1, <1>4, <3>2 DEF Text
      <4> HIDE DEF out, rest
      <4>2. out \o rest \in Seq(Symbols) /\ Len(out \o rest) = Len(out) + Len(rest) /\ (out \o rest)[Len(out) + Len(rest)] = rest[Len(rest)]
        BY <4>1
      <4> QED
        BY <4>2 DEF out, rest, Text
    <3>4. e[Len(e)] # "/"
      BY <2>2, <3>2, <3>3 DEF NoSlash
    <3>5. e # <<>>
      BY <1>1, <3>2, <3>3 DEF Text
    <3> HIDE DEF e
    <3> QED
      BY <3>1, <3>4, <3>5 DEF EndsInSlash, Last
  <2> QED
    BY <1>6, <2>4, <2>5, <2>6, <2>7
<1> QED
  BY <1>1, <1>7, <1>8

-----------------------------------------------------------------------------
(* What a path means                                                       *)

Path == Seq(Text)

(* A URI is taken apart into a path.                                       *)
LEMMA TextIsPath ==
    ASSUME NEW s \in Text
    PROVE  Segments(s) \in Path
BY SeenType DEF Segments, Seen, Start, Reading, Path

(* The parent of a path with one name more.                                *)
LEMMA AppendParent ==
    ASSUME NEW p \in Path, NEW x \in Text
    PROVE  Append(p, x) \in Path /\ Append(p, x) # <<>> /\ Parent(Append(p, x)) = p
<1>1. Append(p, x) \in Path /\ Len(Append(p, x)) = Len(p) + 1 /\ Len(p) \in Nat
  BY DEF Path
<1>2. Front(Append(p, x)) = p
  BY FrontOfAppend DEF Path
<1>3. Append(p, x) # <<>>
  BY <1>1
<1> QED
  BY <1>1, <1>2, <1>3 DEF Parent

(* The parent of the first i names are the first i - 1.                    *)
LEMMA FirstParent ==
    ASSUME NEW p \in Path, NEW i \in 1 .. Len(p)
    PROVE  SubSeq(p, 1, i) \in Path /\ Parent(SubSeq(p, 1, i)) = SubSeq(p, 1, i - 1)
<1>1. i - 1 \in 0 .. Len(p) - 1 /\ (i - 1) + 1 = i /\ i \in 0 .. Len(p) /\ i - 1 \in 0 .. Len(p)
  BY DEF Path
<1>2. SubSeq(p, 1, i) = Append(SubSeq(p, 1, i - 1), p[i])
  BY <1>1, FirstAppend DEF Path
<1>3. SubSeq(p, 1, i - 1) \in Path /\ SubSeq(p, 1, i) \in Path /\ p[i] \in Text
  BY <1>1, FirstPart DEF Path
<1> QED
  BY <1>2, <1>3, AppendParent

(* The first names of a path are a prefix of it, and of what is in it.     *)
LEMMA FirstIsPrefix ==
    ASSUME NEW p \in Path, NEW i \in 0 .. Len(p)
    PROVE  IsPrefix(SubSeq(p, 1, i), p) /\ \A x \in Text : IsPrefix(SubSeq(p, 1, i), Append(p, x))
<1> DEFINE f == SubSeq(p, 1, i)
<1>1. f \in Path /\ Len(f) = i /\ (\A k \in 1 .. i : f[k] = p[k]) /\ i \in Nat /\ Len(p) \in Nat
  BY FirstPart DEF Path
<1> HIDE DEF f
<1>2. IsPrefix(f, p)
  BY <1>1, PrefixByElement DEF Path
<1>3. ASSUME NEW x \in Text
      PROVE  IsPrefix(f, Append(p, x))
  <2> DEFINE t == Append(p, x)
  <2>1. t \in Path /\ Len(t) = Len(p) + 1 /\ \A k \in 1 .. Len(p) : t[k] = p[k]
    BY DEF Path
  <2> HIDE DEF t
  <2>2. IsPrefix(f, t)
    BY <1>1, <2>1, PrefixByElement DEF Path
  <2> QED
    BY <2>2 DEF t
<1> QED
  BY <1>2, <1>3 DEF f

(* A prefix of a prefix is a prefix.                                       *)
LEMMA PrefixOfPrefix ==
    ASSUME NEW p \in Path, NEW q \in Path, NEW r \in Path, IsPrefix(p, q), IsPrefix(q, r)
    PROVE  IsPrefix(p, r)
<1>1. Len(p) <= Len(q) /\ \A i \in 1 .. Len(p) : p[i] = q[i]
  BY PrefixByElement DEF Path
<1>2. Len(q) <= Len(r) /\ \A i \in 1 .. Len(q) : q[i] = r[i]
  BY PrefixByElement DEF Path
<1>3. Len(p) \in Nat /\ Len(q) \in Nat /\ Len(r) \in Nat
  BY DEF Path
<1>4. Len(p) <= Len(r) /\ \A i \in 1 .. Len(p) : p[i] = r[i]
  BY <1>1, <1>2, <1>3
<1> QED
  BY <1>4, PrefixByElement DEF Path

(* The encoded path of a call means what its path means, and the           *)
(* directories that are ensured are those of its meaning.                  *)
THEOREM EncodedIsMeant ==
    ASSUME NEW j \in Job
    PROVE  /\ Encoded(j) \in Text /\ Meant(j) \in Text
           /\ Segments(Encoded(j)) = Segments(Meant(j))
           /\ EndsInSlash(Encoded(j)) <=> EndsInSlash(Meant(j))
           /\ j.form = "mujin" => NamesOf(j.path) = Segments(Meant(j))
<1>1. j.path \in Text
  BY DEF Job, Text
<1>2. CASE j.form = "mujin"
  <2>1. Encoded(j) = EncodeWithoutSeparator(j.path)
    BY <1>2 DEF Encoded
  <2>2. CASE Plain(j.path)
    <3>1. Meant(j) = j.path
      BY <2>2 DEF Meant
    <3> QED
      BY <1>1, <2>1, <2>2, <3>1, NamesAreSeen, PlainAreSeen
  <2>3. CASE ~Plain(j.path)
    <3>1. Meant(j) = Encoded(j)
      BY <2>3 DEF Meant
    <3> QED
      BY <1>1, <2>1, <3>1, NamesAreSeen
  <2> QED
    BY <2>2, <2>3
<1>3. CASE j.form # "mujin"
  <2>1. Encoded(j) = j.path
    BY <1>3 DEF Encoded
  <2>2. Meant(j) = j.path
    BY <2>1 DEF Meant
  <2> QED
    BY <1>1, <1>3, <2>1, <2>2
<1> QED
  BY <1>2, <1>3

(* A character written after a slash is a name of its own.                 *)
LEMMA BelowSlash ==
    ASSUME NEW s \in Text, EndsInSlash(s), NEW c \in Symbols, c # "/"
    PROVE  Append(s, c) \in Text /\ Segments(Append(s, c)) = Append(Segments(s), <<c>>)
<1>1. Seen(s) = [names |-> Segments(s), open |-> FALSE]
  BY EndsClosed
<1>2. Seen(Append(s, c)) = Read(Seen(s), c)
  BY SeenAppend
<1>3. Segments(Append(s, c)) = Seen(Append(s, c)).names
  BY DEF Segments, Seen, Start
<1>4. Append(s, c) \in Text
  BY DEF Text
<1>5. Read([names |-> Segments(s), open |-> FALSE], c).names = Append(Segments(s), <<c>>)
  BY DEF Read
<1> QED
  BY <1>1, <1>2, <1>3, <1>4, <1>5

(* A slash at the end of a URI, added or taken away, means nothing.        *)
LEMMA SlashAdded ==
    ASSUME NEW s \in Text
    PROVE  /\ WithSlash(s) \in Text /\ EndsInSlash(WithSlash(s))
           /\ WithoutSlash(WithSlash(s)) \in Text
           /\ Segments(WithSlash(s)) = Segments(s)
           /\ Segments(WithoutSlash(WithSlash(s))) = Segments(s)
<1>1. \A u \in Text : Segments(Append(u, "/")) = Segments(u) /\ Append(u, "/") \in Text
  <2> SUFFICES ASSUME NEW u \in Text
               PROVE  Segments(Append(u, "/")) = Segments(u) /\ Append(u, "/") \in Text
    OBVIOUS
  <2>1. Seen(Append(u, "/")).names = Seen(u).names
    BY SeenSlash
  <2> QED
    BY <2>1, WebDavAssumption DEF Segments, Seen, Start, Text
<1>2. \A u \in Text : Front(Append(u, "/")) = u
  <2> SUFFICES ASSUME NEW u \in Text
               PROVE  Front(Append(u, "/")) = u
    OBVIOUS
  <2>1. Append(u, "/") \in Text /\ Len(Append(u, "/")) = Len(u) + 1 /\ Len(u) \in Nat
    BY WebDavAssumption DEF Text
  <2> DEFINE t == Append(u, "/")
             f == SubSeq(t, 1, Len(u))
  <2>2. \A i \in 1 .. Len(u) : t[i] = u[i]
    BY DEF Text
  <2>3. f \in Text /\ Len(f) = Len(u) /\ \A i \in 1 .. Len(u) : f[i] = t[i]
    <3>1. Len(u) \in 0 .. Len(t) /\ t \in Seq(Symbols)
      BY <2>1 DEF Text
    <3> HIDE DEF t
    <3> QED
      BY <3>1, FirstPart DEF Text
  <2>4. f = u
    <3> HIDE DEF f, t
    <3> QED
      BY <2>2, <2>3, SeqEqual DEF Text
  <2> QED
    BY <2>1, <2>4 DEF Front
<1>3. CASE EndsInSlash(s)
  <2>1. WithSlash(s) = s
    BY <1>3 DEF WithSlash
  <2>2. CASE s = <<>>
    BY <1>3, <2>1, <2>2 DEF WithoutSlash, Text
  <2>3. CASE s # <<>>
    <3>1. PICK u \in Text, c \in Symbols : s = Append(u, c)
      BY <2>3, SequenceEmptyOrAppend DEF Text
    <3>2. c = "/"
      BY <1>3, <2>3, <3>1 DEF EndsInSlash, Last, Text
    <3>3. WithoutSlash(s) = u
      BY <1>2, <2>3, <3>1, <3>2 DEF WithoutSlash
    <3>4. Segments(s) = Segments(u)
      BY <1>1, <3>1, <3>2
    <3> QED
      BY <1>3, <2>1, <3>3, <3>4
  <2> QED
    BY <2>2, <2>3
<1>4. CASE ~EndsInSlash(s)
  <2>1. WithSlash(s) = Append(s, "/")
    BY <1>4 DEF WithSlash
  <2>2. Append(s, "/") # <<>> /\ EndsInSlash(Append(s, "/"))
    BY WebDavAssumption DEF EndsInSlash, Last, Text
  <2>3. WithoutSlash(Append(s, "/")) = s
    BY <1>2, <2>2 DEF WithoutSlash
  <2> QED
    BY <1>1, <2>1, <2>2, <2>3
<1> QED
  BY <1>3, <1>4

(* The directories of a path are made from the first to the last.          *)
LEMMA DirectoriesOfPath ==
    ASSUME NEW j \in Job, j.form = "mujin"
    PROVE  EnsureWebDAVDirectories(j.path)
              = [i \in 1 .. Len(Segments(Meant(j))) |->
                    Item("mkcol", SubSeq(Segments(Meant(j)), 1, i), <<>>)]
<1> DEFINE p == Segments(Meant(j))
<1>1. NamesOf(j.path) = p /\ j.path \in Text
  BY EncodedIsMeant DEF Job, Text
<1>2. p \in Seq(Name)
  BY <1>1, NamesAreSeen
<1> HIDE DEF p
<1>3. ASSUME NEW i \in 1 .. Len(p)
      PROVE  Segments(Joined(SubSeq(p, 1, i))) = SubSeq(p, 1, i)
  <2>1. SubSeq(p, 1, i) \in Seq(Name)
    BY <1>2, FirstPart
  <2> QED
    BY <2>1, JoinedAreSeen
<1>4. EnsureWebDAVDirectories(j.path) = [i \in 1 .. Len(p) |-> MkCol(Joined(SubSeq(p, 1, i)))]
  BY <1>1, <1>2 DEF EnsureWebDAVDirectories
<1>5. \A i \in 1 .. Len(p) : MkCol(Joined(SubSeq(p, 1, i))) = Item("mkcol", SubSeq(p, 1, i), <<>>)
  BY <1>3 DEF MkCol
<1> QED
  BY <1>4, <1>5 DEF p
=============================================================================
