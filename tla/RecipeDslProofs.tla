-------------------------- MODULE RecipeDslProofs --------------------------
(***************************************************************************)
(* What the parser of RecipeDsl returns, and that printing a recipe and    *)
(* parsing it again returns the recipe: for texts of any length, any words,*)
(* any set of repeat suffixes and any width of a count.                    *)
(*                                                                         *)
(* Every loop of the language is a Scan. That one exists and what it does  *)
(* at each step is shown once (LoopFunction), and whatever is said of all  *)
(* its steps is shown of the first and carried from each to the next       *)
(* (Climb).                                                                *)
(***************************************************************************)
EXTENDS RecipeDsl, SequenceTheorems, FiniteSetTheorems, WellFoundedInduction, TLAPS

-----------------------------------------------------------------------------
(* Tokens, positions and loops.                                            *)

\* What a text is made of.
Token == STRING \union Repeats \union {GAP, COMMA, "=", "->", "(", ")", "[", "]"}

\* The punctuation and the suffixes are tokens.
LEMMA MarksAreTokens ==
  /\ {GAP, COMMA, "=", "->", "(", ")", "[", "]"} \subseteq Token
  /\ Repeats \subseteq Token
BY DEF Token

\* The comma and the blank line are no other mark.
LEMMA MarksDiffer ==
  /\ COMMA \notin {GAP, "=", "->", "(", ")", "[", "]"}
  /\ GAP \notin {"=", "->", "(", ")", "[", "]"}
BY Zenon DEF COMMA, GAP

\* A set of numbers that is not empty has a least one.
LEMMA LeastPosition ==
  ASSUME NEW I, I \subseteq Nat, I # {}
  PROVE  Min(I) \in I /\ \A j \in I : Min(I) <= j
<1>1. PICK i \in I : \A j \in I : ~(<<j, i>> \in OpToRel(<, Nat))
  BY NatLessThanWellFounded, WFMin, Zenon
<1>2. \A j \in I : j \in Nat
  OBVIOUS
<1>3. ASSUME NEW j \in I
      PROVE  i <= j
  <2>1. i \in Nat /\ j \in Nat
    BY <1>2
  <2>2. ~(j < i)
    BY <1>1, <2>1 DEF OpToRel
  <2> QED
    BY <2>1, <2>2
<1> QED
  BY <1>3 DEF Min

\* A set of positions that is not empty has a last one.
LEMMA GreatestPosition ==
  ASSUME NEW n \in Nat, NEW I, I \subseteq 1 .. n, I # {}
  PROVE  Max(I) \in I /\ \A j \in I : j <= Max(I)
<1>. DEFINE H == {h \in Nat : \A j \in I : j <= h}
<1>1. H # {} /\ H \subseteq Nat
  <2>1. n \in H
    OBVIOUS
  <2> QED BY <2>1
<1>. HIDE DEF H
<1>2. Min(H) \in H /\ \A h \in H : Min(H) <= h
  BY <1>1, LeastPosition
<1>. DEFINE m == Min(H)
<1>3. m \in Nat /\ \A j \in I : j <= m
  BY <1>2 DEF H
<1>4. m \in I
  <2>1. SUFFICES ASSUME m \notin I PROVE FALSE
    OBVIOUS
  <2>2. PICK j \in I : TRUE
    OBVIOUS
  <2>3. m - 1 \in Nat /\ \A i \in I : i <= m - 1
    BY <1>3, <2>1, <2>2
  <2>4. m - 1 \in H
    BY <2>3 DEF H
  <2> QED BY <2>4, <1>2, <1>3
<1>. HIDE DEF m
<1> QED BY <1>3, <1>4 DEF Max

\* A set that holds 0 and never stops below n holds every number up to n: of
\* the ones missing there would be a least.
LEMMA Climb ==
  ASSUME NEW n \in Nat, NEW S, 0 \in S,
         \A k \in 1 .. n : k - 1 \in S => k \in S
  PROVE  \A k \in 0 .. n : k \in S
<1>. DEFINE I == {k \in 0 .. n : k \notin S}
<1>1. SUFFICES ASSUME I # {} PROVE FALSE
  OBVIOUS
<1>2. Min(I) \in I /\ \A j \in I : Min(I) <= j
  BY <1>1, LeastPosition
<1>3. Min(I) \in 1 .. n /\ Min(I) - 1 \notin I
  BY <1>2
<1> QED
  BY <1>2, <1>3

\* f is what a loop from 1 to n makes of the initial value, which stays in T.
IsLoop(f, n, T, initial, step) ==
    /\ f \in [0 .. n -> T]
    /\ f[0] = initial
    /\ \A k \in 1 .. n : f[k] = step[<<k, f[k - 1]>>]
Keeps(f, n, T) ==
    /\ f = [k \in 0 .. n |-> f[k]]
    /\ f[0] \in T
    /\ \A k \in 1 .. n : f[k - 1] \in T => f[k] \in T

\* A loop over the numbers up to n has a result: one of m steps can go on for
\* one more.
LEMMA LoopFunction ==
  ASSUME NEW n \in Nat, NEW T, NEW initial \in T,
         NEW step \in [(1 .. n) \X T -> T]
  PROVE  \E f : IsLoop(f, n, T, initial, step)
<1>. DEFINE Loops(f, m) == /\ f \in [0 .. m -> T]
                           /\ \A k \in 0 .. m :
                                f[k] = IF k = 0 THEN initial ELSE step[<<k, f[k - 1]>>]
            S == {m \in 0 .. n : \E f : Loops(f, m)}
<1>1. 0 \in S
  <2>. DEFINE g == [k \in 0 .. 0 |-> initial]
  <2>1. Loops(g, 0)
    OBVIOUS
  <2>. HIDE DEF g, Loops
  <2>2. 0 \in 0 .. n
    OBVIOUS
  <2> QED BY <2>1, <2>2
<1>2. ASSUME NEW m \in 1 .. n, m - 1 \in S
      PROVE  m \in S
  <2>1. PICK f : Loops(f, m - 1)
    BY <1>2
  <2>. DEFINE g == [k \in 0 .. m |-> IF k = m THEN step[<<m, f[m - 1]>>] ELSE f[k]]
  <2>2. f[m - 1] \in T
    BY <2>1
  <2>3. step[<<m, f[m - 1]>>] \in T
    BY <2>2
  <2>4. \A k \in 0 .. m : k # m => k \in 0 .. m - 1
    OBVIOUS
  <2>5. g \in [0 .. m -> T]
    BY <2>1, <2>3, <2>4
  <2>6. \A k \in 0 .. m : g[k] = IF k = 0 THEN initial ELSE step[<<k, g[k - 1]>>]
    <3> TAKE k \in 0 .. m
    <3>1. CASE k = m
      <4>1. g[m - 1] = f[m - 1]
        OBVIOUS
      <4>2. m # 0 /\ g[m] = step[<<m, f[m - 1]>>]
        OBVIOUS
      <4>. HIDE DEF g
      <4> QED BY <3>1, <4>1, <4>2
    <3>2. CASE k # m
      <4>1. g[k] = f[k] /\ k \in 0 .. m - 1
        BY <3>2
      <4>2. k # 0 => g[k - 1] = f[k - 1]
        BY <3>2
      <4> QED BY <4>1, <4>2, <2>1
    <3> QED BY <3>1, <3>2
  <2>. HIDE DEF g
  <2>7. Loops(g, m)
    BY <2>5, <2>6
  <2> QED BY <2>7
<1>. HIDE DEF S
<1>3. n \in S
  BY <1>1, <1>2, Climb
<1>4. PICK f : Loops(f, n)
  BY <1>3 DEF S
<1>5. IsLoop(f, n, T, initial, step)
  <2>1. f[0] = initial
    <3>1. 0 \in 0 .. n
      OBVIOUS
    <3>2. f[0] = IF 0 = 0 THEN initial ELSE step[<<0, f[0 - 1]>>]
      BY <1>4, <3>1, Zenon
    <3> QED BY <3>2
  <2>2. ASSUME NEW k \in 1 .. n PROVE f[k] = step[<<k, f[k - 1]>>]
    <3>1. k \in 0 .. n /\ k # 0
      OBVIOUS
    <3>2. f[k] = IF k = 0 THEN initial ELSE step[<<k, f[k - 1]>>]
      BY <1>4, <3>1, Zenon
    <3> QED BY <3>1, <3>2
  <2> QED BY <1>4, <2>1, <2>2 DEF IsLoop
<1> QED BY <1>5

\* What a loop keeps at every step it has at the end.
LEMMA LoopType ==
  ASSUME NEW n \in Nat, NEW T, NEW f, Keeps(f, n, T)
  PROVE  f \in [0 .. n -> T]
<1>. USE DEF Keeps
<1>. DEFINE S == {k \in 0 .. n : f[k] \in T}
<1>1. 0 \in S
  OBVIOUS
<1>2. \A k \in 1 .. n : k - 1 \in S => k \in S
  OBVIOUS
<1>3. \A k \in 0 .. n : k \in S
  <2>. HIDE DEF S
  <2> QED BY <1>1, <1>2, Climb
<1> QED BY <1>3

\* The depth counts the parentheses that are open (split_parallel_actions,
\* find_repeat_caret).
LEMMA DepthCount ==
  ASSUME NEW s \in Seq(Token)
  PROVE  /\ Depth(s) \in [0 .. Len(s) -> Nat]
         /\ Depth(s)[0] = 0
         /\ \A k \in 1 .. Len(s) :
              Depth(s)[k] = IF s[k] = "(" THEN Depth(s)[k - 1] + 1
                            ELSE IF s[k] = ")" /\ Depth(s)[k - 1] > 0 THEN Depth(s)[k - 1] - 1
                            ELSE Depth(s)[k - 1]
<1>. DEFINE n == Len(s)
            Turn(k, depth) == IF s[k] = "(" THEN depth + 1
                           ELSE IF s[k] = ")" /\ depth > 0 THEN depth - 1
                           ELSE depth
            step == [p \in (1 .. n) \X Nat |-> Turn(p[1], p[2])]
<1>1. step \in [(1 .. n) \X Nat -> Nat]
  OBVIOUS
<1>2. \A k \in 1 .. n, d \in Nat : step[<<k, d>>] = Turn(k, d)
  OBVIOUS
<1>. HIDE DEF step
<1>3. PICK f : IsLoop(f, n, Nat, 0, step)
  <2>1. n \in Nat /\ 0 \in Nat
    OBVIOUS
  <2>. HIDE DEF n
  <2> QED BY <1>1, <2>1, LoopFunction
<1>4. f = [k \in 0 .. n |-> IF k = 0 THEN 0 ELSE Turn(k, f[k - 1])]
  <2>1. ASSUME NEW k \in 1 .. n PROVE f[k] = Turn(k, f[k - 1])
    <3>1. f[k - 1] \in Nat
      BY <1>3 DEF IsLoop
    <3>. HIDE DEF Turn
    <3> QED BY <1>2, <1>3, <3>1 DEF IsLoop
  <2>. HIDE DEF Turn
  <2> QED BY <1>3, <2>1 DEF IsLoop
<1>. DEFINE D == CHOOSE g : g = [k \in 0 .. n |-> IF k = 0 THEN 0 ELSE Turn(k, g[k - 1])]
<1>5. Depth(s) = D
  BY DEF Depth, Scan
<1>6. D = [k \in 0 .. n |-> IF k = 0 THEN 0 ELSE Turn(k, D[k - 1])]
  <2>. HIDE DEF Turn
  <2> QED BY <1>4
<1>. HIDE DEF D
<1>7. D[0] = 0 /\ \A k \in 1 .. n : D[k] = Turn(k, D[k - 1])
  <2>. HIDE DEF Turn
  <2> QED BY <1>6
<1>8. D \in [0 .. n -> Nat]
  <2>1. \A k \in 1 .. n : D[k - 1] \in Nat => D[k] \in Nat
    BY <1>7
  <2>2. D = [k \in 0 .. n |-> D[k]]
    <3>. HIDE DEF Turn
    <3> QED BY <1>6
  <2>3. Keeps(D, n, Nat)
    <3>. HIDE DEF n
    <3> QED BY <2>1, <2>2, <1>7 DEF Keeps
  <2> QED BY <2>3, LoopType
<1> QED
  BY <1>5, <1>7, <1>8

\* The parts of a text as its loop leaves them after each token.
LEMMA PiecesLoop ==
  ASSUME NEW s \in Seq(Token), NEW cuts
  PROVE  \E f \in [0 .. Len(s) -> {ps \in Seq(Seq(Token)) : Len(ps) > 0}] :
           /\ f[0] = << <<>> >>
           /\ \A k \in 1 .. Len(s) :
                f[k] = IF k \in cuts THEN Append(f[k - 1], <<>>)
                       ELSE Append(Front(f[k - 1]), Append(Last(f[k - 1]), s[k]))
           /\ Pieces(s, cuts) = f[Len(s)]
<1>. DEFINE n == Len(s)
            T == {ps \in Seq(Seq(Token)) : Len(ps) > 0}
            Turn(k, acc) == IF k \in cuts THEN Append(acc, <<>>)
                            ELSE Append(Front(acc), Append(Last(acc), s[k]))
            step == [p \in (1 .. n) \X T |-> Turn(p[1], p[2])]
<1>0. n \in Nat /\ << <<>> >> \in T
  OBVIOUS
<1>1. ASSUME NEW k \in 1 .. n, NEW acc \in T
      PROVE  Turn(k, acc) \in T
  <2>1. acc \in Seq(Seq(Token)) /\ Len(acc) > 0 /\ s[k] \in Token
    OBVIOUS
  <2>2. Last(acc) \in Seq(Token) /\ Front(acc) \in Seq(Seq(Token))
    BY <2>1 DEF Last, Front
  <2>3. Append(Last(acc), s[k]) \in Seq(Token)
    BY <2>1, <2>2
  <2>4. Append(acc, <<>>) \in T
    BY <2>1
  <2>5. Append(Front(acc), Append(Last(acc), s[k])) \in T
    BY <2>2, <2>3
  <2> QED BY <2>4, <2>5
<1>2. /\ step \in [(1 .. n) \X T -> T]
      /\ \A k \in 1 .. n, acc \in T : step[<<k, acc>>] = Turn(k, acc)
  <2>. HIDE DEF Turn, T, n
  <2> QED BY <1>1
<1>. HIDE DEF step, T
<1>3. PICK f : IsLoop(f, n, T, << <<>> >>, step)
  <2>. HIDE DEF n
  <2> QED BY <1>0, <1>2, LoopFunction
<1>4. f = [k \in 0 .. n |-> IF k = 0 THEN << <<>> >> ELSE Turn(k, f[k - 1])]
  <2>. HIDE DEF Turn, n
  <2>1. ASSUME NEW k \in 1 .. n PROVE f[k] = Turn(k, f[k - 1])
    <3>1. f[k - 1] \in T
      BY <1>0, <1>3 DEF IsLoop
    <3> QED BY <1>2, <1>3, <3>1 DEF IsLoop
  <2>2. f \in [0 .. n -> T] /\ f[0] = << <<>> >>
    BY <1>3 DEF IsLoop
  <2> QED BY <1>0, <2>1, <2>2
<1>. DEFINE D == CHOOSE g : g = [k \in 0 .. n |-> IF k = 0 THEN << <<>> >> ELSE Turn(k, g[k - 1])]
<1>5. D = [k \in 0 .. n |-> IF k = 0 THEN << <<>> >> ELSE Turn(k, D[k - 1])]
  <2>. HIDE DEF Turn, n
  <2> QED BY <1>4
<1>6. Pieces(s, cuts) = D[n]
  BY DEF Pieces, Scan
<1>. HIDE DEF D
<1>7. D[0] = << <<>> >> /\ \A k \in 1 .. n : D[k] = Turn(k, D[k - 1])
  <2>. HIDE DEF Turn, n
  <2> QED BY <1>0, <1>5
<1>8. D \in [0 .. n -> T]
  <2>. HIDE DEF Turn, n
  <2>1. \A k \in 1 .. n : D[k - 1] \in T => D[k] \in T
    BY <1>1, <1>7
  <2>2. D = [k \in 0 .. n |-> D[k]]
    BY <1>5
  <2>3. Keeps(D, n, T)
    BY <2>1, <2>2, <1>0, <1>7 DEF Keeps
  <2> QED BY <2>3, <1>0, LoopType
<1> QED
  BY <1>6, <1>7, <1>8 DEF T

\* The parts that are kept, as their loop leaves them after each part.
LEMMA NonEmptyLoop ==
  ASSUME NEW ps \in Seq(Seq(Token))
  PROVE  \E f \in [0 .. Len(ps) -> Seq(Seq(Token))] :
           /\ f[0] = <<>>
           /\ \A k \in 1 .. Len(ps) :
                f[k] = IF ps[k] = <<>> THEN f[k - 1] ELSE Append(f[k - 1], ps[k])
           /\ NonEmpty(ps) = f[Len(ps)]
<1>. DEFINE n == Len(ps)
            T == Seq(Seq(Token))
            Turn(k, acc) == IF ps[k] = <<>> THEN acc ELSE Append(acc, ps[k])
            step == [p \in (1 .. n) \X T |-> Turn(p[1], p[2])]
<1>0. n \in Nat /\ <<>> \in T
  OBVIOUS
<1>1. ASSUME NEW k \in 1 .. n, NEW acc \in T
      PROVE  Turn(k, acc) \in T
  <2>1. ps[k] \in Seq(Token)
    OBVIOUS
  <2>2. Append(acc, ps[k]) \in Seq(Seq(Token))
    BY <2>1, AppendProperties
  <2> QED BY <2>2
<1>2. /\ step \in [(1 .. n) \X T -> T]
      /\ \A k \in 1 .. n, acc \in T : step[<<k, acc>>] = Turn(k, acc)
  <2>. HIDE DEF Turn, T, n
  <2> QED BY <1>1
<1>. HIDE DEF step, T
<1>3. PICK f : IsLoop(f, n, T, <<>>, step)
  <2>. HIDE DEF n
  <2> QED BY <1>0, <1>2, LoopFunction
<1>4. f = [k \in 0 .. n |-> IF k = 0 THEN <<>> ELSE Turn(k, f[k - 1])]
  <2>. HIDE DEF Turn, n
  <2>1. ASSUME NEW k \in 1 .. n PROVE f[k] = Turn(k, f[k - 1])
    <3>1. f[k - 1] \in T
      BY <1>0, <1>3 DEF IsLoop
    <3> QED BY <1>2, <1>3, <3>1 DEF IsLoop
  <2>2. f \in [0 .. n -> T] /\ f[0] = <<>>
    BY <1>3 DEF IsLoop
  <2> QED BY <1>0, <2>1, <2>2
<1>. DEFINE D == CHOOSE g : g = [k \in 0 .. n |-> IF k = 0 THEN <<>> ELSE Turn(k, g[k - 1])]
<1>5. D = [k \in 0 .. n |-> IF k = 0 THEN <<>> ELSE Turn(k, D[k - 1])]
  <2>. HIDE DEF Turn, n
  <2> QED BY <1>4
<1>6. NonEmpty(ps) = D[n]
  BY DEF NonEmpty, Scan
<1>. HIDE DEF D
<1>7. D[0] = <<>> /\ \A k \in 1 .. n : D[k] = Turn(k, D[k - 1])
  <2>. HIDE DEF Turn, n
  <2> QED BY <1>0, <1>5
<1>8. D \in [0 .. n -> T]
  <2>. HIDE DEF Turn, n
  <2>1. \A k \in 1 .. n : D[k - 1] \in T => D[k] \in T
    BY <1>1, <1>7
  <2>2. D = [k \in 0 .. n |-> D[k]]
    BY <1>5
  <2>3. Keeps(D, n, T)
    BY <2>1, <2>2, <1>0, <1>7 DEF Keeps
  <2> QED BY <2>3, <1>0, LoopType
<1> QED
  BY <1>6, <1>7, <1>8 DEF T

\* The joined text as its loop leaves it after each part.
LEMMA JoinLoop ==
  ASSUME NEW ps \in Seq(Seq(Token)), NEW sep \in Seq(Token)
  PROVE  \E f \in [0 .. Len(ps) -> Seq(Token)] :
           /\ f[0] = <<>>
           /\ \A k \in 1 .. Len(ps) :
                f[k] = IF k = 1 THEN ps[1] ELSE f[k - 1] \o sep \o ps[k]
           /\ Join(ps, sep) = f[Len(ps)]
<1>. DEFINE n == Len(ps)
            T == Seq(Token)
            Turn(k, acc) == IF k = 1 THEN ps[1] ELSE acc \o sep \o ps[k]
            step == [p \in (1 .. n) \X T |-> Turn(p[1], p[2])]
<1>0. n \in Nat /\ <<>> \in T
  OBVIOUS
<1>1. ASSUME NEW k \in 1 .. n, NEW acc \in T
      PROVE  Turn(k, acc) \in T
  <2>1. ps[k] \in Seq(Token) /\ ps[1] \in Seq(Token)
    OBVIOUS
  <2>2. acc \o sep \o ps[k] \in Seq(Token)
    BY <2>1
  <2> QED BY <2>1, <2>2
<1>2. /\ step \in [(1 .. n) \X T -> T]
      /\ \A k \in 1 .. n, acc \in T : step[<<k, acc>>] = Turn(k, acc)
  <2>. HIDE DEF Turn, T, n
  <2> QED BY <1>1
<1>. HIDE DEF step, T
<1>3. PICK f : IsLoop(f, n, T, <<>>, step)
  <2>. HIDE DEF n
  <2> QED BY <1>0, <1>2, LoopFunction
<1>4. f = [k \in 0 .. n |-> IF k = 0 THEN <<>> ELSE Turn(k, f[k - 1])]
  <2>. HIDE DEF Turn, n
  <2>1. ASSUME NEW k \in 1 .. n PROVE f[k] = Turn(k, f[k - 1])
    <3>1. f[k - 1] \in T
      BY <1>0, <1>3 DEF IsLoop
    <3> QED BY <1>2, <1>3, <3>1 DEF IsLoop
  <2>2. f \in [0 .. n -> T] /\ f[0] = <<>>
    BY <1>3 DEF IsLoop
  <2> QED BY <1>0, <2>1, <2>2
<1>. DEFINE D == CHOOSE g : g = [k \in 0 .. n |-> IF k = 0 THEN <<>> ELSE Turn(k, g[k - 1])]
<1>5. D = [k \in 0 .. n |-> IF k = 0 THEN <<>> ELSE Turn(k, D[k - 1])]
  <2>. HIDE DEF Turn, n
  <2> QED BY <1>4
<1>6. Join(ps, sep) = D[n]
  BY DEF Join, Scan
<1>. HIDE DEF D
<1>7. D[0] = <<>> /\ \A k \in 1 .. n : D[k] = Turn(k, D[k - 1])
  <2>. HIDE DEF Turn, n
  <2> QED BY <1>0, <1>5
<1>8. D \in [0 .. n -> T]
  <2>. HIDE DEF Turn, n
  <2>1. \A k \in 1 .. n : D[k - 1] \in T => D[k] \in T
    BY <1>1, <1>7
  <2>2. D = [k \in 0 .. n |-> D[k]]
    BY <1>5
  <2>3. Keeps(D, n, T)
    BY <2>1, <2>2, <1>0, <1>7 DEF Keeps
  <2> QED BY <2>3, <1>0, LoopType
<1> QED
  BY <1>6, <1>7, <1>8 DEF T

-----------------------------------------------------------------------------
(* Texts.                                                                  *)

\* A sequence of one.
LEMMA OneToken ==
  ASSUME NEW S, NEW x \in S
  PROVE  <<x>> \in Seq(S) /\ Len(<<x>>) = 1 /\ <<x>>[1] = x
OBVIOUS

\* What a concatenation has where.
LEMMA Glue ==
  ASSUME NEW u \in Seq(Token), NEW v \in Seq(Token)
  PROVE  /\ u \o v \in Seq(Token)
         /\ Len(u \o v) = Len(u) + Len(v)
         /\ \A i \in 1 .. Len(u) : (u \o v)[i] = u[i]
         /\ \A i \in 1 .. Len(v) : (u \o v)[Len(u) + i] = v[i]
<1>. DEFINE c == u \o v
<1>1. /\ c \in Seq(Token) /\ Len(c) = Len(u) + Len(v)
      /\ \A i \in 1 .. Len(u) + Len(v) :
           c[i] = IF i <= Len(u) THEN u[i] ELSE v[i - Len(u)]
  BY ConcatProperties
<1>2. Len(u) \in Nat /\ Len(v) \in Nat
  OBVIOUS
<1>. HIDE DEF c
<1>3. ASSUME NEW i \in 1 .. Len(v) PROVE c[Len(u) + i] = v[i]
  <2>1. /\ Len(u) + i \in 1 .. Len(u) + Len(v)
        /\ ~(Len(u) + i <= Len(u))
        /\ Len(u) + i - Len(u) = i
    BY <1>2
  <2> QED BY <1>1, <2>1
<1> QED BY <1>1, <1>2, <1>3 DEF c

\* Two texts with a separator between them.
Parted(u, x, p) == u \o <<x>> \o p

IsParted(s, u, x, p) ==
    /\ s \in Seq(Token)
    /\ Len(s) = Len(u) + 1 + Len(p)
    /\ \A i \in 1 .. Len(u) : s[i] = u[i]
    /\ s[Len(u) + 1] = x
    /\ \A i \in 1 .. Len(p) : s[Len(u) + 1 + i] = p[i]

\* What a text of two parts and a separator has where.
LEMMA PartedText ==
  ASSUME NEW u \in Seq(Token), NEW x \in Token, NEW p \in Seq(Token)
  PROVE  IsParted(Parted(u, x, p), u, x, p)
<1>. DEFINE y == <<x>>
            v == u \o y
<1>1. y \in Seq(Token) /\ Len(y) = 1 /\ y[1] = x
  OBVIOUS
<1>. HIDE DEF y
<1>2. /\ v \in Seq(Token)
      /\ Len(v) = Len(u) + Len(y)
      /\ \A i \in 1 .. Len(u) : v[i] = u[i]
      /\ \A i \in 1 .. Len(y) : v[Len(u) + i] = y[i]
  BY <1>1, Glue
<1>. HIDE DEF v
<1>3. v[Len(u) + 1] = x
  <2>1. 1 \in 1 .. Len(y)
    BY <1>1
  <2> QED BY <1>1, <1>2, <2>1
<1>4. /\ v \o p \in Seq(Token)
      /\ Len(v \o p) = Len(v) + Len(p)
      /\ \A i \in 1 .. Len(v) : (v \o p)[i] = v[i]
      /\ \A i \in 1 .. Len(p) : (v \o p)[Len(v) + i] = p[i]
  <2>1. v \in Seq(Token)
    BY <1>2
  <2> QED BY <2>1, Glue
<1>5. Len(u) + 1 \in 1 .. Len(v) /\ Len(v) = Len(u) + 1
      /\ \A i \in 1 .. Len(u) : i \in 1 .. Len(v)
  BY <1>1, <1>2
<1>6. Parted(u, x, p) = v \o p
  BY DEF Parted, v, y
<1>. DEFINE w == v \o p
<1>. HIDE DEF w
<1>7. /\ w \in Seq(Token)
      /\ Len(w) = Len(v) + Len(p)
      /\ \A i \in 1 .. Len(v) : w[i] = v[i]
      /\ \A i \in 1 .. Len(p) : w[Len(v) + i] = p[i]
  BY <1>4 DEF w
<1>8. Parted(u, x, p) = w
  BY <1>6 DEF w
<1>9. IsParted(w, u, x, p)
  BY <1>2, <1>3, <1>5, <1>7 DEF IsParted
<1> QED BY <1>8, <1>9

-----------------------------------------------------------------------------
(* Where a token is.                                                       *)

\* find returns the first place, or 0.
LEMMA FindFirst ==
  ASSUME NEW s \in Seq(Token), NEW token
  PROVE  /\ Find(s, token) \in 0 .. Len(s)
         /\ Find(s, token) = 0 => \A i \in 1 .. Len(s) : s[i] # token
         /\ Find(s, token) # 0 =>
              /\ s[Find(s, token)] = token
              /\ \A i \in 1 .. Find(s, token) - 1 : s[i] # token
<1>. DEFINE I == {i \in 1 .. Len(s) : s[i] = token}
<1>1. Find(s, token) = IF I # {} THEN Min(I) ELSE 0
  BY DEF Find, SelectInSeq
<1>2. CASE I = {}
  BY <1>1, <1>2
<1>3. CASE I # {}
  <2>0. I \subseteq Nat
    OBVIOUS
  <2>1. Min(I) \in I /\ \A j \in I : Min(I) <= j
    BY <1>3, <2>0, LeastPosition
  <2>. DEFINE m == Min(I)
  <2>2. m \in 1 .. Len(s) /\ s[m] = token
    BY <2>1
  <2>3. \A i \in 1 .. m - 1 : s[i] # token
    BY <2>1, <2>2
  <2>4. Find(s, token) = m
    BY <1>1, <1>3
  <2>. HIDE DEF m
  <2> QED BY <2>2, <2>3, <2>4
<1> QED BY <1>2, <1>3

\* The first place is what find returns.
LEMMA FindIs ==
  ASSUME NEW s \in Seq(Token), NEW i \in 1 .. Len(s), \A j \in 1 .. i - 1 : s[j] # s[i]
  PROVE  Find(s, s[i]) = i
<1>. DEFINE f == Find(s, s[i])
<1>1. /\ f \in 0 .. Len(s)
      /\ f = 0 => \A j \in 1 .. Len(s) : s[j] # s[i]
      /\ f # 0 => s[f] = s[i] /\ \A j \in 1 .. f - 1 : s[j] # s[i]
  BY FindFirst
<1>. HIDE DEF f
<1> QED BY <1>1 DEF f

\* rfind returns the last place, or 0.
LEMMA FindLast ==
  ASSUME NEW s \in Seq(Token), NEW token
  PROVE  /\ RFind(s, token) \in 0 .. Len(s)
         /\ RFind(s, token) = 0 => \A i \in 1 .. Len(s) : s[i] # token
         /\ RFind(s, token) # 0 =>
              /\ s[RFind(s, token)] = token
              /\ \A i \in RFind(s, token) + 1 .. Len(s) : s[i] # token
<1>. DEFINE I == {i \in 1 .. Len(s) : s[i] = token}
<1>1. RFind(s, token) = IF I # {} THEN Max(I) ELSE 0
  BY DEF RFind, SelectLastInSeq
<1>2. CASE I = {}
  BY <1>1, <1>2
<1>3. CASE I # {}
  <2>0. Len(s) \in Nat /\ I \subseteq 1 .. Len(s)
    OBVIOUS
  <2>1. Max(I) \in I /\ \A j \in I : j <= Max(I)
    BY <1>3, <2>0, GreatestPosition
  <2>. DEFINE m == Max(I)
  <2>2. m \in 1 .. Len(s) /\ s[m] = token
    BY <2>1
  <2>3. \A i \in m + 1 .. Len(s) : s[i] # token
    BY <2>1, <2>2
  <2>4. RFind(s, token) = m
    BY <1>1, <1>3
  <2>. HIDE DEF m
  <2> QED BY <2>2, <2>3, <2>4
<1> QED BY <1>2, <1>3

-----------------------------------------------------------------------------
(* What Pieces cuts.                                                       *)

\* p stands in s between two neighbours among the cuts and the ends of s.
Uncut(s, cuts, p, a, b) ==
    /\ p = SubSeq(s, a + 1, b)
    /\ a = 0 \/ a \in cuts
    /\ \A i \in a + 1 .. b : i \notin cuts

\* Every part of a text stands between two neighbouring cuts.
LEMMA PiecesAreUncut ==
  ASSUME NEW s \in Seq(Token), NEW cuts
  PROVE  /\ Pieces(s, cuts) \in Seq(Seq(Token))
         /\ \A q \in 1 .. Len(Pieces(s, cuts)) :
              \E a \in 0 .. Len(s) : \E b \in a .. Len(s) :
                Uncut(s, cuts, Pieces(s, cuts)[q], a, b)
<1>. DEFINE n == Len(s)
            T == {ps \in Seq(Seq(Token)) : Len(ps) > 0}
            Part(p) == \E a \in 0 .. n : \E b \in a .. n : Uncut(s, cuts, p, a, b)
<1>1. PICK f \in [0 .. n -> T] :
        /\ f[0] = << <<>> >>
        /\ \A k \in 1 .. n :
             f[k] = IF k \in cuts THEN Append(f[k - 1], <<>>)
                    ELSE Append(Front(f[k - 1]), Append(Last(f[k - 1]), s[k]))
        /\ Pieces(s, cuts) = f[n]
  BY PiecesLoop
<1>. DEFINE Good(k) == /\ \E a \in 0 .. k : Uncut(s, cuts, Last(f[k]), a, k)
                       /\ \A q \in 1 .. Len(f[k]) : Part(f[k][q])
            S == {k \in 0 .. n : Good(k)}
<1>2. n \in Nat
  OBVIOUS
<1>3. 0 \in S
  <2>1. Last(f[0]) = <<>> /\ Len(f[0]) = 1 /\ f[0][1] = <<>>
    BY <1>1 DEF Last
  <2>2. Uncut(s, cuts, <<>>, 0, 0)
    BY DEF Uncut
  <2>. HIDE DEF n
  <2>3. Part(<<>>)
    BY <2>2, <1>2
  <2>4. Good(0)
    <3>1. \A q \in 1 .. Len(f[0]) : f[0][q] = <<>>
      BY <2>1
    <3>2. 0 \in 0 .. 0
      OBVIOUS
    <3>. HIDE DEF Part
    <3> QED BY <2>1, <2>2, <2>3, <3>1, <3>2
  <2>. HIDE DEF Good
  <2> QED BY <2>4, <1>2
<1>4. ASSUME NEW k \in 1 .. n, k - 1 \in S
      PROVE  k \in S
  <2>. DEFINE old == f[k - 1]
              new == f[k]
  <2>1. old \in Seq(Seq(Token)) /\ Len(old) > 0 /\ s[k] \in Token
    <3>1. k - 1 \in 0 .. n /\ s[k] \in Token
      OBVIOUS
    <3>2. old \in T
      <4>. HIDE DEF T, n
      <4> QED BY <1>1, <3>1
    <3> QED BY <3>1, <3>2
  <2>2. PICK a \in 0 .. k - 1 : Uncut(s, cuts, Last(old), a, k - 1)
    BY <1>4
  <2>3. \A q \in 1 .. Len(old) : Part(old[q])
    BY <1>4
  <2>4. CASE k \in cuts
    <3>1. new = Append(old, <<>>)
      BY <1>1, <2>4
    <3>2. Uncut(s, cuts, <<>>, k, k)
      BY <2>4 DEF Uncut
    <3>3. Last(new) = <<>> /\ Len(new) = Len(old) + 1
      BY <2>1, <3>1 DEF Last
    <3>4. Part(<<>>)
      <4>. HIDE DEF n
      <4> QED BY <3>2, <1>2
    <3>5. ASSUME NEW q \in 1 .. Len(new) PROVE Part(new[q])
      <4>1. q # Len(new) => q \in 1 .. Len(old) /\ new[q] = old[q]
        BY <2>1, <3>1, <3>3
      <4>2. q = Len(new) => new[q] = <<>>
        BY <3>3 DEF Last
      <4>. HIDE DEF Part, new, old
      <4> QED BY <4>1, <4>2, <2>3, <3>4
    <3>. HIDE DEF Part, new, n
    <3>6. \E c \in 0 .. k : Uncut(s, cuts, Last(new), c, k)
      BY <3>2, <3>3, <1>2
    <3> QED BY <3>5, <3>6 DEF new
  <2>5. CASE k \notin cuts
    <3>. DEFINE l == Append(Last(old), s[k])
    <3>1. new = Append(Front(old), l)
      BY <1>1, <2>5
    <3>2. Last(old) \in Seq(Token) /\ l \in Seq(Token)
      BY <2>1 DEF Last
    <3>3. l = SubSeq(s, a + 1, k)
      BY <2>2, <3>2, <1>2 DEF Uncut
    <3>4. Uncut(s, cuts, l, a, k)
      BY <2>2, <2>5, <3>3 DEF Uncut
    <3>5. Front(old) \in Seq(Seq(Token)) /\ Len(Front(old)) = Len(old) - 1
          /\ \A q \in 1 .. Len(old) - 1 : Front(old)[q] = old[q]
      BY <2>1 DEF Front
    <3>6. Last(new) = l /\ Len(new) = Len(old)
      <4>. HIDE DEF l, new
      <4> QED BY <2>1, <3>1, <3>2, <3>5 DEF Last
    <3>7. Part(l)
      <4>. HIDE DEF n, l
      <4>1. a \in 0 .. n /\ k \in a .. n
        BY <1>2
      <4> QED BY <3>4, <4>1
    <3>8. ASSUME NEW q \in 1 .. Len(new) PROVE Part(new[q])
      <4>1. q # Len(new) => q \in 1 .. Len(old) /\ new[q] = old[q]
        BY <2>1, <3>1, <3>2, <3>5, <3>6
      <4>2. q = Len(new) => new[q] = l
        BY <3>6 DEF Last
      <4>. HIDE DEF Part, new, old, l
      <4> QED BY <4>1, <4>2, <2>3, <3>7
    <3>. HIDE DEF Part, new, n, l
    <3>9. \E c \in 0 .. k : Uncut(s, cuts, Last(new), c, k)
      BY <3>4, <3>6, <1>2
    <3> QED BY <3>8, <3>9 DEF new
  <2> QED BY <2>4, <2>5
<1>5. n \in S
  <2>. HIDE DEF S
  <2>1. \A k \in 1 .. n : k - 1 \in S => k \in S
    BY <1>4
  <2>. HIDE DEF n
  <2>2. \A k \in 0 .. n : k \in S
    BY <1>2, <1>3, <2>1, Climb
  <2> QED BY <2>2, <1>2
<1> QED BY <1>1, <1>2, <1>5

\* A text without a cut is one piece.
LEMMA UncutIsOnePiece ==
  ASSUME NEW s \in Seq(Token), NEW cuts, \A i \in 1 .. Len(s) : i \notin cuts
  PROVE  Pieces(s, cuts) = <<s>>
<1>. DEFINE n == Len(s)
            T == {ps \in Seq(Seq(Token)) : Len(ps) > 0}
<1>1. PICK f \in [0 .. n -> T] :
        /\ f[0] = << <<>> >>
        /\ \A k \in 1 .. n :
             f[k] = IF k \in cuts THEN Append(f[k - 1], <<>>)
                    ELSE Append(Front(f[k - 1]), Append(Last(f[k - 1]), s[k]))
        /\ Pieces(s, cuts) = f[n]
  BY PiecesLoop
<1>. DEFINE S == {k \in 0 .. n : f[k] = <<SubSeq(s, 1, k)>>}
<1>2. 0 \in S
  <2>1. SubSeq(s, 1, 0) = <<>>
    OBVIOUS
  <2> QED BY <1>1, <2>1
<1>3. ASSUME NEW k \in 1 .. n, k - 1 \in S
      PROVE  k \in S
  <2>. DEFINE u == SubSeq(s, 1, k - 1)
  <2>1. f[k - 1] = <<u>> /\ u \in Seq(Token) /\ s[k] \in Token
    BY <1>3
  <2>2. Front(<<u>>) = <<>> /\ Last(<<u>>) = u
    BY <2>1 DEF Front, Last
  <2>3. f[k] = Append(<<>>, Append(u, s[k]))
    BY <1>1, <2>1, <2>2
  <2>4. Append(u, s[k]) = SubSeq(s, 1, k)
    OBVIOUS
  <2>. HIDE DEF u
  <2>5. f[k] = <<SubSeq(s, 1, k)>>
    BY <2>3, <2>4
  <2> QED BY <2>5
<1>4. n \in S
  <2>. HIDE DEF S
  <2>1. \A k \in 1 .. n : k - 1 \in S => k \in S
    BY <1>3
  <2>2. n \in Nat
    OBVIOUS
  <2>. HIDE DEF n
  <2>3. \A k \in 0 .. n : k \in S
    BY <1>2, <2>1, <2>2, Climb
  <2> QED BY <2>2, <2>3
<1> QED BY <1>1, <1>4

\* What follows the last cut is the last piece; the others are those before it.
AddsCut(cuts, C, u, p) ==
    /\ \A i \in 1 .. Len(u) : i \in cuts <=> i \in C
    /\ Len(u) + 1 \in cuts
    /\ \A i \in 1 .. Len(p) : Len(u) + 1 + i \notin cuts

\* What follows the last cut is the last part.
LEMMA LastPiece ==
  ASSUME NEW u \in Seq(Token), NEW x \in Token, NEW p \in Seq(Token), NEW cuts, NEW C,
         AddsCut(cuts, C, u, p)
  PROVE  Pieces(Parted(u, x, p), cuts) = Append(Pieces(u, C), p)
<1>. USE DEF AddsCut
<1>. DEFINE m == Len(u)
            l == Len(p)
            s == Parted(u, x, p)
            T == {ps \in Seq(Seq(Token)) : Len(ps) > 0}
<1>0. /\ m \in Nat /\ l \in Nat
      /\ s \in Seq(Token) /\ Len(s) = m + 1 + l
      /\ \A i \in 1 .. m : s[i] = u[i]
      /\ \A i \in 1 .. l : s[m + 1 + i] = p[i]
  <2>1. /\ s \in Seq(Token) /\ Len(s) = m + 1 + l
        /\ \A i \in 1 .. m : s[i] = u[i]
        /\ \A i \in 1 .. l : s[m + 1 + i] = p[i]
    <3>1. /\ s \in Seq(Token) /\ Len(s) = Len(u) + 1 + Len(p)
          /\ \A i \in 1 .. Len(u) : s[i] = u[i]
          /\ \A i \in 1 .. Len(p) : s[Len(u) + 1 + i] = p[i]
      <4>. HIDE DEF m, l, T
      <4>1. IsParted(s, u, x, p)
        BY PartedText
      <4>. HIDE DEF s
      <4> QED BY <4>1 DEF IsParted
    <3>. HIDE DEF s
    <3> QED BY <3>1
  <2>2. m \in Nat /\ l \in Nat
    OBVIOUS
  <2> QED BY <2>1, <2>2
<1>1. PICK f \in [0 .. m + 1 + l -> T] :
        /\ f[0] = << <<>> >>
        /\ \A k \in 1 .. m + 1 + l :
             f[k] = IF k \in cuts THEN Append(f[k - 1], <<>>)
                    ELSE Append(Front(f[k - 1]), Append(Last(f[k - 1]), s[k]))
        /\ Pieces(s, cuts) = f[m + 1 + l]
  <2>. HIDE DEF s, m, l, T
  <2>1. Len(s) = m + 1 + l /\ s \in Seq(Token)
    BY <1>0
  <2>2. PICK f \in [0 .. Len(s) -> {ps \in Seq(Seq(Token)) : Len(ps) > 0}] :
          /\ f[0] = << <<>> >>
          /\ \A k \in 1 .. Len(s) :
               f[k] = IF k \in cuts THEN Append(f[k - 1], <<>>)
                      ELSE Append(Front(f[k - 1]), Append(Last(f[k - 1]), s[k]))
          /\ Pieces(s, cuts) = f[Len(s)]
    BY <2>1, PiecesLoop, Zenon
  <2>3. Len(s) = m + 1 + l
    BY <2>1
  <2> QED BY <2>2, <2>3, Zenon DEF T
<1>2. PICK g \in [0 .. m -> T] :
        /\ g[0] = << <<>> >>
        /\ \A k \in 1 .. m :
             g[k] = IF k \in C THEN Append(g[k - 1], <<>>)
                    ELSE Append(Front(g[k - 1]), Append(Last(g[k - 1]), u[k]))
        /\ Pieces(u, C) = g[m]
  BY PiecesLoop
<1>. HIDE DEF s, m, l, T
<1>3. f[m] = g[m]
  <2>. DEFINE S == {k \in 0 .. m : f[k] = g[k]}
  <2>1. 0 \in S
    <3>1. 0 \in 0 .. m /\ f[0] = g[0]
      BY <1>0, <1>1, <1>2
    <3> QED BY <3>1
  <2>2. ASSUME NEW k \in 1 .. m, k - 1 \in S PROVE k \in S
    <3>1. k \in 1 .. m + 1 + l /\ s[k] = u[k] /\ (k \in cuts <=> k \in C)
      BY <1>0 DEF m
    <3>2. f[k - 1] = g[k - 1]
      BY <2>2
    <3>3. f[k] = g[k]
      BY <1>1, <1>2, <3>1, <3>2
    <3> QED BY <3>3
  <2>. HIDE DEF S
  <2>3. \A k \in 0 .. m : k \in S
    BY <1>0, <2>1, <2>2, Climb
  <2> QED BY <1>0, <2>3 DEF S
<1>. DEFINE P == Pieces(u, C)
<1>4. P \in Seq(Seq(Token)) /\ P = g[m]
  BY <1>0, <1>2 DEF T
<1>5. f[m + 1] = Append(P, <<>>)
  <2>1. m + 1 \in 1 .. m + 1 + l /\ m + 1 \in cuts /\ m + 1 - 1 = m
    BY <1>0 DEF m
  <2>2. f[m + 1] = Append(f[m], <<>>)
    <3>. DEFINE i == m + 1
    <3>1. i \in 1 .. m + 1 + l /\ i \in cuts /\ i - 1 = m
      BY <1>0 DEF m
    <3>. HIDE DEF i
    <3>2. f[i] = Append(f[i - 1], <<>>)
      BY <1>1, <3>1
    <3>3. f[i] = Append(f[m], <<>>)
      BY <3>1, <3>2
    <3> QED BY <3>3 DEF i
  <2> QED BY <1>3, <1>4, <2>2
<1>. HIDE DEF P
<1>. DEFINE S == {k \in 0 .. l : f[m + 1 + k] = Append(P, SubSeq(p, 1, k))}
<1>6. 0 \in S
  <2>1. SubSeq(p, 1, 0) = <<>> /\ m + 1 + 0 = m + 1 /\ 0 \in 0 .. l
    BY <1>0
  <2> QED BY <1>5, <2>1
<1>7. ASSUME NEW k \in 1 .. l, k - 1 \in S PROVE k \in S
  <2>. DEFINE w == SubSeq(p, 1, k - 1)
              i == m + 1 + k
  <2>1. f[i - 1] = Append(P, w)
    BY <1>0, <1>7
  <2>2. /\ i \in 1 .. m + 1 + l /\ i \notin cuts
        /\ s[i] = p[k]
    BY <1>0 DEF m, l
  <2>3. w \in Seq(Token) /\ p[k] \in Token
    BY DEF l
  <2>4. Front(Append(P, w)) = P /\ Last(Append(P, w)) = w
    <3>. HIDE DEF w
    <3> QED BY <1>4, <2>3 DEF Front, Last
  <2>5. f[i] = Append(P, Append(w, p[k]))
    <3>. HIDE DEF w, i
    <3> QED BY <1>1, <2>1, <2>2, <2>4
  <2>6. Append(w, p[k]) = SubSeq(p, 1, k)
    BY DEF l
  <2>7. f[m + 1 + k] = Append(P, SubSeq(p, 1, k))
    BY <2>5, <2>6
  <2> QED BY <2>7
<1>8. l \in S
  <2>. HIDE DEF S
  <2>1. \A k \in 0 .. l : k \in S
    BY <1>0, <1>6, <1>7, Climb
  <2> QED BY <1>0, <2>1
<1>9. SubSeq(p, 1, l) = p
  BY DEF l
<1> QED
  BY <1>1, <1>8, <1>9 DEF s, P

\* The filter drops nothing when no part is empty.
LEMMA NonEmptyOfNonEmpty ==
  ASSUME NEW ps \in Seq(Seq(Token)), \A i \in 1 .. Len(ps) : ps[i] # <<>>
  PROVE  NonEmpty(ps) = ps
<1>. DEFINE n == Len(ps)
<1>1. PICK f \in [0 .. n -> Seq(Seq(Token))] :
        /\ f[0] = <<>>
        /\ \A k \in 1 .. n :
             f[k] = IF ps[k] = <<>> THEN f[k - 1] ELSE Append(f[k - 1], ps[k])
        /\ NonEmpty(ps) = f[n]
  BY NonEmptyLoop
<1>. DEFINE S == {k \in 0 .. n : f[k] = SubSeq(ps, 1, k)}
<1>2. 0 \in S
  BY <1>1
<1>3. ASSUME NEW k \in 1 .. n, k - 1 \in S PROVE k \in S
  <2>1. f[k] = Append(SubSeq(ps, 1, k - 1), ps[k])
    BY <1>1, <1>3
  <2>2. Append(SubSeq(ps, 1, k - 1), ps[k]) = SubSeq(ps, 1, k)
    OBVIOUS
  <2>3. f[k] = SubSeq(ps, 1, k)
    BY <2>1, <2>2
  <2> QED BY <2>3
<1>4. n \in Nat /\ SubSeq(ps, 1, n) = ps
  OBVIOUS
<1>5. n \in S
  <2>. HIDE DEF S, n
  <2>1. \A k \in 0 .. n : k \in S
    BY <1>2, <1>3, <1>4, Climb
  <2> QED BY <1>4, <2>1
<1> QED BY <1>1, <1>4, <1>5

\* The filter keeps parts that are not empty, and makes none up.
LEMMA NonEmptyMembers ==
  ASSUME NEW ps \in Seq(Seq(Token))
  PROVE  /\ NonEmpty(ps) \in Seq(Seq(Token))
         /\ \A q \in 1 .. Len(NonEmpty(ps)) :
              /\ NonEmpty(ps)[q] # <<>>
              /\ \E i \in 1 .. Len(ps) : NonEmpty(ps)[q] = ps[i]
<1>. DEFINE n == Len(ps)
            Kept(p) == p # <<>> /\ \E i \in 1 .. n : p = ps[i]
<1>1. PICK f \in [0 .. n -> Seq(Seq(Token))] :
        /\ f[0] = <<>>
        /\ \A k \in 1 .. n :
             f[k] = IF ps[k] = <<>> THEN f[k - 1] ELSE Append(f[k - 1], ps[k])
        /\ NonEmpty(ps) = f[n]
  BY NonEmptyLoop
<1>. DEFINE S == {k \in 0 .. n : \A q \in 1 .. Len(f[k]) : Kept(f[k][q])}
<1>2. 0 \in S
  BY <1>1
<1>3. ASSUME NEW k \in 1 .. n, k - 1 \in S PROVE k \in S
  <2>1. f[k - 1] \in Seq(Seq(Token))
    BY <1>1
  <2>2. \A q \in 1 .. Len(f[k - 1]) : Kept(f[k - 1][q])
    BY <1>3
  <2>3. CASE ps[k] = <<>>
    <3>1. f[k] = f[k - 1]
      BY <1>1, <2>3
    <3> QED BY <2>2, <3>1
  <2>4. CASE ps[k] # <<>>
    <3>1. f[k] = Append(f[k - 1], ps[k]) /\ Kept(ps[k])
      BY <1>1, <2>4
    <3>2. ASSUME NEW q \in 1 .. Len(f[k]) PROVE Kept(f[k][q])
      <4>1. (q \in 1 .. Len(f[k - 1]) /\ f[k][q] = f[k - 1][q]) \/ f[k][q] = ps[k]
        <5>. DEFINE old == f[k - 1]
        <5>1. old \in Seq(Seq(Token)) /\ f[k] = Append(old, ps[k]) /\ ps[k] \in Seq(Token)
          BY <2>1, <3>1
        <5>. HIDE DEF old
        <5>2. q \in 1 .. Len(old) \/ q = Len(old) + 1
          BY <5>1
        <5>3. q \in 1 .. Len(old) => f[k][q] = old[q]
          BY <5>1
        <5>4. q = Len(old) + 1 => f[k][q] = ps[k]
          BY <5>1
        <5> QED BY <5>2, <5>3, <5>4 DEF old
      <4>. HIDE DEF Kept
      <4> QED BY <2>2, <3>1, <4>1
    <3>. HIDE DEF Kept
    <3> QED BY <3>2
  <2> QED BY <2>3, <2>4
<1>4. n \in Nat
  OBVIOUS
<1>5. n \in S
  <2>. HIDE DEF S, n
  <2>1. \A k \in 0 .. n : k \in S
    BY <1>2, <1>3, <1>4, Climb
  <2> QED BY <1>4, <2>1
<1> QED BY <1>1, <1>4, <1>5

-----------------------------------------------------------------------------
(* How deep parentheses are nested.                                        *)

\* w stands in s after the position a.
StandsAt(w, s, a) == /\ a + Len(w) <= Len(s)
                     /\ \A i \in 1 .. Len(w) : w[i] = s[a + i]

\* Where no parenthesis is open a part of a text is as deep as the text.
LEMMA DepthOfPart ==
  ASSUME NEW s \in Seq(Token), NEW w \in Seq(Token), NEW a \in Nat,
         StandsAt(w, s, a), Depth(s)[a] = 0
  PROVE  \A i \in 0 .. Len(w) : Depth(w)[i] = Depth(s)[a + i]
<1>. DEFINE n == Len(w)
            S == {i \in 0 .. n : Depth(w)[i] = Depth(s)[a + i]}
<1>0. n \in Nat /\ Len(s) \in Nat /\ a + n <= Len(s)
  BY DEF StandsAt
<1>1. 0 \in S
  <2>1. Depth(w)[0] = 0
    BY DepthCount
  <2> QED BY <2>1, <1>0
<1>2. ASSUME NEW k \in 1 .. n, k - 1 \in S PROVE k \in S
  <2>. DEFINE i == a + k
  <2>1. i \in 1 .. Len(s) /\ s[i] = w[k] /\ i - 1 = a + (k - 1)
    BY <1>0 DEF StandsAt
  <2>2. Depth(w)[k - 1] = Depth(s)[i - 1]
    BY <1>2, <2>1
  <2>. HIDE DEF i
  <2>3. Depth(w)[k] = Depth(s)[i]
    <3>1. Depth(s)[i] = IF s[i] = "(" THEN Depth(s)[i - 1] + 1
                        ELSE IF s[i] = ")" /\ Depth(s)[i - 1] > 0 THEN Depth(s)[i - 1] - 1
                        ELSE Depth(s)[i - 1]
      BY <2>1, DepthCount
    <3>2. Depth(w)[k] = IF w[k] = "(" THEN Depth(w)[k - 1] + 1
                        ELSE IF w[k] = ")" /\ Depth(w)[k - 1] > 0 THEN Depth(w)[k - 1] - 1
                        ELSE Depth(w)[k - 1]
      BY DepthCount
    <3> QED BY <2>1, <2>2, <3>1, <3>2
  <2> QED BY <2>3 DEF i
<1>3. \A k \in 0 .. n : k \in S
  <2>. HIDE DEF S, n
  <2> QED BY <1>0, <1>1, <1>2, Climb
<1> QED BY <1>3

\* Between parentheses the depth stays what it is.
LEMMA DepthStays ==
  ASSUME NEW s \in Seq(Token), NEW a \in 0 .. Len(s), NEW b \in a .. Len(s),
         \A i \in a + 1 .. b : s[i] # "(" /\ (s[i] = ")" => Depth(s)[a] = 0)
  PROVE  \A i \in a .. b : Depth(s)[i] = Depth(s)[a]
<1>. DEFINE d == Depth(s)[a]
            S == {k \in 0 .. b - a : Depth(s)[a + k] = d}
<1>0. b - a \in Nat /\ Len(s) \in Nat /\ a \in Nat /\ b \in Nat
  OBVIOUS
<1>1. 0 \in S
  BY <1>0
<1>2. ASSUME NEW k \in 1 .. b - a, k - 1 \in S PROVE k \in S
  <2>. DEFINE i == a + k
  <2>1. i \in 1 .. Len(s) /\ i \in a + 1 .. b /\ i - 1 = a + (k - 1)
    BY <1>0
  <2>2. Depth(s)[i - 1] = d
    BY <1>2, <2>1
  <2>. HIDE DEF i
  <2>3. Depth(s)[i] = d
    <3>1. s[i] # "(" /\ (s[i] = ")" => d = 0)
      BY <2>1
    <3>2. Depth(s)[i] = IF s[i] = "(" THEN Depth(s)[i - 1] + 1
                        ELSE IF s[i] = ")" /\ Depth(s)[i - 1] > 0 THEN Depth(s)[i - 1] - 1
                        ELSE Depth(s)[i - 1]
      BY <2>1, DepthCount
    <3>. HIDE DEF d
    <3> QED BY <2>2, <3>1, <3>2
  <2> QED BY <2>3 DEF i
<1>3. \A k \in 0 .. b - a : k \in S
  <2>. HIDE DEF S
  <2> QED BY <1>0, <1>1, <1>2, Climb
<1>4. ASSUME NEW i \in a .. b PROVE Depth(s)[i] = d
  <2>1. i - a \in 0 .. b - a /\ a + (i - a) = i
    BY <1>0
  <2> QED BY <1>3, <2>1
<1> QED BY <1>4

-----------------------------------------------------------------------------
(* What was joined is cut again where it was joined.                       *)

Lacks(s, tokens) == \A i \in 1 .. Len(s) : s[i] \notin tokens

\* Joining brings in no token but the separator's.
LEMMA JoinLacks ==
  ASSUME NEW ps \in Seq(Seq(Token)), NEW sep \in Seq(Token), NEW tokens,
         Lacks(sep, tokens), \A q \in 1 .. Len(ps) : Lacks(ps[q], tokens)
  PROVE  Join(ps, sep) \in Seq(Token) /\ Lacks(Join(ps, sep), tokens)
<1>. DEFINE n == Len(ps)
<1>1. PICK f \in [0 .. n -> Seq(Token)] :
        /\ f[0] = <<>>
        /\ \A k \in 1 .. n : f[k] = IF k = 1 THEN ps[1] ELSE f[k - 1] \o sep \o ps[k]
        /\ Join(ps, sep) = f[n]
  BY JoinLoop
<1>. DEFINE S == {k \in 0 .. n : Lacks(f[k], tokens)}
<1>0. n \in Nat
  OBVIOUS
<1>2. 0 \in S
  BY <1>1 DEF Lacks
<1>3. ASSUME NEW k \in 1 .. n, k - 1 \in S PROVE k \in S
  <2>1. CASE k = 1
    BY <1>1, <2>1
  <2>2. CASE k # 1
    <3>. DEFINE u == f[k - 1]
                v == u \o sep
    <3>1. u \in Seq(Token) /\ Lacks(u, tokens) /\ ps[k] \in Seq(Token) /\ Lacks(ps[k], tokens)
      <4>1. k - 1 \in 0 .. n /\ k \in 1 .. n
        OBVIOUS
      <4>2. ps[k] \in Seq(Token) /\ Lacks(ps[k], tokens)
        OBVIOUS
      <4>3. u \in Seq(Token)
        BY <1>1, <4>1
      <4>4. Lacks(u, tokens)
        BY <1>3
      <4> QED BY <4>2, <4>3, <4>4
    <3>2. f[k] = v \o ps[k]
      BY <1>1, <2>2
    <3>. HIDE DEF u
    <3>3. v \in Seq(Token) /\ Lacks(v, tokens)
      BY <3>1, Glue DEF Lacks
    <3>. HIDE DEF v
    <3>4. Lacks(v \o ps[k], tokens)
      BY <3>1, <3>3, Glue DEF Lacks
    <3>5. Lacks(f[k], tokens)
      BY <3>2, <3>4
    <3> QED BY <3>5
  <2> QED BY <2>1, <2>2
<1>4. n \in S
  <2>. HIDE DEF S, n
  <2>1. \A k \in 0 .. n : k \in S
    BY <1>0, <1>2, <1>3, Climb
  <2> QED BY <1>0, <2>1
<1> QED BY <1>0, <1>1, <1>4

\* Where s is separated by x: everywhere, or only outside parentheses.
Separators(s, x, outside) ==
    {i \in 1 .. Len(s) : s[i] = x /\ (outside => Depth(s)[i - 1] = 0)}

\* A part without separators that closes what it opens.
Sealed(p, x, outside) ==
    /\ \A i \in 1 .. Len(p) : p[i] = x => outside /\ Depth(p)[i - 1] # 0
    /\ outside => Depth(p)[Len(p)] = 0

DepthsMeet(s, u, p) ==
    /\ \A i \in 0 .. Len(u) : Depth(s)[i] = Depth(u)[i]
    /\ \A i \in 0 .. Len(p) : Depth(s)[Len(u) + 1 + i] = Depth(p)[i]

\* After a part that closes what it opens the next one starts at depth 0.
LEMMA DepthOfParted ==
  ASSUME NEW u \in Seq(Token), NEW x \in Token \ {"(", ")"}, NEW p \in Seq(Token),
         Depth(u)[Len(u)] = 0
  PROVE  DepthsMeet(Parted(u, x, p), u, p)
<1>. DEFINE s == Parted(u, x, p)
            o == Len(u) + 1
<1>1. IsParted(s, u, x, p)
  BY PartedText
<1>. HIDE DEF s
<1>2. Len(u) \in Nat /\ Len(p) \in Nat /\ s \in Seq(Token)
  BY <1>1 DEF IsParted
<1>3. Depth(s)[0] = 0
  BY <1>2, DepthCount
<1>4. StandsAt(u, s, 0)
  BY <1>1, <1>2 DEF IsParted, StandsAt
<1>5. \A i \in 0 .. Len(u) : Depth(s)[i] = Depth(u)[i]
  <2>1. \A i \in 0 .. Len(u) : Depth(u)[i] = Depth(s)[0 + i]
    BY <1>2, <1>3, <1>4, DepthOfPart
  <2> QED BY <1>2, <2>1
<1>6. Depth(s)[o] = 0
  <2>1. o \in 1 .. Len(s) /\ s[o] = x /\ o - 1 = Len(u) /\ Len(u) \in 0 .. Len(u)
    BY <1>1, <1>2 DEF IsParted
  <2>. HIDE DEF o
  <2>2. Depth(s)[o - 1] = 0
    BY <1>5, <2>1
  <2> QED BY <1>2, <2>1, <2>2, DepthCount
<1>7. o \in Nat /\ StandsAt(p, s, o)
  BY <1>1, <1>2 DEF IsParted, StandsAt
<1>8. \A i \in 0 .. Len(p) : Depth(p)[i] = Depth(s)[o + i]
  <2>. HIDE DEF o
  <2> QED BY <1>2, <1>6, <1>7, DepthOfPart
<1> QED BY <1>5, <1>8 DEF DepthsMeet, s

\* Cutting where the parts were joined gives the parts again.
LEMMA PiecesOfJoin ==
  ASSUME NEW ps \in Seq(Seq(Token)), Len(ps) > 0,
         NEW x \in Token \ {"(", ")"}, NEW outside \in BOOLEAN,
         \A q \in 1 .. Len(ps) : Sealed(ps[q], x, outside)
  PROVE  Pieces(Join(ps, <<x>>), Separators(Join(ps, <<x>>), x, outside)) = ps
<1>. DEFINE n == Len(ps)
            sep == <<x>>
            At(s) == Separators(s, x, outside)
            Closed(s) == outside => Depth(s)[Len(s)] = 0
<1>0. n \in Nat /\ sep \in Seq(Token)
  BY OneToken
<1>1. PICK f \in [0 .. n -> Seq(Token)] :
        /\ f[0] = <<>>
        /\ \A k \in 1 .. n : f[k] = IF k = 1 THEN ps[1] ELSE f[k - 1] \o sep \o ps[k]
        /\ Join(ps, sep) = f[n]
  <2>. HIDE DEF sep
  <2> QED BY <1>0, JoinLoop
<1>. DEFINE S == {k \in 0 .. n - 1 : /\ Pieces(f[k + 1], At(f[k + 1])) = SubSeq(ps, 1, k + 1)
                                /\ Closed(f[k + 1])}
<1>2. 0 \in S
  <2>1. f[1] = ps[1] /\ ps[1] \in Seq(Token) /\ Sealed(ps[1], x, outside)
    <3>1. 1 \in 1 .. n
      BY <1>0
    <3>2. f[1] = ps[1]
      <4>. HIDE DEF n, sep
      <4> QED BY <1>1, <3>1
    <3>3. ps[1] \in Seq(Token)
      BY <3>1, ElementOfSeq
    <3> QED BY <3>1, <3>2, <3>3
  <2>2. \A i \in 1 .. Len(ps[1]) : i \notin At(ps[1])
    BY <2>1 DEF Sealed, Separators
  <2>5. Closed(ps[1])
    BY <2>1 DEF Sealed
  <2>. HIDE DEF At, Closed
  <2>3. Pieces(ps[1], At(ps[1])) = <<ps[1]>>
    BY <2>1, <2>2, UncutIsOnePiece
  <2>4. SubSeq(ps, 1, 1) = <<ps[1]>>
    <3>1. SubSeq(ps, 1, 0) = <<>>
      OBVIOUS
    <3>2. SubSeq(ps, 1, 1) = Append(SubSeq(ps, 1, 0), ps[1])
      OBVIOUS
    <3>3. Append(<<>>, ps[1]) = <<ps[1]>>
      OBVIOUS
    <3> QED BY <3>1, <3>2, <3>3
  <2> QED BY <2>1, <2>3, <2>4, <2>5, <1>0
<1>3. ASSUME NEW k \in 1 .. n - 1, k - 1 \in S PROVE k \in S
  <2>. DEFINE u == f[k]
              p == ps[k + 1]
              s == f[k + 1]
  <2>1. u \in Seq(Token) /\ p \in Seq(Token) /\ Sealed(p, x, outside)
    <3>1. k \in 0 .. n /\ k + 1 \in 1 .. n
      BY <1>0
    <3>2. u \in Seq(Token)
      <4>. HIDE DEF n
      <4> QED BY <1>1, <3>1
    <3>3. p \in Seq(Token)
      BY <3>1, ElementOfSeq
    <3>4. Sealed(p, x, outside)
      BY <3>1
    <3> QED BY <3>2, <3>3, <3>4
  <2>2. Pieces(u, At(u)) = SubSeq(ps, 1, k)
    BY <1>3
  <2>12. Closed(u)
    BY <1>3
  <2>3. s = Parted(u, x, p)
    <3>1. k + 1 \in 1 .. n /\ k + 1 # 1 /\ k + 1 - 1 = k
      BY <1>0
    <3>2. s = u \o sep \o p
      <4>. DEFINE j == k + 1
      <4>1. j \in 1 .. n /\ j # 1 /\ j - 1 = k
        BY <3>1
      <4>. HIDE DEF n, sep, j
      <4>2. f[j] = f[j - 1] \o sep \o ps[j]
        BY <1>1, <4>1
      <4> QED BY <4>1, <4>2 DEF j
    <3> QED BY <3>2 DEF Parted
  <2>. HIDE DEF u, p, s
  <2>4. /\ s \in Seq(Token) /\ Len(s) = Len(u) + 1 + Len(p)
        /\ \A i \in 1 .. Len(u) : s[i] = u[i]
        /\ s[Len(u) + 1] = x
        /\ \A i \in 1 .. Len(p) : s[Len(u) + 1 + i] = p[i]
    <3>1. IsParted(s, u, x, p)
      BY <2>1, <2>3, PartedText
    <3> QED BY <3>1 DEF IsParted
  <2>13. outside => /\ \A i \in 0 .. Len(u) : Depth(s)[i] = Depth(u)[i]
                    /\ \A i \in 0 .. Len(p) : Depth(s)[Len(u) + 1 + i] = Depth(p)[i]
    BY <2>1, <2>12, <2>3, DepthOfParted DEF DepthsMeet
  <2>14. Len(u) \in Nat /\ Len(p) \in Nat
    BY <2>1
  <2>5. ASSUME NEW i \in 1 .. Len(u) PROVE i \in At(s) <=> i \in At(u)
    <3>1. i \in 1 .. Len(s) /\ s[i] = u[i] /\ i - 1 \in 0 .. Len(u)
      BY <2>4, <2>14
    <3> QED BY <2>13, <3>1 DEF Separators
  <2>6. Len(u) + 1 \in At(s)
    <3>1. Len(u) + 1 \in 1 .. Len(s) /\ Len(u) + 1 - 1 = Len(u) /\ Len(u) \in 0 .. Len(u)
      BY <2>4, <2>14
    <3>2. s[Len(u) + 1] = x
      BY <2>4
    <3>3. outside => Depth(s)[Len(u) + 1 - 1] = 0
      BY <2>12, <2>13, <3>1
    <3>. DEFINE j == Len(u) + 1
    <3>4. j \in 1 .. Len(s) /\ s[j] = x /\ (outside => Depth(s)[j - 1] = 0)
      BY <3>1, <3>2, <3>3
    <3>. HIDE DEF j
    <3>5. j \in Separators(s, x, outside)
      BY <3>4 DEF Separators
    <3> QED BY <3>5 DEF j
  <2>7. ASSUME NEW i \in 1 .. Len(p) PROVE Len(u) + 1 + i \notin At(s)
    <3>. DEFINE j == Len(u) + 1 + i
    <3>1. s[j] = p[i] /\ j - 1 = Len(u) + 1 + (i - 1) /\ i - 1 \in 0 .. Len(p)
      BY <2>4, <2>14
    <3>2. outside => Depth(s)[j - 1] = Depth(p)[i - 1]
      BY <2>13, <3>1
    <3>. HIDE DEF j
    <3>3. p[i] = x => outside /\ Depth(p)[i - 1] # 0
      BY <2>1 DEF Sealed
    <3>4. j \notin Separators(s, x, outside)
      BY <3>1, <3>2, <3>3 DEF Separators
    <3> QED BY <3>4 DEF j
  <2>15. Closed(s)
    <3>1. Len(s) = Len(u) + 1 + Len(p) /\ Len(p) \in 0 .. Len(p)
      BY <2>4, <2>14
    <3>2. outside => Depth(p)[Len(p)] = 0
      BY <2>1 DEF Sealed
    <3> QED BY <2>13, <3>1, <3>2
  <2>. HIDE DEF At, Closed
  <2>8. Pieces(s, At(s)) = Append(SubSeq(ps, 1, k), p)
    <3>. DEFINE A == At(s)
                B == At(u)
    <3>. HIDE DEF A, B
    <3>1. AddsCut(A, B, u, p)
      BY <2>5, <2>6, <2>7 DEF A, B, AddsCut
    <3>2. Pieces(Parted(u, x, p), A) = Append(Pieces(u, B), p)
      BY <2>1, <3>1, LastPiece
    <3> QED BY <2>2, <2>3, <3>2 DEF A, B
  <2>9. Append(SubSeq(ps, 1, k), ps[k + 1]) = SubSeq(ps, 1, k + 1)
    OBVIOUS
  <2>10. Pieces(f[k + 1], At(f[k + 1])) = SubSeq(ps, 1, k + 1)
    BY <2>8, <2>9 DEF s, p
  <2>11. k \in 0 .. n - 1
    BY <1>0
  <2>16. Closed(f[k + 1])
    BY <2>15 DEF s
  <2>. HIDE DEF At, Closed
  <2> QED BY <2>10, <2>11, <2>16
<1>4. n - 1 \in S
  <2>0. n - 1 \in Nat /\ n - 1 \in 0 .. n - 1
    BY <1>0
  <2>. DEFINE m == n - 1
  <2>1. \A k \in 1 .. m : k - 1 \in S => k \in S
    BY <1>3
  <2>. HIDE DEF S, n, m
  <2>2. \A k \in 0 .. m : k \in S
    BY <2>0, <2>1, <1>2, Climb DEF m
  <2> QED BY <2>0, <2>2 DEF m
<1>5. Pieces(f[n], At(f[n])) = ps
  <2>1. n - 1 + 1 = n /\ SubSeq(ps, 1, n) = ps
    BY <1>0
  <2>. HIDE DEF n, At, Closed
  <2> QED BY <1>4, <2>1
<1> QED BY <1>1, <1>5

\* split undoes join when no part has the separator.
LEMMA SplitOfJoin ==
  ASSUME NEW ps \in Seq(Seq(Token)), Len(ps) > 0, NEW x \in Token \ {"(", ")"},
         \A q \in 1 .. Len(ps) : Lacks(ps[q], {x})
  PROVE  Split(Join(ps, <<x>>), x) = ps
<1>. DEFINE s == Join(ps, <<x>>)
<1>1. ASSUME NEW q \in 1 .. Len(ps) PROVE Sealed(ps[q], x, FALSE)
  BY DEF Lacks, Sealed
<1>2. Pieces(s, Separators(s, x, FALSE)) = ps
  BY <1>1, PiecesOfJoin
<1>3. s \in Seq(Token)
  <2>1. Lacks(<<x>>, {}) /\ <<x>> \in Seq(Token) /\ \A q \in 1 .. Len(ps) : Lacks(ps[q], {})
    BY OneToken DEF Lacks
  <2> QED BY <2>1, JoinLacks
<1>. HIDE DEF s
<1>4. Separators(s, x, FALSE) = {i \in DOMAIN s : s[i] = x}
  BY <1>3 DEF Separators
<1> QED BY <1>2, <1>4 DEF Split, s

\* split_parallel_actions undoes the join of step_to_dsl: the commas between
\* the actions are the ones outside parentheses.
LEMMA SplitParallelOfJoin ==
  ASSUME NEW ps \in Seq(Seq(Token)), Len(ps) > 0,
         \A q \in 1 .. Len(ps) : ps[q] # <<>> /\ Sealed(ps[q], COMMA, TRUE)
  PROVE  SplitParallelActions(Join(ps, <<COMMA>>)) = ps
<1>. DEFINE s == Join(ps, <<COMMA>>)
<1>1. COMMA \in Token \ {"(", ")"}
  BY MarksAreTokens, MarksDiffer
<1>2. Pieces(s, Separators(s, COMMA, TRUE)) = ps
  BY <1>1, PiecesOfJoin
<1>3. s \in Seq(Token)
  <2>1. Lacks(<<COMMA>>, {}) /\ <<COMMA>> \in Seq(Token) /\ \A q \in 1 .. Len(ps) : Lacks(ps[q], {})
    BY <1>1, OneToken DEF Lacks
  <2> QED BY <2>1, JoinLacks
<1>. HIDE DEF s
<1>4. Separators(s, COMMA, TRUE) = {i \in DOMAIN s : s[i] = COMMA /\ Depth(s)[i - 1] = 0}
  <2>1. DOMAIN s = 1 .. Len(s)
    BY <1>3, LenProperties
  <2>. DEFINE A == Separators(s, COMMA, TRUE)
              B == {i \in DOMAIN s : s[i] = COMMA /\ Depth(s)[i - 1] = 0}
  <2>2. ASSUME NEW i PROVE i \in A <=> i \in B
    BY <2>1 DEF Separators
  <2>. HIDE DEF A, B
  <2>3. A = B
    BY <2>2
  <2> QED BY <2>3 DEF A, B
<1>5. SplitParallelActions(s) = NonEmpty(ps)
  BY <1>2, <1>4 DEF SplitParallelActions
<1> QED BY <1>5, NonEmptyOfNonEmpty DEF s

-----------------------------------------------------------------------------
(* The parameters of an action.                                            *)

\* What ParseParams returns: for the keys their values, neither with anything
\* that separates pairs, steps or recipes.
IsParams(params) ==
    /\ IsFiniteSet(DOMAIN params)
    /\ params = [key \in DOMAIN params |-> params[key]]
    /\ \A key \in DOMAIN params :
         /\ key \in Seq(Token) /\ Lacks(key, {COMMA, "=", "->", GAP})
         /\ params[key] \in Seq(Token) /\ Lacks(params[key], {COMMA, "->", GAP})
    /\ DOMAIN params = {} => params = <<>>

\* A parenthesis in a key or a value would change its side in the printed text.
Clean(params) ==
    \A key \in DOMAIN params : Lacks(key, {"(", ")"}) /\ Lacks(params[key], {"(", ")"})

\* The keys of a map, one after the other and each once.
LEMMA KeysInOrder ==
  ASSUME NEW S, IsFiniteSet(S), S # {}, S \subseteq Seq(Token)
  PROVE  /\ SetToSeq(S) \in Seq(Seq(Token))
         /\ Len(SetToSeq(S)) > 0
         /\ \A i, j \in 1 .. Len(SetToSeq(S)) : SetToSeq(S)[i] = SetToSeq(S)[j] => i = j
         /\ {SetToSeq(S)[i] : i \in 1 .. Len(SetToSeq(S))} = S
<1>. DEFINE n == Cardinality(S)
            I == 1 .. n
            f == SetToSeq(S)
<1>1. n \in Nat /\ IsFiniteSet(I) /\ Cardinality(I) = n
  BY FS_CardinalityType, FS_Interval
<1>2. PICK g : g \in Bijection(I, S)
  BY <1>1, FS_SameCardinalityBij DEF ExistsBijection
<1>3. g \in [I -> S] /\ IsInjective(g)
  BY <1>2 DEF Bijection, Injection
<1>4. f = CHOOSE h \in [1 .. n -> S] : IsInjective(h)
  BY DEF SetToSeq
<1>. HIDE DEF f
<1>5. f \in [I -> S] /\ IsInjective(f)
  BY <1>3, <1>4
<1>6. f \in Injection(I, S)
  BY <1>5 DEF Injection
<1>7. f \in Surjection(I, S)
  BY <1>1, <1>6, FS_Injection
<1>8. \A x \in S : \E i \in I : f[i] = x
  BY <1>7 DEF Surjection
<1>9. n # 0
  <2>1. PICK x \in S : TRUE
    OBVIOUS
  <2>2. PICK i \in I : f[i] = x
    BY <1>8
  <2> QED BY <2>2
<1>10. f \in Seq(Seq(Token)) /\ Len(f) = n
  <2>1. f \in [1 .. n -> Seq(Token)]
    BY <1>5
  <2>. HIDE DEF n
  <2> QED BY <1>1, <2>1
<1>11. \A i, j \in I : f[i] = f[j] => i = j
  BY <1>5 DEF IsInjective
<1>12. {f[i] : i \in I} = S
  BY <1>5, <1>8
<1>. HIDE DEF n
<1> QED BY <1>1, <1>9, <1>10, <1>11, <1>12 DEF f

\* A printed pair is read as the pair it was.
LEMMA PairReadsBack ==
  ASSUME NEW key \in Seq(Token), NEW value \in Seq(Token),
         Lacks(key, {COMMA, "=", "->", GAP}), Lacks(value, {COMMA, "->", GAP})
  PROVE  LET pair == Parted(key, "=", value)
         IN  /\ pair \in Seq(Token) /\ pair # <<>>
             /\ Lacks(pair, {COMMA, "->", GAP})
             /\ Find(pair, "=") # 0
             /\ Key(pair) = key /\ Val(pair) = value
             /\ (Lacks(key, {"(", ")"}) /\ Lacks(value, {"(", ")"})) => Lacks(pair, {"(", ")"})
<1>. DEFINE pair == Parted(key, "=", value)
            n == Len(key)
<1>1. IsParted(pair, key, "=", value)
  BY MarksAreTokens, PartedText
<1>. HIDE DEF pair
<1>. USE DEF IsParted
<1>2. n \in Nat /\ Len(value) \in Nat
  OBVIOUS
<1>3. Find(pair, "=") = n + 1
  <2>. DEFINE i == n + 1
  <2>1. i \in 1 .. Len(pair) /\ pair[i] = "="
    BY <1>1, <1>2
  <2>2. \A j \in 1 .. i - 1 : pair[j] # pair[i]
    BY <1>1, <1>2, <2>1 DEF Lacks
  <2>3. pair \in Seq(Token)
    BY <1>1
  <2>. HIDE DEF i
  <2>4. Find(pair, pair[i]) = i
    BY <2>1, <2>2, <2>3, FindIs
  <2> QED BY <2>1, <2>4 DEF i
<1>4. ASSUME NEW i \in 1 .. Len(pair)
      PROVE  \/ pair[i] = "="
             \/ \E j \in 1 .. Len(key) : pair[i] = key[j]
             \/ \E j \in 1 .. Len(value) : pair[i] = value[j]
  <2>1. CASE i <= n
    BY <1>1, <1>2, <2>1
  <2>2. CASE i = n + 1
    BY <1>1, <2>2
  <2>3. CASE i > n + 1
    <3>. DEFINE j == i - (n + 1)
    <3>1. j \in 1 .. Len(value) /\ n + 1 + j = i
      BY <1>1, <1>2, <2>3
    <3>. HIDE DEF j
    <3>2. pair[i] = value[j]
      BY <1>1, <3>1
    <3> QED BY <3>1, <3>2
  <2> QED BY <2>1, <2>2, <2>3, <1>2
<1>5. Lacks(pair, {COMMA, "->", GAP})
  <2>1. "=" \notin {COMMA, "->", GAP}
    BY MarksDiffer
  <2> QED BY <1>4, <2>1 DEF Lacks
<1>6. (Lacks(key, {"(", ")"}) /\ Lacks(value, {"(", ")"})) => Lacks(pair, {"(", ")"})
  BY <1>4 DEF Lacks
<1>7. Key(pair) = key
  <2>1. Key(pair) = SubSeq(pair, 1, n)
    BY <1>2, <1>3 DEF Key
  <2> QED BY <1>1, <1>2, <2>1
<1>8. Val(pair) = value
  <2>1. Val(pair) = SubSeq(pair, n + 2, n + 1 + Len(value))
    <3>1. Find(pair, "=") + 1 = n + 2 /\ Len(pair) = n + 1 + Len(value)
      BY <1>1, <1>2, <1>3
    <3>. HIDE DEF n
    <3> QED BY <3>1 DEF Val
  <2>2. SubSeq(pair, n + 2, n + 1 + Len(value)) = value
    BY <1>1, <1>2
  <2> QED BY <2>1, <2>2
<1>9. pair \in Seq(Token) /\ pair # <<>> /\ Find(pair, "=") # 0
  BY <1>1, <1>2, <1>3
<1> QED BY <1>5, <1>6, <1>7, <1>8, <1>9 DEF pair

\* The pair whose value a key keeps is one that has the key.
LEMMA LatestPair ==
  ASSUME NEW pairs \in Seq(Seq(Token)), NEW key
  PROVE  /\ Latest(pairs, key) \in 0 .. Len(pairs)
         /\ Latest(pairs, key) = 0 => \A i \in 1 .. Len(pairs) : Key(pairs[i]) # key
         /\ Latest(pairs, key) # 0 => Key(pairs[Latest(pairs, key)]) = key
<1>. DEFINE I == {i \in 1 .. Len(pairs) : Key(pairs[i]) = key}
<1>1. Latest(pairs, key) = IF I # {} THEN Max(I) ELSE 0
  BY DEF Latest, SelectLastInSeq
<1>2. Len(pairs) \in Nat
  OBVIOUS
<1>3. CASE I = {}
  BY <1>1, <1>2, <1>3
<1>4. CASE I # {}
  <2>1. Max(I) \in I
    BY <1>2, <1>4, GreatestPosition
  <2>. DEFINE m == Max(I)
  <2>2. m \in 1 .. Len(pairs) /\ Key(pairs[m]) = key
    BY <2>1
  <2>3. Latest(pairs, key) = m
    BY <1>1, <1>4
  <2>. HIDE DEF m
  <2> QED BY <1>2, <2>2, <2>3
<1> QED BY <1>3, <1>4

\* What ParamsToDsl prints ParseParams reads.
PrintedParams(text, params) ==
    /\ text \in Seq(Token)
    /\ Lacks(text, {"->", GAP})
    /\ Clean(params) => Lacks(text, {"(", ")"})
    /\ ParseParams(text) = Ok(params)

\* What action_to_dsl prints of the parameters parse_params reads.
LEMMA ParamsReadBack ==
  ASSUME NEW params, IsParams(params), params # <<>>
  PROVE  PrintedParams(ParamsToDsl(params, <<COMMA>>), params)
<1>. DEFINE S == DOMAIN params
            keys == SetToSeq(S)
            n == Len(keys)
            pairs == [i \in DOMAIN keys |-> keys[i] \o <<"=">> \o params[keys[i]]]
            text == Join(pairs, <<COMMA>>)
<1>1. IsFiniteSet(S) /\ S # {} /\ S \subseteq Seq(Token)
  BY DEF IsParams
<1>2. /\ keys \in Seq(Seq(Token)) /\ n > 0 /\ n \in Nat
      /\ \A i, j \in 1 .. n : keys[i] = keys[j] => i = j
      /\ {keys[i] : i \in 1 .. n} = S
  <2>. HIDE DEF S
  <2> QED BY <1>1, KeysInOrder
<1>. HIDE DEF keys
<1>3. DOMAIN keys = 1 .. n /\ \A i \in 1 .. n : keys[i] \in S
  BY <1>2, LenProperties
<1>4. ASSUME NEW i \in 1 .. n
      PROVE  /\ pairs[i] = Parted(keys[i], "=", params[keys[i]])
             /\ pairs[i] \in Seq(Token) /\ pairs[i] # <<>>
             /\ Lacks(pairs[i], {COMMA, "->", GAP})
             /\ Find(pairs[i], "=") # 0
             /\ Key(pairs[i]) = keys[i] /\ Val(pairs[i]) = params[keys[i]]
             /\ Clean(params) => Lacks(pairs[i], {"(", ")"})
  <2>. DEFINE key == keys[i]
              value == params[key]
  <2>1. key \in S
    BY <1>3
  <2>2. /\ key \in Seq(Token) /\ Lacks(key, {COMMA, "=", "->", GAP})
        /\ value \in Seq(Token) /\ Lacks(value, {COMMA, "->", GAP})
        /\ Clean(params) => Lacks(key, {"(", ")"}) /\ Lacks(value, {"(", ")"})
    BY <2>1 DEF IsParams, Clean
  <2>3. pairs[i] = Parted(key, "=", value)
    <3>1. i \in DOMAIN keys
      BY <1>3
    <3> QED BY <3>1 DEF Parted
  <2>. DEFINE pair == Parted(key, "=", value)
  <2>. HIDE DEF key, value
  <2>4. /\ pair \in Seq(Token) /\ pair # <<>>
        /\ Lacks(pair, {COMMA, "->", GAP})
        /\ Find(pair, "=") # 0
        /\ Key(pair) = key /\ Val(pair) = value
        /\ (Lacks(key, {"(", ")"}) /\ Lacks(value, {"(", ")"})) => Lacks(pair, {"(", ")"})
    BY <2>2, PairReadsBack
  <2>. HIDE DEF pair
  <2> QED BY <2>2, <2>3, <2>4 DEF pair, key, value
<1>5. pairs \in Seq(Seq(Token)) /\ Len(pairs) = n /\ DOMAIN pairs = 1 .. n
  <2>1. DOMAIN pairs = 1 .. n
    BY <1>3
  <2>2. \A i \in 1 .. n : pairs[i] \in Seq(Token)
    BY <1>4
  <2>3. pairs \in [1 .. n -> Seq(Token)]
    BY <1>3, <2>2
  <2>. HIDE DEF pairs, n
  <2> QED BY <1>2, <2>1, <2>3
<1>. HIDE DEF pairs, n
<1>6. COMMA \in Token \ {"(", ")"} /\ COMMA \notin {"->", GAP}
  BY MarksAreTokens, MarksDiffer
<1>7. text \in Seq(Token) /\ Lacks(text, {"->", GAP})
  <2>1. <<COMMA>> \in Seq(Token) /\ Lacks(<<COMMA>>, {"->", GAP})
    BY <1>6, OneToken DEF Lacks
  <2>2. \A q \in 1 .. Len(pairs) : Lacks(pairs[q], {"->", GAP})
    BY <1>4, <1>5 DEF Lacks
  <2> QED BY <1>5, <2>1, <2>2, JoinLacks
<1>8. ASSUME Clean(params) PROVE Lacks(text, {"(", ")"})
  <2>1. <<COMMA>> \in Seq(Token) /\ Lacks(<<COMMA>>, {"(", ")"})
    BY <1>6, OneToken DEF Lacks
  <2>2. \A q \in 1 .. Len(pairs) : Lacks(pairs[q], {"(", ")"})
    BY <1>4, <1>5, <1>8
  <2> QED BY <1>5, <2>1, <2>2, JoinLacks
<1>9. Split(text, COMMA) = pairs
  <2>1. \A q \in 1 .. Len(pairs) : Lacks(pairs[q], {COMMA})
    BY <1>4, <1>5 DEF Lacks
  <2> QED BY <1>2, <1>5, <1>6, <2>1, SplitOfJoin
<1>10. text # <<>>
  <2>1. SUFFICES ASSUME text = <<>> PROVE FALSE
    OBVIOUS
  <2>2. Split(text, COMMA) = <<text>>
    <3>1. \A i \in 1 .. Len(text) : i \notin {j \in DOMAIN text : text[j] = COMMA}
      BY <2>1
    <3>. HIDE DEF text
    <3> QED BY <1>7, <3>1, UncutIsOnePiece DEF Split
  <2>3. pairs[1] = text
    BY <1>9, <2>2
  <2> QED BY <1>2, <1>4, <2>1, <2>3
<1>11. ParamsToDsl(params, <<COMMA>>) = text
  BY DEF ParamsToDsl, text, pairs, keys
<1>. HIDE DEF text
<1>12. ~ \E i \in DOMAIN pairs : Find(pairs[i], "=") = 0
  BY <1>4, <1>5
<1>13. {Key(pairs[i]) : i \in DOMAIN pairs} = S
  <2>1. \A i \in 1 .. n : Key(pairs[i]) = keys[i]
    BY <1>4
  <2>2. {Key(pairs[i]) : i \in 1 .. n} = {keys[i] : i \in 1 .. n}
    BY <2>1
  <2> QED BY <1>2, <1>5, <2>2
<1>14. \A key \in S : Val(pairs[Latest(pairs, key)]) = params[key]
  <2> TAKE key \in S
  <2>1. PICK i \in 1 .. n : keys[i] = key
    BY <1>2
  <2>. DEFINE l == Latest(pairs, key)
  <2>2. l \in 0 .. n /\ (l = 0 => \A j \in 1 .. n : Key(pairs[j]) # key)
        /\ (l # 0 => Key(pairs[l]) = key)
    BY <1>5, LatestPair
  <2>. HIDE DEF l
  <2>3. l \in 1 .. n /\ keys[l] = key
    BY <1>4, <2>1, <2>2
  <2>4. Val(pairs[l]) = params[key]
    BY <1>4, <2>3
  <2> QED BY <2>4 DEF l
<1>15. params = [key \in S |-> params[key]]
  BY DEF IsParams
<1>16. ParseParams(text) = Ok([key \in S |-> Val(pairs[Latest(pairs, key)])])
  BY <1>9, <1>10, <1>12, <1>13 DEF ParseParams
<1>17. [key \in S |-> Val(pairs[Latest(pairs, key)])] = [key \in S |-> params[key]]
  BY <1>14
<1>18. ParseParams(text) = Ok(params)
  BY <1>15, <1>16, <1>17
<1> QED BY <1>7, <1>8, <1>11, <1>18 DEF PrintedParams

-----------------------------------------------------------------------------
(* An action.                                                              *)

\* text is `name(inner)`.
IsCall(text, name, inner) ==
    /\ text \in Seq(Token)
    /\ Len(text) = Len(name) + Len(inner) + 2
    /\ \A i \in 1 .. Len(name) : text[i] = name[i]
    /\ text[Len(name) + 1] = "("
    /\ \A i \in 1 .. Len(inner) : text[Len(name) + 1 + i] = inner[i]
    /\ text[Len(name) + Len(inner) + 2] = ")"

\* The text of an action with parameters has this form.
LEMMA CallText ==
  ASSUME NEW name \in Seq(Token), NEW inner \in Seq(Token)
  PROVE  IsCall(name \o <<"(">> \o inner \o <<")">>, name, inner)
<1>. DEFINE v == Parted(name, "(", inner)
            y == <<")">>
            text == v \o y
            n == Len(name)
            m == Len(inner)
<1>1. IsParted(v, name, "(", inner)
  BY MarksAreTokens, PartedText
<1>2. y \in Seq(Token) /\ Len(y) = 1 /\ y[1] = ")"
  BY MarksAreTokens, OneToken
<1>3. text = name \o <<"(">> \o inner \o <<")">>
  BY DEF Parted
<1>. HIDE DEF v, y
<1>4. v \in Seq(Token) /\ Len(v) = n + 1 + m /\ n \in Nat /\ m \in Nat
  BY <1>1 DEF IsParted
<1>5. /\ text \in Seq(Token)
      /\ Len(text) = Len(v) + 1
      /\ \A i \in 1 .. Len(v) : text[i] = v[i]
      /\ \A i \in 1 .. 1 : text[Len(v) + i] = y[i]
  <2>1. /\ text \in Seq(Token)
        /\ Len(text) = Len(v) + Len(y)
        /\ \A i \in 1 .. Len(v) : text[i] = v[i]
        /\ \A i \in 1 .. Len(y) : text[Len(v) + i] = y[i]
    BY <1>2, <1>4, Glue
  <2>. HIDE DEF text
  <2> QED BY <1>2, <2>1
<1>. HIDE DEF text
<1>6. text[n + m + 2] = ")"
  <2>1. 1 \in 1 .. 1 /\ Len(v) + 1 = n + m + 2
    BY <1>4
  <2>2. text[Len(v) + 1] = y[1]
    BY <1>5, <2>1
  <2> QED BY <1>2, <2>1, <2>2
<1>7. ASSUME NEW i \in 1 .. n PROVE text[i] = name[i]
  BY <1>1, <1>4, <1>5 DEF IsParted
<1>8. text[n + 1] = "("
  <2>1. n + 1 \in 1 .. Len(v)
    BY <1>4
  <2>2. v[n + 1] = "("
    BY <1>1 DEF IsParted
  <2> QED BY <1>5, <2>1, <2>2
<1>9. ASSUME NEW i \in 1 .. m PROVE text[n + 1 + i] = inner[i]
  <2>1. n + 1 + i \in 1 .. Len(v)
    BY <1>4
  <2>2. v[n + 1 + i] = inner[i]
    BY <1>1 DEF IsParted
  <2> QED BY <1>5, <2>1, <2>2
<1>10. Len(text) = n + m + 2
  BY <1>4, <1>5
<1>11. IsCall(text, name, inner)
  BY <1>5, <1>6, <1>7, <1>8, <1>9, <1>10 DEF IsCall
<1> QED BY <1>3, <1>11

\* In such a text the parameters are one deep and the rest is outside.
LEMMA DepthOfCall ==
  ASSUME NEW text, NEW name \in Seq(Token), NEW inner \in Seq(Token),
         IsCall(text, name, inner), Lacks(name, {"("}), Lacks(inner, {"(", ")"})
  PROVE  /\ \A i \in 0 .. Len(name) : Depth(text)[i] = 0
         /\ \A i \in Len(name) + 1 .. Len(name) + 1 + Len(inner) : Depth(text)[i] = 1
         /\ Depth(text)[Len(text)] = 0
<1>. DEFINE n == Len(name)
            m == Len(inner)
            z == n + 1 + m
<1>1. n \in Nat /\ m \in Nat /\ text \in Seq(Token) /\ Len(text) = z + 1 /\ z \in Nat
  BY DEF IsCall
<1>2. Depth(text)[0] = 0
  BY <1>1, DepthCount
<1>3. \A i \in 0 .. n : Depth(text)[i] = 0
  <2>1. 0 \in 0 .. Len(text) /\ n \in 0 .. Len(text)
    BY <1>1
  <2>2. \A i \in 0 + 1 .. n : text[i] # "(" /\ (text[i] = ")" => Depth(text)[0] = 0)
    <3>1. ASSUME NEW i \in 0 + 1 .. n PROVE text[i] # "("
      <4>1. i \in 1 .. n
        BY <1>1
      <4>2. text[i] = name[i]
        BY <4>1 DEF IsCall
      <4> QED BY <4>1, <4>2 DEF Lacks
    <3> QED BY <1>2, <3>1
  <2>. HIDE DEF n
  <2> QED BY <1>1, <1>2, <2>1, <2>2, DepthStays
<1>4. Depth(text)[n + 1] = 1
  <2>. DEFINE i == n + 1
  <2>1. i \in 1 .. Len(text) /\ i - 1 = n /\ n \in 0 .. n
    BY <1>1
  <2>2. text[i] = "("
    BY DEF IsCall
  <2>3. Depth(text)[i - 1] = 0
    BY <1>3, <2>1
  <2>. HIDE DEF i
  <2>4. Depth(text)[i] = 0 + 1
    BY <1>1, <2>1, <2>2, <2>3, DepthCount
  <2> QED BY <2>4 DEF i
<1>5. \A i \in n + 1 .. z : Depth(text)[i] = 1
  <2>. DEFINE a == n + 1
  <2>1. a \in 0 .. Len(text) /\ z \in a .. Len(text)
    BY <1>1
  <2>2. ASSUME NEW i \in a + 1 .. z PROVE text[i] # "(" /\ text[i] # ")"
    <3>. DEFINE j == i - a
    <3>1. j \in 1 .. m /\ n + 1 + j = i
      BY <1>1
    <3>. HIDE DEF j
    <3>2. text[i] = inner[j]
      BY <3>1 DEF IsCall
    <3> QED BY <3>1, <3>2 DEF Lacks
  <2>3. Depth(text)[a] = 1
    BY <1>4
  <2>. HIDE DEF a, z
  <2>4. \A i \in a .. z : Depth(text)[i] = Depth(text)[a]
    BY <1>1, <2>1, <2>2, DepthStays
  <2> QED BY <2>3, <2>4 DEF a
<1>6. Depth(text)[Len(text)] = 0
  <2>1. z + 1 \in 1 .. Len(text) /\ z + 1 - 1 = z /\ z \in n + 1 .. z
    BY <1>1
  <2>2. text[z + 1] = ")"
    <3>1. z + 1 = Len(name) + Len(inner) + 2
      BY <1>1
    <3> QED BY <3>1 DEF IsCall
  <2>3. Depth(text)[z] = 1
    BY <1>5, <2>1
  <2>. DEFINE i == z + 1
  <2>4. i \in 1 .. Len(text) /\ text[i] = ")" /\ Depth(text)[i - 1] = 1 /\ i = Len(text)
    BY <1>1, <2>1, <2>2, <2>3
  <2>. HIDE DEF i, z
  <2>5. Depth(text)[i] = 1 - 1
    <3>1. Depth(text)[i] = IF text[i] = "(" THEN Depth(text)[i - 1] + 1
                           ELSE IF text[i] = ")" /\ Depth(text)[i - 1] > 0
                             THEN Depth(text)[i - 1] - 1
                           ELSE Depth(text)[i - 1]
      BY <1>1, <2>4, DepthCount
    <3> QED BY <2>4, <3>1
  <2> QED BY <2>4, <2>5
<1> QED BY <1>3, <1>5, <1>6

\* What ParseAction returns.
IsAction(a) ==
    /\ a = Action(a.name, a.params)
    /\ a.name \in Seq(Token) /\ Lacks(a.name, {"(", "->", GAP})
    /\ IsParams(a.params)

\* What ActionToDsl prints ParseAction reads; and where the text begins and ends,
\* and may be cut.
PrintedAction(text, a) ==
    /\ text \in Seq(Token)
    /\ Lacks(text, {"->", GAP})
    /\ ParseAction(text) = Ok(a)
    /\ Depth(text)[Len(text)] = 0
    /\ Lacks(a.name, {COMMA}) => Sealed(text, COMMA, TRUE)
    /\ a.params = <<>> => text = a.name
    /\ a.params # <<>> => /\ text # <<>>
                          /\ Last(text) = ")"
                          /\ text[1] = IF a.name = <<>> THEN "(" ELSE a.name[1]

\* What action_to_dsl prints parse_action reads, and it can stand in a list,
\* before a repetition and at the end of a step.
LEMMA ActionReadsBack ==
  ASSUME NEW a, IsAction(a), Clean(a.params)
  PROVE  PrintedAction(ActionToDsl(a), a)
<1>. DEFINE name == a.name
            params == a.params
            text == ActionToDsl(a)
            n == Len(name)
<1>0. /\ a = Action(name, params) /\ IsParams(params) /\ Clean(params)
      /\ name \in Seq(Token) /\ Lacks(name, {"(", "->", GAP}) /\ n \in Nat
  BY DEF IsAction
<1>1. CASE params = <<>>
  <2>1. text = name
    BY <1>1 DEF ActionToDsl
  <2>2. Find(name, "(") = 0
    BY <1>0, FindFirst DEF Lacks
  <2>3. ParseAction(name) = Ok(a)
    BY <1>0, <1>1, <2>2 DEF ParseAction
  <2>4. \A i \in 0 .. n : Depth(name)[i] = 0
    <3>1. Depth(name)[0] = 0 /\ 0 \in 0 .. n /\ n \in 0 .. n
      BY <1>0, DepthCount
    <3>2. \A i \in 0 + 1 .. n : name[i] # "(" /\ (name[i] = ")" => Depth(name)[0] = 0)
      BY <1>0, <3>1 DEF Lacks
    <3>. HIDE DEF name, n
    <3> QED BY <1>0, <3>1, <3>2, DepthStays DEF n
  <2>5. Lacks(name, {"->", GAP}) /\ Depth(name)[Len(name)] = 0
    BY <1>0, <2>4 DEF Lacks
  <2>6. Lacks(name, {COMMA}) => Sealed(name, COMMA, TRUE)
    BY <2>5 DEF Lacks, Sealed
  <2>. HIDE DEF text
  <2> QED BY <1>0, <1>1, <2>1, <2>3, <2>5, <2>6 DEF PrintedAction, text
<1>2. CASE params # <<>>
  <2>. DEFINE inner == ParamsToDsl(params, <<COMMA>>)
              m == Len(inner)
  <2>1. PrintedParams(inner, params)
    BY <1>0, <1>2, ParamsReadBack
  <2>2. text = name \o <<"(">> \o inner \o <<")">>
    BY <1>2 DEF ActionToDsl
  <2>. HIDE DEF inner, name, params
  <2>3. inner \in Seq(Token) /\ m \in Nat /\ Lacks(inner, {"->", GAP}) /\ Lacks(inner, {"(", ")"})
    BY <1>0, <2>1 DEF PrintedParams
  <2>4. IsCall(text, name, inner)
    BY <1>0, <2>2, <2>3, CallText
  <2>. HIDE DEF text
  <2>. DEFINE z == Len(text)
  <2>5. z = n + m + 2 /\ text \in Seq(Token) /\ text[n + 1] = "(" /\ text[z] = ")"
    BY <2>4 DEF IsCall
  <2>6. Find(text, "(") = n + 1
    <3>. DEFINE i == n + 1
    <3>1. i \in 1 .. Len(text) /\ text[i] = "("
      BY <1>0, <2>3, <2>5
    <3>2. \A j \in 1 .. i - 1 : text[j] # text[i]
      BY <1>0, <2>4, <3>1 DEF Lacks, IsCall
    <3>. HIDE DEF i
    <3>3. Find(text, text[i]) = i
      BY <2>5, <3>1, <3>2, FindIs
    <3> QED BY <3>1, <3>3 DEF i
  <2>7. RFind(text, ")") = z
    <3>1. z \in 1 .. z
      BY <1>0, <2>3, <2>5
    <3>. DEFINE l == RFind(text, ")")
    <3>2. /\ l \in 0 .. z
          /\ l = 0 => \A i \in 1 .. z : text[i] # ")"
          /\ l # 0 => \A i \in l + 1 .. z : text[i] # ")"
      BY <2>5, FindLast
    <3>. HIDE DEF l, z
    <3>3. l = z
      BY <2>5, <3>1, <3>2
    <3> QED BY <3>3 DEF l
  <2>8. SubSeq(text, 1, n) = name
    BY <1>0, <2>3, <2>4, <2>5 DEF IsCall
  <2>9. SubSeq(text, n + 2, n + 1 + m) = inner
    <3>1. \A i \in 1 .. m : text[n + 1 + i] = inner[i]
      BY <2>4 DEF IsCall
    <3>2. n \in Nat /\ z = n + m + 2
      BY <1>0, <2>5
    <3>. DEFINE t == SubSeq(text, n + 2, n + 1 + m)
    <3>3. t \in Seq(Token) /\ Len(t) = m /\ \A i \in 1 .. m : t[i] = text[n + 1 + i]
      BY <2>3, <2>5, <3>2
    <3>. HIDE DEF t, z, m
    <3>4. t = inner
      BY <2>3, <3>1, <3>3 DEF m
    <3> QED BY <3>4 DEF t
  <2>10. ParseAction(text) = Ok(a)
    <3>1. /\ n + 1 # 0 /\ z # 0 /\ ~(z < n + 1)
          /\ n + 1 + 1 = n + 2 /\ z - 1 = n + 1 + m /\ n + 1 - 1 = n
      BY <1>0, <2>3, <2>5
    <3>2. ParseParams(SubSeq(text, n + 1 + 1, z - 1)) = Ok(params)
      BY <2>1, <2>9, <3>1 DEF PrintedParams
    <3>3. SubSeq(text, 1, n + 1 - 1) = name
      BY <2>8, <3>1
    <3>4. IsOk(Ok(params)) /\ Ok(params).value = params
      BY DEF IsOk, Ok
    <3>. DEFINE o == n + 1
                r == ParseParams(SubSeq(text, o + 1, z - 1))
    <3>5. /\ Find(text, "(") = o /\ RFind(text, ")") = z /\ o # 0 /\ z # 0 /\ ~(z < o)
          /\ r = Ok(params) /\ SubSeq(text, 1, o - 1) = name
      BY <2>6, <2>7, <3>1, <3>2, <3>3
    <3>. HIDE DEF o, z, r
    <3>6. IsOk(r) /\ r.value = params
      BY <3>4, <3>5
    <3>7. ParseAction(text) = Ok(Action(SubSeq(text, 1, o - 1), r.value))
      BY <3>5, <3>6 DEF ParseAction, Then, r
    <3> QED BY <1>0, <3>5, <3>6, <3>7
  <2>11. /\ \A i \in 0 .. n : Depth(text)[i] = 0
         /\ \A i \in n + 1 .. n + 1 + m : Depth(text)[i] = 1
         /\ Depth(text)[z] = 0
    <3>1. Lacks(name, {"("})
      BY <1>0 DEF Lacks
    <3> QED BY <1>0, <2>3, <2>4, <3>1, DepthOfCall
  <2>12. ASSUME NEW i \in 1 .. z
         PROVE  \/ i \in 1 .. n /\ text[i] = name[i]
                \/ i = n + 1
                \/ i \in n + 2 .. n + 1 + m /\ \E j \in 1 .. m : text[i] = inner[j]
                \/ i = z
    <3>1. CASE i \in 1 .. n
      BY <2>4, <3>1 DEF IsCall
    <3>2. CASE i \in n + 2 .. n + 1 + m
      <4>. DEFINE j == i - (n + 1)
      <4>1. j \in 1 .. m /\ n + 1 + j = i
        BY <1>0, <2>3, <3>2
      <4>. HIDE DEF j
      <4>2. text[i] = inner[j]
        BY <2>4, <4>1 DEF IsCall
      <4> QED BY <3>2, <4>1, <4>2
    <3>3. i \in 1 .. n \/ i = n + 1 \/ i \in n + 2 .. n + 1 + m \/ i = z
      BY <1>0, <2>3, <2>5
    <3> QED BY <3>1, <3>2, <3>3
  <2>13. Lacks(text, {"->", GAP})
    <3>1. "(" \notin {"->", GAP} /\ ")" \notin {"->", GAP}
      BY MarksDiffer
    <3> QED BY <1>0, <2>3, <2>5, <2>12, <3>1 DEF Lacks
  <2>14. Lacks(name, {COMMA}) => Sealed(text, COMMA, TRUE)
    <3>1. SUFFICES ASSUME Lacks(name, {COMMA}) PROVE Sealed(text, COMMA, TRUE)
      OBVIOUS
    <3>2. ASSUME NEW i \in 1 .. z, text[i] = COMMA PROVE Depth(text)[i - 1] # 0
      <4>1. "(" # COMMA /\ ")" # COMMA
        BY MarksDiffer
      <4>2. i \in n + 2 .. n + 1 + m
        BY <2>5, <2>12, <3>1, <3>2, <4>1 DEF Lacks
      <4>3. i - 1 \in n + 1 .. n + 1 + m
        BY <1>0, <2>3, <4>2
      <4> QED BY <2>11, <4>3
    <3> QED BY <2>11, <3>2 DEF Sealed
  <2>15. text # <<>> /\ Last(text) = ")"
    BY <1>0, <2>3, <2>5 DEF Last
  <2>16. text[1] = IF name = <<>> THEN "(" ELSE name[1]
    <3>1. CASE name = <<>>
      BY <2>5, <3>1
    <3>2. CASE name # <<>>
      <4>1. 1 \in 1 .. n
        BY <1>0, <3>2
      <4> QED BY <2>4, <3>2, <4>1 DEF IsCall
    <3> QED BY <3>1, <3>2
  <2> QED
    BY <1>2, <2>5, <2>10, <2>11, <2>13, <2>14, <2>15, <2>16 DEF PrintedAction, text, name, params
<1> QED BY <1>1, <1>2

-----------------------------------------------------------------------------
(* What the parser returns.                                                *)

\* p is a part of s.
IsPart(p, s) == \E a \in 0 .. Len(s) : \E b \in a .. Len(s) : p = SubSeq(s, a + 1, b)

\* A part of a text has no other tokens than the text.
LEMMA PartLacks ==
  ASSUME NEW s \in Seq(Token), NEW p, IsPart(p, s)
  PROVE  /\ p \in Seq(Token)
         /\ \A tokens : Lacks(s, tokens) => Lacks(p, tokens)
<1>1. PICK a \in 0 .. Len(s) : \E b \in a .. Len(s) : p = SubSeq(s, a + 1, b)
  BY DEF IsPart
<1>2. PICK b \in a .. Len(s) : p = SubSeq(s, a + 1, b)
  BY <1>1
<1>3. p \in Seq(Token) /\ Len(p) = b - a /\ \A i \in 1 .. Len(p) : p[i] = s[a + i]
  BY <1>2
<1>4. \A i \in 1 .. Len(p) : a + i \in 1 .. Len(s)
  BY <1>3
<1> QED BY <1>3, <1>4 DEF Lacks

\* What split returns are parts of the text without the separator.
LEMMA SplitParts ==
  ASSUME NEW s \in Seq(Token), NEW x
  PROVE  /\ Split(s, x) \in Seq(Seq(Token))
         /\ \A q \in 1 .. Len(Split(s, x)) :
              IsPart(Split(s, x)[q], s) /\ Lacks(Split(s, x)[q], {x})
<1>. DEFINE cuts == {i \in DOMAIN s : s[i] = x}
            ps == Pieces(s, cuts)
<1>1. /\ ps \in Seq(Seq(Token))
      /\ \A q \in 1 .. Len(ps) :
           \E a \in 0 .. Len(s) : \E b \in a .. Len(s) : Uncut(s, cuts, ps[q], a, b)
  BY PiecesAreUncut
<1>2. Split(s, x) = ps
  BY DEF Split
<1>. HIDE DEF ps
<1>3. ASSUME NEW q \in 1 .. Len(ps) PROVE IsPart(ps[q], s) /\ Lacks(ps[q], {x})
  <2>1. PICK a \in 0 .. Len(s) : \E b \in a .. Len(s) : Uncut(s, cuts, ps[q], a, b)
    BY <1>1
  <2>2. PICK b \in a .. Len(s) : Uncut(s, cuts, ps[q], a, b)
    BY <2>1
  <2>3. ps[q] = SubSeq(s, a + 1, b) /\ \A i \in a + 1 .. b : s[i] # x
    BY <2>2 DEF Uncut
  <2>4. IsPart(ps[q], s)
    BY <2>3 DEF IsPart
  <2>5. Lacks(ps[q], {x})
    BY <2>3 DEF Lacks
  <2> QED BY <2>4, <2>5
<1> QED BY <1>1, <1>2, <1>3

\* There is one function on nothing.
LEMMA NoFunction ==
  ASSUME NEW f, DOMAIN f = {}, f = [x \in DOMAIN f |-> f[x]]
  PROVE  f = <<>>
<1>1. <<>> \in Seq({}) /\ Len(<<>>) = 0
  BY EmptySeq
<1>2. <<>> \in [1 .. 0 -> {}]
  BY <1>1, LenProperties
<1>3. 1 .. 0 = {}
  OBVIOUS
<1>4. f \in [{} -> {}] /\ <<>> \in [{} -> {}]
  BY <1>2, <1>3
<1> QED BY <1>4

\* parse_params returns a map whose keys and values lack what it cuts at.
LEMMA ParamsRead ==
  ASSUME NEW s \in Seq(Token), Lacks(s, {"->", GAP}), IsOk(ParseParams(s))
  PROVE  IsParams(ParseParams(s).value)
<1>1. CASE s = <<>>
  <2>1. ParseParams(s).value = <<>>
    BY <1>1 DEF ParseParams, Ok
  <2>2. <<>> \in [{} -> {}] /\ DOMAIN <<>> = {}
    <3>1. <<>> \in Seq({}) /\ Len(<<>>) = 0
      BY EmptySeq
    <3>2. <<>> \in [1 .. 0 -> {}]
      BY <3>1, LenProperties
    <3> QED BY <3>2
  <2>3. <<>> = [key \in DOMAIN <<>> |-> <<>>[key]]
    BY <2>2
  <2>4. IsFiniteSet(DOMAIN <<>>)
    BY <2>2, FS_EmptySet
  <2> QED BY <2>1, <2>2, <2>3, <2>4 DEF IsParams
<1>2. CASE s # <<>>
  <2>. DEFINE pairs == Split(s, COMMA)
              n == Len(pairs)
              S == {Key(pairs[i]) : i \in DOMAIN pairs}
              params == [key \in S |-> Val(pairs[Latest(pairs, key)])]
  <2>1. /\ pairs \in Seq(Seq(Token))
        /\ \A q \in 1 .. n : IsPart(pairs[q], s) /\ Lacks(pairs[q], {COMMA})
    BY SplitParts
  <2>2. ~ \E i \in DOMAIN pairs : Find(pairs[i], "=") = 0
    BY <1>2 DEF ParseParams, IsOk, Fail
  <2>3. ParseParams(s) = Ok(params)
    BY <1>2, <2>2 DEF ParseParams
  <2>. HIDE DEF pairs
  <2>4. n \in Nat /\ DOMAIN pairs = 1 .. n
    BY <2>1, LenProperties
  <2>5. ASSUME NEW i \in 1 .. n
        PROVE  /\ Key(pairs[i]) \in Seq(Token) /\ Lacks(Key(pairs[i]), {COMMA, "=", "->", GAP})
               /\ Val(pairs[i]) \in Seq(Token) /\ Lacks(Val(pairs[i]), {COMMA, "->", GAP})
    <3>. DEFINE p == pairs[i]
                e == Find(p, "=")
    <3>1. p \in Seq(Token) /\ Lacks(p, {COMMA}) /\ Lacks(p, {"->", GAP})
      BY <2>1, PartLacks
    <3>2. e # 0
      BY <2>2, <2>4
    <3>3. e \in 1 .. Len(p) /\ \A j \in 1 .. e - 1 : p[j] # "="
      BY <3>1, <3>2, FindFirst
    <3>4. Key(p) = SubSeq(p, 1, e - 1) /\ Val(p) = SubSeq(p, e + 1, Len(p))
      BY DEF Key, Val
    <3>. HIDE DEF p, e
    <3>5. Key(p) \in Seq(Token) /\ Lacks(Key(p), {COMMA, "=", "->", GAP})
      BY <3>1, <3>3, <3>4 DEF Lacks
    <3>6. Val(p) \in Seq(Token) /\ Lacks(Val(p), {COMMA, "->", GAP})
      BY <3>1, <3>3, <3>4 DEF Lacks
    <3> QED BY <3>5, <3>6 DEF p
  <2>6. IsFiniteSet(S)
    <3>. DEFINE f == [i \in 1 .. n |-> Key(pairs[i])]
    <3>1. f \in Surjection(1 .. n, S)
      BY <2>4 DEF Surjection
    <3>2. IsFiniteSet(1 .. n)
      BY <2>4, FS_Interval
    <3>. HIDE DEF f, S
    <3> QED BY <3>1, <3>2, FS_Surjection
  <2>7. ASSUME NEW key \in S
        PROVE  /\ key \in Seq(Token) /\ Lacks(key, {COMMA, "=", "->", GAP})
               /\ params[key] \in Seq(Token) /\ Lacks(params[key], {COMMA, "->", GAP})
    <3>1. PICK i \in 1 .. n : key = Key(pairs[i])
      BY <2>4
    <3>. DEFINE l == Latest(pairs, key)
    <3>2. l \in 0 .. n /\ (l = 0 => \A j \in 1 .. n : Key(pairs[j]) # key)
      BY <2>1, LatestPair
    <3>3. l \in 1 .. n
      BY <2>4, <3>1, <3>2
    <3>4. params[key] = Val(pairs[l])
      OBVIOUS
    <3>. HIDE DEF l, params
    <3> QED BY <2>5, <3>1, <3>3, <3>4
  <2>8. DOMAIN params = S /\ params = [key \in DOMAIN params |-> params[key]]
    OBVIOUS
  <2>. HIDE DEF params, S
  <2>9. DOMAIN params = {} => params = <<>>
    BY <2>8, NoFunction
  <2>10. IsParams(params)
    BY <2>6, <2>7, <2>8, <2>9 DEF IsParams
  <2> QED BY <2>3, <2>10 DEF Ok
<1> QED BY <1>1, <1>2

\* u is where s begins.
Begins(u, s) == Len(u) <= Len(s) /\ \A i \in 1 .. Len(u) : u[i] = s[i]

\* parse_action returns a name with which the text begins, up to the first
\* parenthesis, and parameters.
LEMMA ActionRead ==
  ASSUME NEW body \in Seq(Token), Lacks(body, {"->", GAP}), IsOk(ParseAction(body))
  PROVE  IsAction(ParseAction(body).value) /\ Begins(ParseAction(body).value.name, body)
<1>. DEFINE open == Find(body, "(")
            close == RFind(body, ")")
            r == ParseParams(SubSeq(body, open + 1, close - 1))
            a == ParseAction(body).value
<1>1. /\ open \in 0 .. Len(body)
      /\ open = 0 => \A i \in 1 .. Len(body) : body[i] # "("
      /\ open # 0 => \A i \in 1 .. open - 1 : body[i] # "("
  BY FindFirst
<1>2. CASE open = 0
  <2>1. a = Action(body, <<>>)
    BY <1>2 DEF ParseAction, Ok
  <2>2. a.name = body /\ a.params = <<>> /\ a = Action(a.name, a.params)
    BY <2>1 DEF Action
  <2>3. IsParams(<<>>)
    <3>1. <<>> \in Seq(Token) /\ Lacks(<<>>, {"->", GAP})
      BY DEF Lacks
    <3>2. ParseParams(<<>>) = Ok(<<>>)
      BY DEF ParseParams
    <3>3. IsOk(ParseParams(<<>>)) /\ ParseParams(<<>>).value = <<>>
      BY <3>2 DEF IsOk, Ok
    <3> QED BY <3>1, <3>3, ParamsRead
  <2>4. Lacks(body, {"(", "->", GAP})
    BY <1>1, <1>2 DEF Lacks
  <2>5. Begins(body, body)
    BY DEF Begins
  <2> QED BY <2>2, <2>3, <2>4, <2>5 DEF IsAction
<1>3. CASE open # 0
  <2>1. close # 0 /\ ~(close < open)
    BY <1>3 DEF ParseAction, IsOk, Fail
  <2>2. IsOk(r) /\ ParseAction(body) = Ok(Action(SubSeq(body, 1, open - 1), r.value))
    BY <1>3, <2>1 DEF ParseAction, Then
  <2>3. a = Action(SubSeq(body, 1, open - 1), r.value)
    BY <2>2 DEF Ok
  <2>4. close \in 0 .. Len(body)
    BY FindLast
  <2>5. IsParams(r.value)
    <3>. DEFINE inner == SubSeq(body, open + 1, close - 1)
    <3>1. inner \in Seq(Token) /\ Lacks(inner, {"->", GAP})
      <4>1. open \in 1 .. Len(body) /\ close \in open .. Len(body)
        <5>1. open \in 0 .. Len(body) /\ close \in 0 .. Len(body)
          BY <1>1, <2>4
        <5>. HIDE DEF open, close
        <5> QED BY <1>3, <2>1, <5>1
      <4>. HIDE DEF open, close
      <4>2. inner \in Seq(Token) /\ \A i \in 1 .. Len(inner) : inner[i] = body[open + i]
        BY <4>1
      <4>3. \A i \in 1 .. Len(inner) : open + i \in 1 .. Len(body)
        BY <4>1
      <4>. HIDE DEF inner
      <4> QED BY <1>1, <4>2, <4>3 DEF Lacks
    <3>. HIDE DEF inner
    <3>2. IsOk(ParseParams(inner)) => IsParams(ParseParams(inner).value)
      BY <3>1, ParamsRead
    <3> QED BY <2>2, <3>2 DEF inner
  <2>. DEFINE name == SubSeq(body, 1, open - 1)
  <2>6. name \in Seq(Token) /\ Lacks(name, {"(", "->", GAP}) /\ Begins(name, body)
    BY <1>1, <1>3 DEF Lacks, Begins
  <2>. DEFINE params == r.value
  <2>. HIDE DEF a
  <2>7. a = Action(name, params)
    BY <2>3
  <2>. HIDE DEF name, r, params
  <2>71. a.name = name /\ a.params = params
    BY <2>7 DEF Action
  <2>8. IsAction(a) /\ Begins(a.name, body)
    BY <2>5, <2>6, <2>7, <2>71 DEF IsAction, params
  <2> QED BY <2>8 DEF a
<1> QED BY <1>2, <1>3

\* A function from 1 .. m is a sequence.
LEMMA SequenceOf ==
  ASSUME NEW m \in Nat, NEW f, NEW T, f \in [1 .. m -> T]
  PROVE  f \in Seq(T) /\ Len(f) = m
<1>1. f \in Seq(T)
  BY SeqDef
<1>2. DOMAIN f = 1 .. m
  OBVIOUS
<1>3. DOMAIN f = 1 .. Len(f) /\ Len(f) \in Nat
  BY <1>1, LenProperties
<1> QED BY <1>1, <1>2, <1>3

\* A result that is Ok is the value.
LEMMA OkValue ==
  ASSUME NEW x
  PROVE  IsOk(Ok(x)) /\ Ok(x).value = x
BY DEF IsOk, Ok

\* Collect returns every value or an error.
LEMMA CollectValues ==
  ASSUME NEW m \in Nat, NEW f, DOMAIN f = 1 .. m, f = [i \in 1 .. m |-> f[i]]
  PROVE  /\ IsOk(Collect(f)) => \A i \in 1 .. m : IsOk(f[i])
         /\ (\A i \in 1 .. m : IsOk(f[i])) => Collect(f) = Ok([i \in 1 .. m |-> f[i].value])
<1>. DEFINE bad == SelectInSeq(f, LAMBDA r : ~IsOk(r))
            I == {i \in 1 .. m : ~IsOk(f[i])}
            T == {f[i] : i \in 1 .. m}
<1>1. f \in Seq(T) /\ Len(f) = m
  <2>1. f \in [1 .. m -> T]
    OBVIOUS
  <2>. HIDE DEF T
  <2> QED BY <2>1, SequenceOf
<1>2. bad = IF I # {} THEN Min(I) ELSE 0
  BY <1>1 DEF SelectInSeq
<1>3. CASE I = {}
  <2>1. \A i \in 1 .. m : IsOk(f[i])
    BY <1>3
  <2>2. bad = 0
    BY <1>2, <1>3
  <2>. HIDE DEF bad
  <2>3. Collect(f) = Ok([i \in DOMAIN f |-> f[i].value])
    BY <2>2 DEF Collect, bad
  <2> QED BY <2>1, <2>3
<1>4. CASE I # {}
  <2>1. Min(I) \in I
    <3>1. I \subseteq Nat
      OBVIOUS
    <3>. HIDE DEF I
    <3> QED BY <1>4, <3>1, LeastPosition
  <2>2. bad \in 1 .. m /\ ~IsOk(f[bad])
    BY <1>2, <1>4, <2>1
  <2>. HIDE DEF bad
  <2>3. bad # 0
    BY <2>2
  <2>4. Collect(f) = Fail(f[bad].error)
    BY <2>3 DEF Collect, bad
  <2>5. ~IsOk(Collect(f))
    BY <2>2, <2>4 DEF IsOk, Fail
  <2> QED BY <2>2, <2>5
<1> QED BY <1>3, <1>4

-----------------------------------------------------------------------------
(* A step.                                                                 *)

\* as are m actions.
AreActions(as, m) ==
    /\ m \in Nat \ {0}
    /\ as = [i \in 1 .. m |-> as[i]]
    /\ \A i \in 1 .. m : IsAction(as[i])

Unbracketed(a) == a.name # <<>> => a.name[1] # "["

\* What ParseStep returns.
IsSingle(step, a) == step = Single(a) /\ IsAction(a) /\ Unbracketed(a)
IsRepeated(step, a, t) ==
    /\ step = Repeated(a, Count[t]) /\ t \in Repeats /\ Count[t] \in 1 .. MaxCount
    /\ IsAction(a) /\ Unbracketed(a)
IsParallel(step, as, m) ==
    /\ step = Parallel(as)
    /\ AreActions(as, m)
    /\ \A i \in 1 .. m : Lacks(as[i].name, {COMMA})
IsStep(step) ==
    \/ \E a : IsSingle(step, a)
    \/ \E a, t : IsRepeated(step, a, t)
    \/ \E as, m : IsParallel(step, as, m)

\* A name that begins a text without a bracket begins without one.
LEMMA BeginsUnbracketed ==
  ASSUME NEW a, IsAction(a), NEW u, Begins(a.name, u), u # <<>> => u[1] # "["
  PROVE  Unbracketed(a)
<1>1. SUFFICES ASSUME a.name # <<>> PROVE a.name[1] # "["
  BY DEF Unbracketed
<1>2. a.name \in Seq(Token)
  BY DEF IsAction
<1>3. 1 \in 1 .. Len(a.name)
  BY <1>1, <1>2
<1>4. a.name[1] = u[1] /\ Len(a.name) <= Len(u)
  BY <1>3 DEF Begins
<1>5. u # <<>>
  <2>1. Len(<<>>) = 0
    OBVIOUS
  <2> QED BY <1>2, <1>3, <1>4, <2>1
<1> QED BY <1>4, <1>5

\* The parts between the commas outside parentheses, and where each starts.
IsBranch(p, s) ==
    \E a \in 0 .. Len(s) : \E b \in a .. Len(s) :
      /\ p = SubSeq(s, a + 1, b)
      /\ Depth(s)[a] = 0
      /\ \A i \in a + 1 .. b : ~(s[i] = COMMA /\ Depth(s)[i - 1] = 0)

\* What split_parallel_actions returns are such parts, none of them empty.
LEMMA BranchesRead ==
  ASSUME NEW s \in Seq(Token)
  PROVE  /\ SplitParallelActions(s) \in Seq(Seq(Token))
         /\ \A q \in 1 .. Len(SplitParallelActions(s)) :
              SplitParallelActions(s)[q] # <<>> /\ IsBranch(SplitParallelActions(s)[q], s)
<1>. DEFINE cuts == {i \in DOMAIN s : s[i] = COMMA /\ Depth(s)[i - 1] = 0}
            ps == Pieces(s, cuts)
<1>0. DOMAIN s = 1 .. Len(s) /\ Len(s) \in Nat
  BY LenProperties
<1>1. /\ ps \in Seq(Seq(Token))
      /\ \A q \in 1 .. Len(ps) :
           \E a \in 0 .. Len(s) : \E b \in a .. Len(s) : Uncut(s, cuts, ps[q], a, b)
  BY PiecesAreUncut
<1>2. SplitParallelActions(s) = NonEmpty(ps)
  BY DEF SplitParallelActions
<1>3. ASSUME NEW q \in 1 .. Len(ps) PROVE IsBranch(ps[q], s)
  <2>1. PICK a \in 0 .. Len(s) : \E b \in a .. Len(s) : Uncut(s, cuts, ps[q], a, b)
    BY <1>1
  <2>2. PICK b \in a .. Len(s) : Uncut(s, cuts, ps[q], a, b)
    BY <2>1
  <2>. HIDE DEF ps
  <2>3. ps[q] = SubSeq(s, a + 1, b) /\ (a = 0 \/ a \in cuts) /\ \A i \in a + 1 .. b : i \notin cuts
    BY <2>2 DEF Uncut
  <2>4. Depth(s)[a] = 0
    <3>1. CASE a = 0
      BY <3>1, DepthCount
    <3>2. CASE a \in cuts
      <4>1. a \in 1 .. Len(s) /\ s[a] = COMMA /\ Depth(s)[a - 1] = 0
        BY <1>0, <3>2
      <4>2. COMMA # "(" /\ COMMA # ")"
        BY MarksDiffer
      <4>3. Depth(s)[a] = IF s[a] = "(" THEN Depth(s)[a - 1] + 1
                          ELSE IF s[a] = ")" /\ Depth(s)[a - 1] > 0 THEN Depth(s)[a - 1] - 1
                          ELSE Depth(s)[a - 1]
        BY <4>1, DepthCount
      <4>. HIDE DEF cuts
      <4>4. s[a] # "(" /\ s[a] # ")"
        BY <4>1, <4>2
      <4>5. Depth(s)[a] = Depth(s)[a - 1]
        BY <4>3, <4>4
      <4> QED BY <4>1, <4>5
    <3> QED BY <2>3, <3>1, <3>2
  <2>5. \A i \in a + 1 .. b : ~(s[i] = COMMA /\ Depth(s)[i - 1] = 0)
    <3>1. ASSUME NEW i \in a + 1 .. b PROVE ~(s[i] = COMMA /\ Depth(s)[i - 1] = 0)
      <4>1. i \in DOMAIN s
        BY <1>0
      <4>2. i \notin cuts
        BY <2>3
      <4> QED BY <4>1, <4>2
    <3> QED BY <3>1
  <2> QED BY <2>3, <2>4, <2>5 DEF IsBranch
<1>. HIDE DEF ps
<1>4. /\ NonEmpty(ps) \in Seq(Seq(Token))
      /\ \A q \in 1 .. Len(NonEmpty(ps)) :
           /\ NonEmpty(ps)[q] # <<>>
           /\ \E i \in 1 .. Len(ps) : NonEmpty(ps)[q] = ps[i]
  BY <1>1, NonEmptyMembers
<1> QED BY <1>2, <1>3, <1>4

\* The name of a branch has no comma.
LEMMA BranchName ==
  ASSUME NEW s \in Seq(Token), NEW p, IsBranch(p, s),
         NEW name \in Seq(Token), Begins(name, p), Lacks(name, {"("})
  PROVE  Lacks(name, {COMMA})
<1>1. PICK a \in 0 .. Len(s) : \E b \in a .. Len(s) :
        /\ p = SubSeq(s, a + 1, b)
        /\ Depth(s)[a] = 0
        /\ \A i \in a + 1 .. b : ~(s[i] = COMMA /\ Depth(s)[i - 1] = 0)
  BY DEF IsBranch
<1>2. PICK b \in a .. Len(s) :
        /\ p = SubSeq(s, a + 1, b)
        /\ Depth(s)[a] = 0
        /\ \A i \in a + 1 .. b : ~(s[i] = COMMA /\ Depth(s)[i - 1] = 0)
  BY <1>1
<1>. DEFINE n == Len(name)
            c == a + n
<1>3. p \in Seq(Token) /\ Len(p) = b - a /\ \A i \in 1 .. Len(p) : p[i] = s[a + i]
  BY <1>2
<1>4. n \in Nat /\ n <= b - a /\ \A i \in 1 .. n : name[i] = s[a + i]
  <2>1. n \in Nat /\ n <= Len(p) /\ \A i \in 1 .. n : name[i] = p[i]
    BY DEF Begins
  <2> QED BY <1>3, <2>1
<1>5. c \in a .. Len(s) /\ c <= b
  BY <1>4
<1>6. \A i \in a .. c : Depth(s)[i] = Depth(s)[a]
  <2>1. ASSUME NEW i \in a + 1 .. c
        PROVE  s[i] # "(" /\ (s[i] = ")" => Depth(s)[a] = 0)
    <3>. DEFINE j == i - a
    <3>1. j \in 1 .. n /\ a + j = i
      BY <1>4
    <3>. HIDE DEF j
    <3>2. s[i] = name[j]
      BY <1>4, <3>1
    <3> QED BY <1>2, <3>1, <3>2 DEF Lacks
  <2>. HIDE DEF c
  <2> QED BY <1>5, <2>1, DepthStays
<1>7. ASSUME NEW j \in 1 .. n PROVE name[j] # COMMA
  <2>. DEFINE i == a + j
  <2>1. i \in a + 1 .. b /\ i - 1 \in a .. c
    BY <1>4, <1>5
  <2>2. name[j] = s[i]
    BY <1>4
  <2>. HIDE DEF i, c
  <2> QED BY <1>2, <1>6, <2>1, <2>2
<1> QED BY <1>7 DEF Lacks

\* All but the last token.
LEMMA FrontOf ==
  ASSUME NEW s \in Seq(Token), s # <<>>
  PROVE  /\ Front(s) \in Seq(Token) /\ Len(Front(s)) = Len(s) - 1
         /\ \A i \in 1 .. Len(Front(s)) : Front(s)[i] = s[i]
<1>. DEFINE k == Len(s) - 1
<1>1. Len(s) \in Nat \ {0} /\ k \in Nat /\ Front(s) = SubSeq(s, 1, k)
  BY DEF Front
<1>2. \A i \in 1 .. k : s[i] \in Token
  BY <1>1
<1>. HIDE DEF k
<1>3. /\ SubSeq(s, 1, k) \in Seq(Token)
      /\ Len(SubSeq(s, 1, k)) = k
      /\ \A i \in 1 .. k : SubSeq(s, 1, k)[i] = s[i]
  BY <1>1, <1>2
<1> QED BY <1>1, <1>3 DEF k

\* parse_step returns a step of one of the three kinds: names of parallel
\* actions have no comma, and a single or repeated action does not begin with a
\* bracket.
LEMMA StepRead ==
  ASSUME NEW body \in Seq(Token), body # <<>>, Lacks(body, {"->", GAP}), IsOk(ParseStep(body))
  PROVE  IsStep(ParseStep(body).value)
<1>. DEFINE step == ParseStep(body).value
<1>1. CASE body[1] = "["
  <2>. DEFINE inside == SubSeq(body, 2, Len(body) - 1)
              parts == SplitParallelActions(inside)
              m == Len(parts)
              read == [i \in DOMAIN parts |-> ParseAction(parts[i])]
              as == [i \in 1 .. m |-> read[i].value]
  <2>1. inside \in Seq(Token) /\ Lacks(inside, {"->", GAP})
    BY DEF Lacks
  <2>2. ParseStep(body) = ParseParallelStep(body)
    BY <1>1 DEF ParseStep
  <2>3. ~(Len(body) < 2 \/ Last(body) # "]" \/ parts = <<>>)
    <3>1. SUFFICES ASSUME Len(body) < 2 \/ Last(body) # "]" \/ parts = <<>> PROVE FALSE
      OBVIOUS
    <3>2. ParseParallelStep(body) = Fail("UnmatchedBracket")
      BY <3>1 DEF ParseParallelStep
    <3> QED BY <2>2, <3>2 DEF IsOk, Fail
  <2>4. ParseParallelStep(body) = Then(Collect(read), LAMBDA actions : Ok(Parallel(actions)))
    BY <2>3 DEF ParseParallelStep
  <2>. HIDE DEF inside
  <2>5. /\ parts \in Seq(Seq(Token))
        /\ \A q \in 1 .. m : parts[q] # <<>> /\ IsBranch(parts[q], inside)
    BY <2>1, BranchesRead
  <2>. HIDE DEF parts
  <2>6. DOMAIN parts = 1 .. m /\ m \in Nat /\ m # 0
    BY <2>3, <2>5, LenProperties
  <2>7. DOMAIN read = 1 .. m /\ read = [i \in 1 .. m |-> read[i]]
    BY <2>6
  <2>8. \A i \in 1 .. m : read[i] = ParseAction(parts[i])
    BY <2>6
  <2>. HIDE DEF read, m
  <2>9. IsOk(Collect(read)) /\ ParseStep(body) = Ok(Parallel(Collect(read).value))
    <3>1. CASE IsOk(Collect(read))
      BY <2>2, <2>4, <3>1 DEF Then
    <3>2. CASE ~IsOk(Collect(read))
      BY <2>2, <2>4, <3>2 DEF Then
    <3> QED BY <3>1, <3>2
  <2>10. \A i \in 1 .. m : IsOk(read[i])
    BY <2>6, <2>7, <2>9, CollectValues
  <2>11. Collect(read) = Ok(as)
    BY <2>6, <2>7, <2>10, CollectValues
  <2>12. step = Parallel(as)
    BY <2>9, <2>11 DEF Ok
  <2>13. ASSUME NEW i \in 1 .. m PROVE IsAction(as[i]) /\ Lacks(as[i].name, {COMMA})
    <3>. DEFINE p == parts[i]
    <3>1. IsBranch(p, inside) /\ IsOk(ParseAction(p)) /\ as[i] = ParseAction(p).value
      BY <2>5, <2>8, <2>10 DEF m
    <3>2. IsPart(p, inside)
      BY <3>1 DEF IsPart, IsBranch
    <3>3. p \in Seq(Token) /\ Lacks(p, {"->", GAP})
      BY <2>1, <3>2, PartLacks
    <3>. HIDE DEF p, as
    <3>4. IsAction(as[i]) /\ Begins(as[i].name, p)
      BY <3>1, <3>3, ActionRead
    <3>5. as[i].name \in Seq(Token) /\ Lacks(as[i].name, {"("})
      BY <3>4 DEF IsAction, Lacks
    <3>6. Lacks(as[i].name, {COMMA})
      BY <2>1, <3>1, <3>4, <3>5, BranchName
    <3> QED BY <3>4, <3>6
  <2>14. as = [i \in 1 .. m |-> as[i]]
    OBVIOUS
  <2>. HIDE DEF as, step
  <2>15. IsParallel(step, as, m)
    BY <2>6, <2>12, <2>13, <2>14 DEF IsParallel, AreActions
  <2> QED BY <2>15 DEF IsStep, step
<1>2. CASE body[1] # "[" /\ HasRepeat(body)
  <2>. DEFINE t == Last(body)
              front == Front(body)
              r == ParseAction(front)
  <2>1. ParseStep(body) = ParseRepeatedStep(body) /\ t \in Repeats
    BY <1>2 DEF ParseStep, HasRepeat
  <2>2. Count[t] \in 1 .. MaxCount
    BY <2>1 DEF ParseRepeatedStep, IsOk, Fail
  <2>3. IsOk(r) /\ ParseStep(body) = Ok(Repeated(r.value, Count[t]))
    BY <2>1, <2>2 DEF ParseRepeatedStep, Then
  <2>4. /\ front \in Seq(Token) /\ Len(front) = Len(body) - 1
        /\ \A i \in 1 .. Len(front) : front[i] = body[i]
    BY FrontOf
  <2>. HIDE DEF front
  <2>5. Lacks(front, {"->", GAP})
    BY <2>4 DEF Lacks
  <2>. DEFINE a == r.value
  <2>6. IsAction(a) /\ Begins(a.name, front)
    BY <2>3, <2>4, <2>5, ActionRead
  <2>7. front # <<>> => front[1] # "["
    <3>1. SUFFICES ASSUME front # <<>> PROVE front[1] # "["
      OBVIOUS
    <3>2. 1 \in 1 .. Len(front)
      BY <2>4, <3>1
    <3> QED BY <1>2, <2>4, <3>2
  <2>8. step = Repeated(a, Count[t])
    BY <2>3 DEF Ok
  <2>. HIDE DEF a, r, step, t
  <2>9. Unbracketed(a)
    BY <2>6, <2>7, BeginsUnbracketed
  <2>10. IsRepeated(step, a, t)
    BY <2>1, <2>2, <2>6, <2>8, <2>9 DEF IsRepeated
  <2> QED BY <2>10 DEF IsStep, step
<1>3. CASE body[1] # "[" /\ ~HasRepeat(body)
  <2>. DEFINE r == ParseAction(body)
              a == r.value
  <2>1. ParseStep(body) = Then(r, LAMBDA action : Ok(Single(action)))
    BY <1>3 DEF ParseStep
  <2>2. IsOk(r) /\ ParseStep(body) = Ok(Single(a))
    BY <2>1 DEF Then
  <2>3. step = Single(a)
    BY <2>2 DEF Ok
  <2>4. IsAction(a) /\ Begins(a.name, body)
    BY <2>2, ActionRead
  <2>. HIDE DEF a, r, step
  <2>5. Unbracketed(a)
    BY <1>3, <2>4, BeginsUnbracketed
  <2>6. IsSingle(step, a)
    BY <2>3, <2>4, <2>5 DEF IsSingle
  <2> QED BY <2>6 DEF IsStep, step
<1> QED BY <1>1, <1>2, <1>3

\* What StepToDsl prints ParseStep reads.
PrintedStep(text, step) ==
    /\ text \in Seq(Token) /\ text # <<>>
    /\ Lacks(text, {"->", GAP})
    /\ ParseStep(text) = Ok(step)

\* The text of an action that is not a bare empty name begins as a step of one
\* action does.
LEMMA PrintedBegin ==
  ASSUME NEW a, IsAction(a), Unbracketed(a), a.name # <<>> \/ a.params # <<>>,
         NEW text, PrintedAction(text, a)
  PROVE  text # <<>> /\ text[1] # "["
<1>1. CASE a.params = <<>>
  BY <1>1 DEF PrintedAction, Unbracketed
<1>2. CASE a.params # <<>>
  <2>1. text # <<>> /\ text[1] = IF a.name = <<>> THEN "(" ELSE a.name[1]
    BY <1>2 DEF PrintedAction
  <2> QED BY <2>1 DEF Unbracketed
<1> QED BY <1>1, <1>2

\* What ReadsBack says of an action of the step.
LEMMA CleanParams ==
  ASSUME NEW step, ReadsBack(step), NEW m \in Nat, DOMAIN step.actions = 1 .. m,
         NEW i \in 1 .. m, IsAction(step.actions[i])
  PROVE  /\ step.actions[i].name # <<>> \/ step.actions[i].params # <<>>
         /\ Clean(step.actions[i].params)
<1>. DEFINE a == step.actions[i]
<1>1. /\ a.name # <<>> \/ a.params # <<>>
      /\ \A k \in DOMAIN a.params :
           /\ \A j \in DOMAIN k : k[j] \notin {"(", ")"}
           /\ \A j \in DOMAIN a.params[k] : a.params[k][j] \notin {"(", ")"}
  BY DEF ReadsBack
<1>2. \A k \in DOMAIN a.params : k \in Seq(Token) /\ a.params[k] \in Seq(Token)
  BY DEF IsAction, IsParams
<1>. HIDE DEF a
<1>3. Clean(a.params)
  BY <1>1, <1>2, LenProperties DEF Clean, Lacks
<1> QED BY <1>1, <1>3 DEF a

\* A single action reads back as itself: not as a list, nor as a repetition.
LEMMA SingleReadsBack ==
  ASSUME NEW step, NEW a, IsSingle(step, a), ReadsBack(step)
  PROVE  PrintedStep(StepToDsl(step), step)
<1>. DEFINE text == ActionToDsl(a)
<1>1. step = Single(a) /\ IsAction(a) /\ Unbracketed(a)
  BY DEF IsSingle
<1>2. step.kind = "Single" /\ step.actions = <<a>>
  BY <1>1 DEF Single
<1>3. DOMAIN step.actions = 1 .. 1 /\ step.actions[1] = a
  BY <1>2
<1>4. (a.name # <<>> \/ a.params # <<>>) /\ Clean(a.params)
  <2>1. 1 \in Nat /\ 1 \in 1 .. 1
    OBVIOUS
  <2> QED BY <1>1, <1>3, <2>1, CleanParams
<1>5. StepToDsl(step) = text
  BY <1>2, <1>3 DEF StepToDsl
<1>6. PrintedAction(text, a)
  BY <1>1, <1>4, ActionReadsBack
<1>. HIDE DEF text
<1>7. text # <<>> /\ text[1] # "["
  BY <1>1, <1>4, <1>6, PrintedBegin
<1>8. ~HasRepeat(text)
  <2>1. CASE a.params = <<>>
    <3>1. ~HasRepeat(a.name)
      BY <1>2, <1>3, <2>1 DEF ReadsBack
    <3> QED BY <1>6, <2>1, <3>1 DEF PrintedAction
  <2>2. CASE a.params # <<>>
    <3>1. Last(text) = ")"
      BY <1>6, <2>2 DEF PrintedAction
    <3> QED BY <3>1, RepeatAssumption DEF HasRepeat
  <2> QED BY <2>1, <2>2
<1>9. ParseAction(text) = Ok(a)
  BY <1>6 DEF PrintedAction
<1>10. ParseStep(text) = Ok(Single(a))
  BY <1>7, <1>8, <1>9 DEF ParseStep, Then, IsOk, Ok
<1>11. PrintedStep(text, step)
  BY <1>1, <1>6, <1>7, <1>10 DEF PrintedAction, PrintedStep
<1> QED BY <1>5, <1>11

\* A repeated action reads back with its count: the suffix stands outside
\* parentheses.
LEMMA RepeatedReadsBack ==
  ASSUME NEW step, NEW a, NEW u, IsRepeated(step, a, u), ReadsBack(step)
  PROVE  PrintedStep(StepToDsl(step), step)
<1>. DEFINE n == Count[u]
            t == Caret(n)
            v == ActionToDsl(a)
            text == Append(v, t)
<1>1. /\ step = Repeated(a, n) /\ IsAction(a) /\ Unbracketed(a)
      /\ u \in Repeats /\ n \in 1 .. MaxCount
  BY DEF IsRepeated
<1>2. step.kind = "Repeated" /\ step.actions = <<a>> /\ step.count = n
  BY <1>1 DEF Repeated
<1>3. DOMAIN step.actions = 1 .. 1 /\ step.actions[1] = a
  BY <1>2
<1>4. (a.name # <<>> \/ a.params # <<>>) /\ Clean(a.params)
  <2>1. 1 \in Nat /\ 1 \in 1 .. 1
    OBVIOUS
  <2> QED BY <1>1, <1>3, <2>1, CleanParams
<1>5. StepToDsl(step) = text
  BY <1>2, <1>3 DEF StepToDsl
<1>6. PrintedAction(v, a)
  BY <1>1, <1>4, ActionReadsBack
<1>7. t \in Repeats /\ Count[t] = n
  BY <1>1 DEF Caret
<1>. HIDE DEF v, t, n
<1>8. v \in Seq(Token) /\ Lacks(v, {"->", GAP}) /\ Depth(v)[Len(v)] = 0
  BY <1>6 DEF PrintedAction
<1>9. v # <<>> /\ v[1] # "["
  BY <1>1, <1>4, <1>6, PrintedBegin
<1>10. t \in Token /\ t \notin {"->", GAP}
  BY <1>7, MarksAreTokens, RepeatAssumption
<1>11. /\ text \in Seq(Token) /\ Len(text) = Len(v) + 1 /\ Len(v) \in Nat \ {0}
       /\ \A i \in 1 .. Len(v) : text[i] = v[i]
       /\ text[Len(v) + 1] = t
       /\ Front(text) = v /\ Last(text) = t
  BY <1>8, <1>9, <1>10 DEF Front, Last
<1>. HIDE DEF text
<1>12. text # <<>> /\ text[1] # "["
  BY <1>9, <1>11
<1>13. Lacks(text, {"->", GAP})
  BY <1>8, <1>10, <1>11 DEF Lacks
<1>14. HasRepeat(text)
  <2>1. StandsAt(v, text, 0) /\ 0 \in Nat
    BY <1>11 DEF StandsAt
  <2>2. Depth(text)[0] = 0
    BY <1>11, DepthCount
  <2>3. \A i \in 0 .. Len(v) : Depth(v)[i] = Depth(text)[0 + i]
    BY <1>8, <1>11, <2>1, <2>2, DepthOfPart
  <2>. DEFINE k == Len(v)
  <2>4. k \in 0 .. Len(v) /\ 0 + k = k /\ Len(text) - 1 = k /\ Depth(v)[k] = 0
    BY <1>8, <1>11
  <2>. HIDE DEF k
  <2>5. Depth(text)[Len(text) - 1] = 0
    BY <2>3, <2>4
  <2> QED BY <1>7, <1>11, <1>12, <2>5 DEF HasRepeat
<1>15. ParseAction(v) = Ok(a)
  BY <1>6 DEF PrintedAction
<1>16. ParseRepeatedStep(text) = Ok(Repeated(a, n))
  <2>1. Count[Last(text)] = n
    BY <1>7, <1>11
  <2>2. ParseRepeatedStep(text) = Then(ParseAction(v), LAMBDA action : Ok(Repeated(action, n)))
    BY <1>1, <1>11, <2>1 DEF ParseRepeatedStep
  <2> QED BY <1>15, <2>2 DEF Then, IsOk, Ok
<1>17. ParseStep(text) = Ok(step)
  BY <1>1, <1>12, <1>14, <1>16 DEF ParseStep
<1>18. PrintedStep(text, step)
  BY <1>11, <1>12, <1>13, <1>17 DEF PrintedStep
<1> QED BY <1>5, <1>18

\* A list reads back as its actions, however many parameters they have.
LEMMA ParallelReadsBack ==
  ASSUME NEW step, NEW as, NEW m, IsParallel(step, as, m), ReadsBack(step)
  PROVE  PrintedStep(StepToDsl(step), step)
<1>. DEFINE parts == [i \in DOMAIN step.actions |-> ActionToDsl(step.actions[i])]
            inside == Join(parts, <<COMMA>>)
            text == <<"[">> \o inside \o <<"]">>
            read == [i \in DOMAIN parts |-> ParseAction(parts[i])]
<1>1. /\ step = Parallel(as) /\ m \in Nat \ {0} /\ as = [i \in 1 .. m |-> as[i]]
      /\ \A i \in 1 .. m : IsAction(as[i]) /\ Lacks(as[i].name, {COMMA})
  BY DEF IsParallel, AreActions
<1>2. step.kind = "Parallel" /\ step.actions = as
  BY <1>1 DEF Parallel
<1>3. DOMAIN as = 1 .. m
  BY <1>1
<1>4. StepToDsl(step) = text
  BY <1>2 DEF StepToDsl
<1>5. parts = [i \in 1 .. m |-> ActionToDsl(as[i])]
  BY <1>2, <1>3
<1>6. ASSUME NEW i \in 1 .. m
      PROVE  PrintedAction(parts[i], as[i]) /\ parts[i] # <<>>
  <2>1. (as[i].name # <<>> \/ as[i].params # <<>>) /\ Clean(as[i].params)
    BY <1>1, <1>2, <1>3, CleanParams
  <2>2. PrintedAction(ActionToDsl(as[i]), as[i])
    BY <1>1, <2>1, ActionReadsBack
  <2>3. parts[i] = ActionToDsl(as[i])
    BY <1>5
  <2>. HIDE DEF parts
  <2>4. PrintedAction(parts[i], as[i])
    BY <2>2, <2>3
  <2>5. parts[i] # <<>>
    <3>. DEFINE p == parts[i]
                b == as[i]
    <3>1. PrintedAction(p, b) /\ (b.name # <<>> \/ b.params # <<>>)
      BY <2>1, <2>4
    <3>. HIDE DEF p, b
    <3>2. p # <<>>
      BY <3>1 DEF PrintedAction
    <3> QED BY <3>2 DEF p
  <2> QED BY <2>4, <2>5
<1>. HIDE DEF parts
<1>7. \A i \in 1 .. m : parts[i] \in Seq(Token)
  BY <1>6 DEF PrintedAction
<1>8. parts \in Seq(Seq(Token)) /\ Len(parts) = m /\ DOMAIN parts = 1 .. m
  <2>1. parts \in [1 .. m -> Seq(Token)]
    BY <1>5, <1>7
  <2> QED BY <1>1, <2>1, SequenceOf
<1>9. /\ COMMA \in Token /\ "[" \in Token /\ "]" \in Token
      /\ COMMA \notin {"->", GAP} /\ "[" \notin {"->", GAP} /\ "]" \notin {"->", GAP}
  BY MarksAreTokens, MarksDiffer
<1>10. inside \in Seq(Token) /\ Lacks(inside, {"->", GAP})
  <2>1. <<COMMA>> \in Seq(Token) /\ Lacks(<<COMMA>>, {"->", GAP})
    BY <1>9, OneToken DEF Lacks
  <2>2. \A q \in 1 .. Len(parts) : Lacks(parts[q], {"->", GAP})
    BY <1>6, <1>8 DEF PrintedAction
  <2> QED BY <1>8, <2>1, <2>2, JoinLacks
<1>11. SplitParallelActions(inside) = parts
  <2>1. \A q \in 1 .. Len(parts) : parts[q] # <<>> /\ Sealed(parts[q], COMMA, TRUE)
    BY <1>1, <1>6, <1>8 DEF PrintedAction
  <2>2. Len(parts) > 0
    BY <1>1, <1>8
  <2> QED BY <1>8, <2>1, <2>2, SplitParallelOfJoin
<1>. HIDE DEF inside
<1>12. /\ text \in Seq(Token) /\ Len(text) = Len(inside) + 2 /\ Len(inside) \in Nat
       /\ text[1] = "[" /\ text[Len(inside) + 2] = "]"
       /\ \A i \in 1 .. Len(inside) : text[1 + i] = inside[i]
  BY <1>9, <1>10
<1>. HIDE DEF text
<1>13. SubSeq(text, 2, Len(text) - 1) = inside
  BY <1>10, <1>12
<1>14. Lacks(text, {"->", GAP})
  <2>1. ASSUME NEW i \in 1 .. Len(text) PROVE text[i] \notin {"->", GAP}
    <3>1. CASE i = 1
      BY <1>9, <1>12, <3>1
    <3>2. CASE i = Len(inside) + 2
      BY <1>9, <1>12, <3>2
    <3>3. CASE i \in 2 .. Len(inside) + 1
      <4>. DEFINE j == i - 1
      <4>1. j \in 1 .. Len(inside) /\ 1 + j = i
        BY <1>12, <3>3
      <4>. HIDE DEF j
      <4> QED BY <1>10, <1>12, <4>1 DEF Lacks
    <3> QED BY <1>12, <3>1, <3>2, <3>3
  <2> QED BY <2>1 DEF Lacks
<1>15. text # <<>> /\ Last(text) = "]" /\ ~(Len(text) < 2)
  BY <1>12 DEF Last
<1>16. parts # <<>>
  <2>1. Len(<<>>) = 0
    OBVIOUS
  <2> QED BY <1>1, <1>8, <2>1
<1>17. /\ DOMAIN read = 1 .. m /\ read = [i \in 1 .. m |-> read[i]]
       /\ \A i \in 1 .. m : read[i] = Ok(as[i])
  BY <1>6, <1>8 DEF PrintedAction
<1>18. ParseParallelStep(text) = Then(Collect(read), LAMBDA actions : Ok(Parallel(actions)))
  BY <1>11, <1>13, <1>15, <1>16 DEF ParseParallelStep
<1>. HIDE DEF read
<1>19. Collect(read) = Ok(as)
  <2>1. \A i \in 1 .. m : IsOk(read[i]) /\ read[i].value = as[i]
    BY <1>17, OkValue
  <2>2. Collect(read) = Ok([i \in 1 .. m |-> read[i].value])
    BY <1>1, <1>17, <2>1, CollectValues
  <2>3. [i \in 1 .. m |-> read[i].value] = as
    BY <1>1, <2>1
  <2> QED BY <2>2, <2>3
<1>20. ParseStep(text) = Ok(step)
  <2>1. ParseStep(text) = ParseParallelStep(text)
    BY <1>12 DEF ParseStep
  <2>2. IsOk(Collect(read)) /\ Collect(read).value = as
    BY <1>19, OkValue
  <2>3. ParseParallelStep(text) = Ok(Parallel(as))
    BY <1>18, <2>2 DEF Then
  <2> QED BY <1>1, <2>1, <2>3
<1>21. PrintedStep(text, step)
  BY <1>12, <1>14, <1>15, <1>20 DEF PrintedStep
<1> QED BY <1>4, <1>21

\* What step_to_dsl prints parse_step reads.
LEMMA StepReadsBack ==
  ASSUME NEW step, IsStep(step), ReadsBack(step)
  PROVE  PrintedStep(StepToDsl(step), step)
<1>1. CASE \E a : IsSingle(step, a)
  BY <1>1, SingleReadsBack
<1>2. CASE \E a, t : IsRepeated(step, a, t)
  BY <1>2, RepeatedReadsBack
<1>3. CASE \E as, m : IsParallel(step, as, m)
  BY <1>3, ParallelReadsBack
<1> QED BY <1>1, <1>2, <1>3 DEF IsStep

-----------------------------------------------------------------------------
(* A recipe, and a file of them.                                           *)

\* What ParseRecipe returns, of m steps.
IsRecipe(r, name, steps, m) ==
    /\ r = [name |-> name, steps |-> steps, source |-> ToDsl(name, steps)]
    /\ name \in Seq(Token) /\ name # <<>> /\ Lacks(name, {"=", GAP})
    /\ m \in Nat \ {0}
    /\ steps = [i \in 1 .. m |-> steps[i]]
    /\ \A i \in 1 .. m : IsStep(steps[i])

\* parse_recipe returns a name without `=`, at least one step, each as
\* parse_step returns it, and the text of both.
LEMMA RecipeRead ==
  ASSUME NEW block \in Seq(Token), Lacks(block, {GAP}), IsOk(ParseRecipe(block))
  PROVE  \E name, steps, m : IsRecipe(ParseRecipe(block).value, name, steps, m)
<1>. DEFINE eq == Find(block, "=")
            rest == SubSeq(block, eq + 1, Len(block))
            bodies == NonEmpty(Split(rest, "->"))
            name == SubSeq(block, 1, eq - 1)
            m == Len(bodies)
            read == [i \in DOMAIN bodies |-> ParseStep(bodies[i])]
            steps == [i \in 1 .. m |-> read[i].value]
            Made(ss) == Ok([name |-> name, steps |-> ss, source |-> ToDsl(name, ss)])
            r == ParseRecipe(block).value
<1>1. eq # 0 /\ eq # 1 /\ bodies # <<>>
  <2>1. eq # 0
    BY DEF ParseRecipe, IsOk, Fail
  <2>2. eq # 1
    BY DEF ParseRecipe, IsOk, Fail
  <2>3. bodies # <<>>
    <3>1. SUFFICES ASSUME bodies = <<>> PROVE FALSE
      OBVIOUS
    <3>2. ParseRecipe(block) = Fail("NoSteps")
      BY <2>1, <2>2, <3>1 DEF ParseRecipe
    <3> QED BY <3>2 DEF IsOk, Fail
  <2> QED BY <2>1, <2>2, <2>3
<1>2. ParseRecipe(block) = Then(Collect(read), Made)
  BY <1>1 DEF ParseRecipe
<1>3. /\ eq \in 2 .. Len(block)
      /\ \A i \in 1 .. eq - 1 : block[i] # "="
  <2>1. /\ eq \in 0 .. Len(block)
        /\ eq # 0 => \A i \in 1 .. eq - 1 : block[i] # "="
    BY FindFirst
  <2>. HIDE DEF eq
  <2> QED BY <1>1, <2>1
<1>4. name \in Seq(Token) /\ name # <<>> /\ Lacks(name, {"=", GAP})
  BY <1>3 DEF Lacks
<1>5. rest \in Seq(Token) /\ Lacks(rest, {GAP})
  BY <1>3 DEF Lacks
<1>. HIDE DEF rest, eq, name
<1>6. /\ bodies \in Seq(Seq(Token))
      /\ \A q \in 1 .. m : /\ bodies[q] # <<>>
                           /\ bodies[q] \in Seq(Token)
                           /\ Lacks(bodies[q], {"->", GAP})
  <2>. DEFINE ps == Split(rest, "->")
  <2>1. /\ ps \in Seq(Seq(Token))
        /\ \A q \in 1 .. Len(ps) : IsPart(ps[q], rest) /\ Lacks(ps[q], {"->"})
    BY <1>5, SplitParts
  <2>2. \A q \in 1 .. Len(ps) : Lacks(ps[q], {GAP})
    BY <1>5, <2>1, PartLacks
  <2>3. \A q \in 1 .. Len(ps) : Lacks(ps[q], {"->", GAP})
    BY <2>1, <2>2 DEF Lacks
  <2>. HIDE DEF ps
  <2>4. /\ NonEmpty(ps) \in Seq(Seq(Token))
        /\ \A q \in 1 .. Len(NonEmpty(ps)) :
             /\ NonEmpty(ps)[q] # <<>>
             /\ \E i \in 1 .. Len(ps) : NonEmpty(ps)[q] = ps[i]
    BY <2>1, NonEmptyMembers
  <2>5. ASSUME NEW q \in 1 .. Len(NonEmpty(ps))
        PROVE  /\ NonEmpty(ps)[q] # <<>>
               /\ NonEmpty(ps)[q] \in Seq(Token)
               /\ Lacks(NonEmpty(ps)[q], {"->", GAP})
    <3>1. PICK i \in 1 .. Len(ps) : NonEmpty(ps)[q] = ps[i]
      BY <2>4
    <3>2. ps[i] \in Seq(Token)
      BY <2>1
    <3> QED BY <2>3, <2>4, <3>1, <3>2
  <2> QED BY <2>4, <2>5 DEF ps
<1>. HIDE DEF bodies
<1>7. DOMAIN bodies = 1 .. m /\ m \in Nat \ {0}
  <2>1. DOMAIN bodies = 1 .. m /\ m \in Nat
    BY <1>6, LenProperties
  <2>2. m # 0
    BY <1>1, <1>6
  <2> QED BY <2>1, <2>2
<1>8. /\ DOMAIN read = 1 .. m /\ read = [i \in 1 .. m |-> read[i]]
      /\ \A i \in 1 .. m : read[i] = ParseStep(bodies[i])
  BY <1>7
<1>. HIDE DEF read, m
<1>9. IsOk(Collect(read)) /\ ParseRecipe(block) = Made(Collect(read).value)
  <2>1. CASE IsOk(Collect(read))
    BY <1>2, <2>1 DEF Then
  <2>2. CASE ~IsOk(Collect(read))
    BY <1>2, <2>2 DEF Then
  <2> QED BY <2>1, <2>2
<1>10. \A i \in 1 .. m : IsOk(read[i])
  BY <1>7, <1>8, <1>9, CollectValues
<1>11. Collect(read).value = steps
  <2>1. Collect(read) = Ok(steps)
    BY <1>7, <1>8, <1>10, CollectValues
  <2>. HIDE DEF steps
  <2> QED BY <2>1, OkValue
<1>12. r = [name |-> name, steps |-> steps, source |-> ToDsl(name, steps)]
  <2>1. ParseRecipe(block) = Made(steps)
    BY <1>9, <1>11
  <2>. HIDE DEF steps
  <2> QED BY <2>1, OkValue
<1>13. ASSUME NEW i \in 1 .. m PROVE IsStep(steps[i])
  <2>1. /\ bodies[i] # <<>> /\ bodies[i] \in Seq(Token)
        /\ Lacks(bodies[i], {"->", GAP})
    BY <1>6 DEF m
  <2>2. IsOk(ParseStep(bodies[i])) /\ steps[i] = ParseStep(bodies[i]).value
    BY <1>8, <1>10
  <2>. HIDE DEF steps
  <2> QED BY <2>1, <2>2, StepRead
<1>14. steps = [i \in 1 .. m |-> steps[i]]
  OBVIOUS
<1>. HIDE DEF steps, r
<1>15. IsRecipe(r, name, steps, m)
  BY <1>4, <1>7, <1>12, <1>13, <1>14 DEF IsRecipe
<1> QED BY <1>15 DEF r

\* What to_dsl_string prints parse_recipe reads.
LEMMA RecipeReadsBack ==
  ASSUME NEW r, NEW name, NEW steps, NEW m, IsRecipe(r, name, steps, m),
         \A i \in 1 .. m : ReadsBack(steps[i])
  PROVE  /\ r.source \in Seq(Token) /\ r.source # <<>> /\ Lacks(r.source, {GAP})
         /\ ParseRecipe(r.source) = Ok(r)
<1>. DEFINE texts == [i \in DOMAIN steps |-> StepToDsl(steps[i])]
            inner == Join(texts, <<"->">>)
            text == Parted(name, "=", inner)
            eq == Len(name) + 1
            read == [i \in DOMAIN texts |-> ParseStep(texts[i])]
            Made(ss) == Ok([name |-> name, steps |-> ss, source |-> ToDsl(name, ss)])
<1>1. /\ r = [name |-> name, steps |-> steps, source |-> ToDsl(name, steps)]
      /\ name \in Seq(Token) /\ name # <<>> /\ Lacks(name, {"=", GAP})
      /\ m \in Nat \ {0} /\ DOMAIN steps = 1 .. m
      /\ \A i \in 1 .. m : IsStep(steps[i])
  <2>1. steps = [i \in 1 .. m |-> steps[i]]
    BY DEF IsRecipe
  <2>2. DOMAIN steps = 1 .. m
    BY <2>1
  <2> QED BY <2>2 DEF IsRecipe
<1>2. r.source = text
  BY <1>1 DEF ToDsl, Parted
<1>3. ASSUME NEW i \in 1 .. m PROVE PrintedStep(texts[i], steps[i])
  <2>1. PrintedStep(StepToDsl(steps[i]), steps[i])
    BY <1>1, StepReadsBack
  <2>2. texts[i] = StepToDsl(steps[i])
    BY <1>1
  <2>. HIDE DEF texts
  <2> QED BY <2>1, <2>2
<1>4. texts = [i \in 1 .. m |-> texts[i]]
  BY <1>1
<1>. HIDE DEF texts
<1>5. texts \in Seq(Seq(Token)) /\ Len(texts) = m /\ DOMAIN texts = 1 .. m
  <2>1. texts \in [1 .. m -> Seq(Token)]
    <3>1. \A i \in 1 .. m : texts[i] \in Seq(Token)
      BY <1>3 DEF PrintedStep
    <3> QED BY <1>4, <3>1
  <2> QED BY <1>1, <2>1, SequenceOf
<1>6. /\ "->" \in Token \ {"(", ")"} /\ "=" \in Token
      /\ "->" # GAP /\ "=" # GAP
  BY MarksAreTokens, MarksDiffer
<1>7. inner \in Seq(Token) /\ Lacks(inner, {GAP})
  <2>1. <<"->">> \in Seq(Token) /\ Lacks(<<"->">>, {GAP})
    BY <1>6, OneToken DEF Lacks
  <2>2. \A q \in 1 .. Len(texts) : Lacks(texts[q], {GAP})
    BY <1>3, <1>5 DEF PrintedStep, Lacks
  <2> QED BY <1>5, <2>1, <2>2, JoinLacks
<1>8. NonEmpty(Split(inner, "->")) = texts
  <2>1. \A q \in 1 .. Len(texts) : texts[q] # <<>> /\ Lacks(texts[q], {"->"})
    BY <1>3, <1>5 DEF PrintedStep, Lacks
  <2>2. Split(inner, "->") = texts
    <3>1. Len(texts) > 0
      BY <1>1, <1>5
    <3> QED BY <1>5, <1>6, <2>1, <3>1, SplitOfJoin
  <2> QED BY <1>5, <2>1, <2>2, NonEmptyOfNonEmpty
<1>. HIDE DEF inner
<1>9. IsParted(text, name, "=", inner)
  BY <1>1, <1>6, <1>7, PartedText
<1>. HIDE DEF text
<1>10. /\ text \in Seq(Token) /\ Len(text) = Len(name) + 1 + Len(inner)
       /\ Len(name) \in Nat \ {0} /\ Len(inner) \in Nat
       /\ \A i \in 1 .. Len(name) : text[i] = name[i]
       /\ text[eq] = "="
       /\ \A i \in 1 .. Len(inner) : text[eq + i] = inner[i]
  BY <1>1, <1>7, <1>9 DEF IsParted
<1>11. Lacks(text, {GAP})
  <2>1. ASSUME NEW i \in 1 .. Len(text) PROVE text[i] # GAP
    <3>1. CASE i \in 1 .. Len(name)
      BY <1>1, <1>10, <3>1 DEF Lacks
    <3>2. CASE i = eq
      BY <1>6, <1>10, <3>2
    <3>3. CASE i \in eq + 1 .. Len(text)
      <4>. DEFINE j == i - eq
      <4>1. j \in 1 .. Len(inner) /\ eq + j = i
        BY <1>10, <3>3
      <4>. HIDE DEF j
      <4> QED BY <1>7, <1>10, <4>1 DEF Lacks
    <3> QED BY <1>10, <3>1, <3>2, <3>3
  <2> QED BY <2>1 DEF Lacks
<1>12. Find(text, "=") = eq
  <2>1. eq \in 1 .. Len(text)
    BY <1>10
  <2>2. \A j \in 1 .. eq - 1 : text[j] # text[eq]
    BY <1>1, <1>10 DEF Lacks
  <2>3. text[eq] = "="
    BY <1>10
  <2>. HIDE DEF eq
  <2> QED BY <1>10, <2>1, <2>2, <2>3, FindIs
<1>13. SubSeq(text, 1, eq - 1) = name
  BY <1>1, <1>10
<1>14. SubSeq(text, eq + 1, Len(text)) = inner
  BY <1>7, <1>10
<1>15. eq # 0 /\ eq # 1 /\ texts # <<>>
  <2>1. Len(<<>>) = 0
    OBVIOUS
  <2> QED BY <1>1, <1>5, <1>10, <2>1
<1>16. text # <<>>
  BY <1>10
<1>. HIDE DEF eq
<1>17. ParseRecipe(text) = Then(Collect(read), Made)
  <2>. DEFINE e == Find(text, "=")
              bodies == NonEmpty(Split(SubSeq(text, e + 1, Len(text)), "->"))
              front == SubSeq(text, 1, e - 1)
              Built(ss) == Ok([name |-> front, steps |-> ss, source |-> ToDsl(front, ss)])
  <2>1. e = eq /\ front = name /\ bodies = texts
    BY <1>8, <1>12, <1>13, <1>14
  <2>2. e # 0 /\ e # 1 /\ bodies # <<>>
    BY <1>15, <2>1
  <2>3. ParseRecipe(text) = Then(Collect([i \in DOMAIN bodies |-> ParseStep(bodies[i])]), Built)
    BY <2>2 DEF ParseRecipe
  <2>. HIDE DEF e, bodies, front
  <2> QED BY <2>1, <2>3
<1>18. /\ DOMAIN read = 1 .. m /\ read = [i \in 1 .. m |-> read[i]]
       /\ \A i \in 1 .. m : read[i] = Ok(steps[i])
  BY <1>3, <1>5 DEF PrintedStep
<1>. HIDE DEF read
<1>19. Collect(read) = Ok(steps)
  <2>1. \A i \in 1 .. m : IsOk(read[i]) /\ read[i].value = steps[i]
    BY <1>18, OkValue
  <2>2. Collect(read) = Ok([i \in 1 .. m |-> read[i].value])
    BY <1>1, <1>18, <2>1, CollectValues
  <2>3. [i \in 1 .. m |-> read[i].value] = [i \in 1 .. m |-> steps[i]]
    BY <2>1
  <2>4. steps = [i \in 1 .. m |-> steps[i]]
    BY DEF IsRecipe
  <2> QED BY <2>2, <2>3, <2>4
<1>20. ParseRecipe(text) = Made(steps)
  <2>1. IsOk(Collect(read)) /\ Collect(read).value = steps
    BY <1>19, OkValue
  <2> QED BY <1>17, <2>1 DEF Then
<1> QED BY <1>1, <1>2, <1>10, <1>11, <1>16, <1>20

\* The steps of a recipe are those it was made of.
LEMMA StepsOfRecipe ==
  ASSUME NEW r, NEW name, NEW steps, NEW m, IsRecipe(r, name, steps, m),
         \A k \in DOMAIN r.steps : ReadsBack(r.steps[k])
  PROVE  \A k \in 1 .. m : ReadsBack(steps[k])
<1>1. r.steps = steps
  BY DEF IsRecipe
<1>2. steps = [k \in 1 .. m |-> steps[k]]
  BY DEF IsRecipe
<1>3. DOMAIN steps = 1 .. m
  BY <1>2
<1> QED BY <1>1, <1>3

\* The text of one recipe is one block.
LEMMA OneBlock ==
  ASSUME NEW text \in Seq(Token), text # <<>>, Lacks(text, {GAP}),
         NEW r, ParseRecipe(text) = Ok(r)
  PROVE  ParseRecipes(text) = Ok(<<r>>)
<1>. DEFINE blocks == NonEmpty(Split(text, GAP))
            read == [i \in DOMAIN blocks |-> ParseRecipe(blocks[i])]
<1>1. Split(text, GAP) = <<text>>
  <2>1. DOMAIN text = 1 .. Len(text)
    BY LenProperties
  <2>2. \A i \in 1 .. Len(text) : i \notin {j \in DOMAIN text : text[j] = GAP}
    BY <2>1 DEF Lacks
  <2> QED BY <2>2, UncutIsOnePiece DEF Split
<1>2. <<text>> \in Seq(Seq(Token)) /\ Len(<<text>>) = 1 /\ <<text>>[1] = text
  BY OneToken
<1>3. blocks = <<text>>
  <2>1. \A i \in 1 .. Len(<<text>>) : <<text>>[i] # <<>>
    BY <1>2
  <2> QED BY <1>1, <1>2, <2>1, NonEmptyOfNonEmpty
<1>4. ParseRecipes(text) = Collect(read)
  BY DEF ParseRecipes
<1>. HIDE DEF blocks
<1>5. /\ DOMAIN read = 1 .. 1 /\ read = [i \in 1 .. 1 |-> read[i]]
      /\ \A i \in 1 .. 1 : read[i] = Ok(r)
  <2>1. DOMAIN blocks = 1 .. 1 /\ blocks[1] = text
    BY <1>2, <1>3
  <2> QED BY <2>1
<1>. HIDE DEF read
<1>6. \A i \in 1 .. 1 : IsOk(read[i]) /\ read[i].value = r
  BY <1>5, OkValue
<1>7. 1 \in Nat
  OBVIOUS
<1>8. Collect(read) = Ok([i \in 1 .. 1 |-> read[i].value])
  BY <1>5, <1>6, <1>7, CollectValues
<1>9. [i \in 1 .. 1 |-> read[i].value] = <<r>>
  BY <1>6
<1> QED BY <1>4, <1>8, <1>9

\* What ParseRecipes returns, of m recipes.
IsFile(recipes, m) ==
    /\ m \in Nat
    /\ recipes = [i \in 1 .. m |-> recipes[i]]
    /\ \A i \in 1 .. m : \E name, steps, n : IsRecipe(recipes[i], name, steps, n)

\* parse_recipes returns recipes as parse_recipe returns them.
LEMMA FileRead ==
  ASSUME NEW text \in Seq(Token), IsOk(ParseRecipes(text))
  PROVE  \E m : IsFile(ParseRecipes(text).value, m)
<1>. DEFINE blocks == NonEmpty(Split(text, GAP))
            m == Len(blocks)
            read == [i \in DOMAIN blocks |-> ParseRecipe(blocks[i])]
            recipes == ParseRecipes(text).value
<1>1. ParseRecipes(text) = Collect(read)
  BY DEF ParseRecipes
<1>2. /\ blocks \in Seq(Seq(Token))
      /\ \A q \in 1 .. m : blocks[q] \in Seq(Token) /\ Lacks(blocks[q], {GAP})
  <2>. DEFINE ps == Split(text, GAP)
  <2>1. /\ ps \in Seq(Seq(Token))
        /\ \A q \in 1 .. Len(ps) : IsPart(ps[q], text) /\ Lacks(ps[q], {GAP})
    BY SplitParts
  <2>. HIDE DEF ps
  <2>2. /\ NonEmpty(ps) \in Seq(Seq(Token))
        /\ \A q \in 1 .. Len(NonEmpty(ps)) :
             \E j \in 1 .. Len(ps) : NonEmpty(ps)[q] = ps[j]
    BY <2>1, NonEmptyMembers
  <2>3. ASSUME NEW q \in 1 .. Len(NonEmpty(ps))
        PROVE  NonEmpty(ps)[q] \in Seq(Token) /\ Lacks(NonEmpty(ps)[q], {GAP})
    <3>1. PICK j \in 1 .. Len(ps) : NonEmpty(ps)[q] = ps[j]
      BY <2>2
    <3>2. ps[j] \in Seq(Token)
      BY <2>1
    <3> QED BY <2>1, <3>1, <3>2
  <2> QED BY <2>2, <2>3 DEF ps
<1>. HIDE DEF blocks
<1>3. DOMAIN blocks = 1 .. m /\ m \in Nat
  BY <1>2, LenProperties
<1>4. /\ DOMAIN read = 1 .. m /\ read = [i \in 1 .. m |-> read[i]]
      /\ \A i \in 1 .. m : read[i] = ParseRecipe(blocks[i])
  BY <1>3
<1>. HIDE DEF read, m
<1>5. \A i \in 1 .. m : IsOk(read[i])
  BY <1>1, <1>3, <1>4, CollectValues
<1>6. ParseRecipes(text) = Ok([i \in 1 .. m |-> read[i].value])
  BY <1>1, <1>3, <1>4, <1>5, CollectValues
<1>7. recipes = [i \in 1 .. m |-> read[i].value]
  BY <1>6, OkValue
<1>8. ASSUME NEW i \in 1 .. m
      PROVE  \E name, steps, n : IsRecipe(recipes[i], name, steps, n)
  <2>1. recipes[i] = ParseRecipe(blocks[i]).value /\ IsOk(ParseRecipe(blocks[i]))
    BY <1>4, <1>5, <1>7
  <2>2. blocks[i] \in Seq(Token) /\ Lacks(blocks[i], {GAP})
    BY <1>2 DEF m
  <2> QED BY <2>1, <2>2, RecipeRead
<1>9. recipes = [i \in 1 .. m |-> recipes[i]]
  BY <1>7
<1>. HIDE DEF recipes
<1>10. IsFile(recipes, m)
  BY <1>3, <1>8, <1>9 DEF IsFile
<1> QED BY <1>10 DEF recipes

\* Every recipe a text holds reads back from the source kept with it: what
\* get_recipe sends is, to the node that parses it, the recipe it was printed
\* from (parse_recipes, to_dsl_string).
THEOREM PrintedReadsBack ==
  ASSUME NEW text \in Seq(Token), IsOk(ParseRecipes(text)),
         NEW i \in DOMAIN ParseRecipes(text).value,
         \A k \in DOMAIN ParseRecipes(text).value[i].steps :
           ReadsBack(ParseRecipes(text).value[i].steps[k])
  PROVE  ParseRecipes(ParseRecipes(text).value[i].source)
           = Ok(<<ParseRecipes(text).value[i]>>)
<1>. DEFINE recipes == ParseRecipes(text).value
            r == recipes[i]
<1>1. PICK m : IsFile(recipes, m)
  BY FileRead
<1>2. i \in 1 .. m
  <2>1. recipes = [j \in 1 .. m |-> recipes[j]] /\ i \in DOMAIN recipes
    BY <1>1 DEF IsFile
  <2>. HIDE DEF recipes
  <2> QED BY <2>1
<1>3. PICK name, steps, n : IsRecipe(r, name, steps, n)
  BY <1>1, <1>2 DEF IsFile
<1>4. \A k \in 1 .. n : ReadsBack(steps[k])
  BY <1>3, StepsOfRecipe
<1>. HIDE DEF r
<1>5. /\ r.source \in Seq(Token) /\ r.source # <<>> /\ Lacks(r.source, {GAP})
      /\ ParseRecipe(r.source) = Ok(r)
  BY <1>3, <1>4, RecipeReadsBack
<1>6. ParseRecipes(r.source) = Ok(<<r>>)
  BY <1>5, OneBlock
<1> QED BY <1>6 DEF r

\* A file of any recipes, each written as to_dsl_string prints it and set off
\* from the next by a blank line, loads as exactly those recipes, in their order
\* (parse_recipes).
THEOREM PrintedFilesLoad ==
  ASSUME NEW recipes, NEW m, IsFile(recipes, m), m # 0,
         \A i \in 1 .. m : \A k \in DOMAIN recipes[i].steps : ReadsBack(recipes[i].steps[k])
  PROVE  ParseRecipes(Join([i \in 1 .. m |-> recipes[i].source], <<GAP>>)) = Ok(recipes)
<1>. DEFINE texts == [i \in 1 .. m |-> recipes[i].source]
            text == Join(texts, <<GAP>>)
            blocks == NonEmpty(Split(text, GAP))
            read == [i \in DOMAIN blocks |-> ParseRecipe(blocks[i])]
<1>1. m \in Nat /\ m > 0
  BY DEF IsFile
<1>2. ASSUME NEW i \in 1 .. m
      PROVE  /\ texts[i] \in Seq(Token) /\ texts[i] # <<>> /\ Lacks(texts[i], {GAP})
             /\ ParseRecipe(texts[i]) = Ok(recipes[i])
  <2>1. PICK name, steps, n : IsRecipe(recipes[i], name, steps, n)
    BY DEF IsFile
  <2>2. \A k \in 1 .. n : ReadsBack(steps[k])
    BY <2>1, StepsOfRecipe
  <2>3. texts[i] = recipes[i].source
    OBVIOUS
  <2>. HIDE DEF texts
  <2> QED BY <2>1, <2>2, <2>3, RecipeReadsBack
<1>3. texts \in Seq(Seq(Token)) /\ Len(texts) = m
  <2>1. texts = [i \in 1 .. m |-> texts[i]]
    OBVIOUS
  <2>. HIDE DEF texts
  <2>2. texts \in [1 .. m -> Seq(Token)]
    BY <1>2, <2>1
  <2> QED BY <1>1, <2>2, SequenceOf
<1>. HIDE DEF texts
<1>4. blocks = texts
  <2>1. GAP \in Token \ {"(", ")"}
    BY MarksAreTokens, MarksDiffer
  <2>2. Split(text, GAP) = texts
    BY <1>1, <1>2, <1>3, <2>1, SplitOfJoin
  <2> QED BY <1>2, <1>3, <2>2, NonEmptyOfNonEmpty
<1>5. ParseRecipes(text) = Collect(read)
  BY DEF ParseRecipes
<1>. HIDE DEF blocks
<1>6. /\ DOMAIN read = 1 .. m /\ read = [i \in 1 .. m |-> read[i]]
      /\ \A i \in 1 .. m : read[i] = Ok(recipes[i])
  <2>1. DOMAIN blocks = 1 .. m
    BY <1>3, <1>4, LenProperties
  <2> QED BY <1>2, <1>4, <2>1
<1>. HIDE DEF read
<1>7. \A i \in 1 .. m : IsOk(read[i]) /\ read[i].value = recipes[i]
  BY <1>6, OkValue
<1>8. Collect(read) = Ok([i \in 1 .. m |-> read[i].value])
  BY <1>1, <1>6, <1>7, CollectValues
<1>9. [i \in 1 .. m |-> read[i].value] = recipes
  <2>1. [i \in 1 .. m |-> read[i].value] = [i \in 1 .. m |-> recipes[i]]
    BY <1>7
  <2> QED BY <2>1 DEF IsFile
<1> QED BY <1>5, <1>8, <1>9 DEF texts

=============================================================================
