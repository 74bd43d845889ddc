-------------------------- MODULE OptimisticCacheProofs --------------------------
(***************************************************************************)
(* Theorems about OptimisticCache, for any number of queries, mutations    *)
(* and writes of others: the ledger explains what is shown, a refused      *)
(* write leaves nothing behind, and nothing stale is shown as current.     *)
(*                                                                         *)
(* What Kept and Replay compute is proved of their recursions first.  Then *)
(* each operation on a query (the Row lemmas), without regard to when it   *)
(* happens; then each action.                                              *)
(***************************************************************************)
EXTENDS OptimisticCache, WellFoundedInduction, TLAPS

(* Induction up to n, over a set: the induction of the library takes an    *)
(* operator.                                                               *)
LEMMA Induction ==
  ASSUME NEW n \in Nat, NEW S, 0 \in S, \A i \in 0..n : i < n /\ i \in S => i + 1 \in S
  PROVE  0..n \subseteq S
<1> SUFFICES ASSUME NEW k \in 0..n, k \notin S PROVE FALSE
  OBVIOUS
<1> DEFINE T == {i \in Nat : i \in 0..n /\ i \notin S}
           Below == {p \in Nat \X Nat : p[1] < p[2]}
<1>1. IsWellFoundedOn(Below, Nat)
  BY NatLessThanWellFounded DEF OpToRel
<1>2. T \subseteq Nat /\ T # {}
  <2>1. k \in T
    OBVIOUS
  <2> QED  BY <2>1
<1> HIDE DEF Below
<1>3. PICK x \in T : \A y \in T : ~(<<y, x>> \in Below)
  BY <1>1, <1>2, WFMin
<1>4. \A y \in T : ~(y < x)
  BY <1>2, <1>3 DEF Below
<1>5. x \in 0..n /\ x \notin S /\ x # 0
  OBVIOUS
<1>6. x - 1 \in 0..n /\ x - 1 < x /\ x - 1 < n /\ (x - 1) + 1 = x
  BY <1>5
<1>7. x - 1 \in S
  BY <1>4, <1>6
<1> QED  BY <1>5, <1>6, <1>7

(* A recursion over 0..n, and that two that go on alike agree.             *)
Iterates(f, n, a, F) == f[0] = a /\ \A i \in 1..n : f[i] = F[i][f[i - 1]]

(* A recursion over 0..n has a solution.                                   *)
LEMMA Recursion ==
  ASSUME NEW V, NEW a \in V, NEW n \in Nat, NEW F \in [1..n -> [V -> V]]
  PROVE  \E f \in [0..n -> V] : Iterates(f, n, a, F)
<1> DEFINE S == {k \in 0..n : \E f \in [0..k -> V] : Iterates(f, k, a, F)}
<1>1. 0 \in S
  <2>1. [i \in 0..0 |-> a] \in [0..0 -> V] /\ Iterates([i \in 0..0 |-> a], 0, a, F)
    BY DEF Iterates
  <2> QED  BY <2>1
<1>2. ASSUME NEW k \in 0..n, k < n, k \in S PROVE k + 1 \in S
  <2>1. PICK f \in [0..k -> V] : Iterates(f, k, a, F)
    BY <1>2
  <2> DEFINE g == [i \in 0..(k + 1) |-> IF i = k + 1 THEN F[k + 1][f[k]] ELSE f[i]]
  <2>2. f[k] \in V /\ k + 1 \in 1..n
    BY <1>2, <2>1
  <2>3. F[k + 1][f[k]] \in V
    BY <2>2
  <2>4. ASSUME NEW i \in 0..(k + 1) PROVE g[i] \in V
    <3>1. i = k + 1 \/ i \in 0..k
      OBVIOUS
    <3> QED  BY <2>1, <2>3, <3>1
  <2>5. ASSUME NEW i \in 1..(k + 1) PROVE g[i] = F[i][g[i - 1]]
    <3>1. CASE i = k + 1
      <4>1. g[i] = F[k + 1][f[k]] /\ g[i - 1] = f[k]
        BY <3>1
      <4> QED  BY <3>1, <4>1
    <3>2. CASE i # k + 1
      <4>1. i \in 1..k /\ g[i] = f[i] /\ g[i - 1] = f[i - 1]
        BY <3>2
      <4> QED  BY <2>1, <4>1 DEF Iterates
    <3> QED  BY <3>1, <3>2
  <2>6. g \in [0..(k + 1) -> V] /\ g[0] = a
    BY <2>1, <2>4 DEF Iterates
  <2> HIDE DEF g
  <2>7. Iterates(g, k + 1, a, F)
    BY <2>5, <2>6 DEF Iterates
  <2> QED  BY <2>2, <2>6, <2>7
<1> HIDE DEF S
<1>3. 0..n \subseteq S
  BY <1>1, <1>2, Induction
<1> QED
  <2>1. n \in S
    BY <1>3
  <2> QED  BY <2>1 DEF S

GoAlike(f, g, n) == f[0] = g[0] /\ \A i \in 1..n : f[i - 1] = g[i - 1] => f[i] = g[i]

(* Two recursions that begin alike and go on alike end alike.              *)
LEMMA Alike ==
  ASSUME NEW n \in Nat, NEW f, NEW g, GoAlike(f, g, n)
  PROVE  f[n] = g[n]
<1> DEFINE S == {i \in 0..n : f[i] = g[i]}
<1>1. 0 \in S
  BY DEF GoAlike
<1>2. ASSUME NEW i \in 0..n, i < n, i \in S PROVE i + 1 \in S
  <2>1. i + 1 \in 1..n /\ (i + 1) - 1 = i
    BY <1>2
  <2> QED  BY <1>2, <2>1 DEF GoAlike
<1> HIDE DEF S
<1>3. 0..n \subseteq S
  BY <1>1, <1>2, Induction
<1> QED  BY <1>3 DEF S

-------------------------------------------------------------------------------
(* What is appended to a sequence is added to its elements.                *)
LEMMA RangeAppend ==
  ASSUME NEW T, NEW s \in Seq(T), NEW x \in T
  PROVE  Range(Append(s, x)) = Range(s) \cup {x}
<1> DEFINE n == Len(s)
           t == Append(s, x)
<1>1. /\ n \in Nat /\ DOMAIN s = 1..n /\ DOMAIN t = 1..(n + 1)
      /\ t[n + 1] = x /\ \A i \in 1..n : t[i] = s[i]
  OBVIOUS
<1> HIDE DEF n, t
<1>2. 1..(n + 1) = 1..n \cup {n + 1}
  BY <1>1
<1> QED  BY <1>1, <1>2 DEF Range, t

(* How Kept is computed.                                                   *)
Keeps(f, s, S) ==
  /\ f[0] = << >>
  /\ \A i \in 1..Len(s) : f[i] = IF s[i] \in S THEN Append(f[i - 1], s[i]) ELSE f[i - 1]

(* Kept is the last value of its recursion.                                *)
LEMMA KeptSteps ==
  ASSUME NEW T, NEW s \in Seq(T), NEW S
  PROVE  \E f \in [0..Len(s) -> Seq(T)] : Keeps(f, s, S) /\ Kept(s, S) = f[Len(s)]
<1> DEFINE n == Len(s)
           F == [i \in 1..n |-> [v \in Seq(T) |-> IF s[i] \in S THEN Append(v, s[i]) ELSE v]]
           Solves(f) == f = [i \in 0..n |->
                               IF i = 0 THEN << >>
                               ELSE IF s[i] \in S THEN Append(f[i - 1], s[i]) ELSE f[i - 1]]
<1>1. n \in Nat /\ \A i \in 1..n : s[i] \in T
  OBVIOUS
<1>2. << >> \in Seq(T)
  OBVIOUS
<1>3. F \in [1..n -> [Seq(T) -> Seq(T)]]
  BY <1>1
<1> HIDE DEF F, n
<1>4. PICK f \in [0..n -> Seq(T)] : Iterates(f, n, << >>, F)
  BY <1>1, <1>2, <1>3, Recursion
<1>5. ASSUME NEW i \in 1..n
      PROVE  f[i] = IF s[i] \in S THEN Append(f[i - 1], s[i]) ELSE f[i - 1]
  <2>1. f[i - 1] \in Seq(T)
    BY <1>1
  <2> QED  BY <1>4, <2>1 DEF F, Iterates
<1>6. f[0] = << >>
  BY <1>4 DEF Iterates
<1>7. Solves(f)
  <2>1. ASSUME NEW i \in 0..n
        PROVE  f[i] = IF i = 0 THEN << >>
                      ELSE IF s[i] \in S THEN Append(f[i - 1], s[i]) ELSE f[i - 1]
    <3>1. i = 0 \/ i \in 1..n
      BY <1>1
    <3> QED  BY <1>5, <1>6, <3>1
  <2> QED  BY <2>1
<1> DEFINE upto == CHOOSE g : Solves(g)
<1>8. Solves(upto)
  BY <1>7
<1>9. Kept(s, S) = upto[n]
  BY DEF Kept, n
<1> HIDE DEF upto
<1>10. ASSUME NEW i \in 0..n
       PROVE  upto[i] = IF i = 0 THEN << >>
                        ELSE IF s[i] \in S THEN Append(upto[i - 1], s[i]) ELSE upto[i - 1]
  BY <1>8
<1>11. GoAlike(upto, f, n)
  <2>1. upto[0] = f[0]
    BY <1>1, <1>6, <1>10
  <2>2. ASSUME NEW i \in 1..n, upto[i - 1] = f[i - 1] PROVE upto[i] = f[i]
    <3>1. i \in 0..n /\ i # 0
      BY <1>1
    <3> QED  BY <1>5, <1>10, <2>2, <3>1
  <2> HIDE DEF Solves
  <2> QED  BY <2>1, <2>2 DEF GoAlike
<1>12. upto[n] = f[n]
  BY <1>1, <1>11, Alike
<1>13. Keeps(f, s, S)
  BY <1>5, <1>6 DEF Keeps, n
<1> HIDE DEF Solves
<1> QED  BY <1>9, <1>12, <1>13 DEF n

(* Nothing is kept of the empty sequence.                                  *)
LEMMA KeptEmpty == ASSUME NEW S PROVE Kept(<< >>, S) = << >>
<1>1. << >> \in Seq({}) /\ Len(<< >>) = 0
  OBVIOUS
<1>2. PICK f \in [0..Len(<< >>) -> Seq({})] : Keeps(f, << >>, S) /\ Kept(<< >>, S) = f[Len(<< >>)]
  BY <1>1, KeptSteps
<1> QED  BY <1>1, <1>2 DEF Keeps

(* The element appended last is kept or not; the rest is as before.        *)
LEMMA KeptAppend ==
  ASSUME NEW T, NEW s \in Seq(T), NEW x \in T, NEW S
  PROVE  Kept(Append(s, x), S) = IF x \in S THEN Append(Kept(s, S), x) ELSE Kept(s, S)
<1> DEFINE n == Len(s)
           t == Append(s, x)
<1>1. n \in Nat /\ t \in Seq(T) /\ Len(t) = n + 1 /\ t[n + 1] = x /\ \A i \in 1..n : t[i] = s[i]
  OBVIOUS
<1>2. PICK f \in [0..n -> Seq(T)] : Keeps(f, s, S) /\ Kept(s, S) = f[n]
  BY KeptSteps
<1> HIDE DEF t
<1>3. PICK g \in [0..Len(t) -> Seq(T)] : Keeps(g, t, S) /\ Kept(t, S) = g[Len(t)]
  BY <1>1, KeptSteps
<1>4. ASSUME NEW i \in 1..n
      PROVE  /\ f[i] = IF s[i] \in S THEN Append(f[i - 1], s[i]) ELSE f[i - 1]
             /\ g[i] = IF s[i] \in S THEN Append(g[i - 1], s[i]) ELSE g[i - 1]
  <2>1. i \in 1..Len(t) /\ t[i] = s[i]
    BY <1>1
  <2> QED  BY <1>2, <1>3, <2>1 DEF Keeps
<1>5. GoAlike(g, f, n)
  <2>1. g[0] = f[0]
    BY <1>2, <1>3 DEF Keeps
  <2> HIDE DEF n
  <2> QED  BY <1>4, <2>1 DEF GoAlike
<1>6. g[n] = f[n]
  BY <1>1, <1>5, Alike
<1>7. n + 1 \in 1..Len(t) /\ (n + 1) - 1 = n
  BY <1>1
<1>8. g[n + 1] = IF x \in S THEN Append(g[n], x) ELSE g[n]
  BY <1>1, <1>3, <1>7 DEF Keeps
<1> QED  BY <1>1, <1>2, <1>3, <1>6, <1>8 DEF t

(* Kept keeps nothing that is not there or not wanted.                     *)
LEMMA KeptElements ==
  ASSUME NEW T, NEW s \in Seq(T), NEW S
  PROVE  Kept(s, S) \in Seq(T) /\ Range(Kept(s, S)) \subseteq Range(s) \cap S
<1> DEFINE n == Len(s)
<1>1. PICK f \in [0..n -> Seq(T)] : Keeps(f, s, S) /\ Kept(s, S) = f[n]
  BY KeptSteps
<1>2. n \in Nat
  OBVIOUS
<1> DEFINE Good == {i \in 0..n : Range(f[i]) \subseteq Range(s) \cap S}
<1>3. 0 \in Good
  BY <1>1 DEF Range, Keeps
<1>4. ASSUME NEW i \in 0..n, i < n, i \in Good PROVE i + 1 \in Good
  <2>1. i + 1 \in 1..n /\ (i + 1) - 1 = i /\ i + 1 \in 0..n
    BY <1>4
  <2>2. f[i] \in Seq(T) /\ s[i + 1] \in T /\ s[i + 1] \in Range(s)
    BY <2>1 DEF Range
  <2>3. f[i + 1] = IF s[i + 1] \in S THEN Append(f[i], s[i + 1]) ELSE f[i]
    BY <1>1, <2>1 DEF Keeps
  <2>4. Range(Append(f[i], s[i + 1])) = Range(f[i]) \cup {s[i + 1]}
    BY <2>2, RangeAppend
  <2> QED  BY <1>4, <2>1, <2>2, <2>3, <2>4
<1> HIDE DEF Good
<1>5. 0..n \subseteq Good
  BY <1>2, <1>3, <1>4, Induction
<1>6. n \in Good
  BY <1>2, <1>5
<1> QED  BY <1>1, <1>6 DEF Good

-------------------------------------------------------------------------------
(* A patch shows nothing but what was there and its own write.             *)
LEMMA PatchElements ==
  ASSUME NEW data \in Seq(Writes), NEW w \in Writes
  PROVE  /\ ApplyPatch(data, w) \in Seq(Writes)
         /\ Range(ApplyPatch(data, w)) \subseteq Range(data) \cup {w}
<1> DEFINE rest == Kept(data, Writes \ {w})
<1>1. rest \in Seq(Writes) /\ Range(rest) \subseteq Range(data)
  BY KeptElements
<1> HIDE DEF rest
<1>2. Append(rest, w) \in Seq(Writes) /\ Range(Append(rest, w)) = Range(rest) \cup {w}
  BY <1>1, RangeAppend
<1> QED  BY <1>1, <1>2 DEF ApplyPatch, rest

(* How Replay is computed.                                                 *)
Replays(f, entries, baseline) ==
  /\ f[0] = baseline
  /\ \A i \in 1..Len(entries) : f[i] = ApplyPatch(f[i - 1], entries[i].op)

(* Replay is the last value of its recursion.                              *)
LEMMA ReplaySteps ==
  ASSUME NEW entries \in Seq(Entry), NEW baseline \in Seq(Writes)
  PROVE  \E f \in [0..Len(entries) -> Seq(Writes)] :
           Replays(f, entries, baseline) /\ Replay(entries, baseline) = f[Len(entries)]
<1> DEFINE n == Len(entries)
           F == [i \in 1..n |-> [v \in Seq(Writes) |-> ApplyPatch(v, entries[i].op)]]
           Solves(f) == f = [i \in 0..n |->
                               IF i = 0 THEN baseline ELSE ApplyPatch(f[i - 1], entries[i].op)]
<1>1. n \in Nat /\ \A i \in 1..n : entries[i].op \in Writes
  <2>1. n \in Nat /\ \A i \in 1..n : entries[i] \in Entry
    OBVIOUS
  <2> QED  BY <2>1 DEF Entry, Writes
<1>2. F \in [1..n -> [Seq(Writes) -> Seq(Writes)]]
  <2>1. ASSUME NEW i \in 1..n, NEW v \in Seq(Writes) PROVE ApplyPatch(v, entries[i].op) \in Seq(Writes)
    BY <1>1, PatchElements
  <2> QED  BY <2>1
<1> HIDE DEF F, n
<1>3. PICK f \in [0..n -> Seq(Writes)] : Iterates(f, n, baseline, F)
  BY <1>1, <1>2, Recursion
<1>4. ASSUME NEW i \in 1..n PROVE f[i] = ApplyPatch(f[i - 1], entries[i].op)
  <2>1. f[i - 1] \in Seq(Writes)
    BY <1>1
  <2> QED  BY <1>3, <2>1 DEF F, Iterates
<1>5. f[0] = baseline
  BY <1>3 DEF Iterates
<1>6. Solves(f)
  <2>1. ASSUME NEW i \in 0..n
        PROVE  f[i] = IF i = 0 THEN baseline ELSE ApplyPatch(f[i - 1], entries[i].op)
    <3>1. i = 0 \/ i \in 1..n
      BY <1>1
    <3> QED  BY <1>4, <1>5, <3>1
  <2> QED  BY <2>1
<1> DEFINE upto == CHOOSE g : Solves(g)
<1>7. Solves(upto)
  BY <1>6
<1>8. Replay(entries, baseline) = upto[n]
  BY DEF Replay, n
<1> HIDE DEF upto
<1>9. ASSUME NEW i \in 0..n
      PROVE  upto[i] = IF i = 0 THEN baseline ELSE ApplyPatch(upto[i - 1], entries[i].op)
  BY <1>7
<1>10. GoAlike(upto, f, n)
  <2>1. upto[0] = f[0]
    BY <1>1, <1>5, <1>9
  <2>2. ASSUME NEW i \in 1..n, upto[i - 1] = f[i - 1] PROVE upto[i] = f[i]
    <3>1. i \in 0..n /\ i # 0
      BY <1>1
    <3> QED  BY <1>4, <1>9, <2>2, <3>1
  <2> HIDE DEF Solves
  <2> QED  BY <2>1, <2>2 DEF GoAlike
<1>11. upto[n] = f[n]
  BY <1>1, <1>10, Alike
<1>12. Replays(f, entries, baseline)
  BY <1>4, <1>5 DEF Replays, n
<1> HIDE DEF Solves
<1> QED  BY <1>8, <1>11, <1>12 DEF n

(* Without edits the baseline is shown.                                    *)
LEMMA ReplayEmpty ==
  ASSUME NEW baseline \in Seq(Writes)
  PROVE  Replay(<< >>, baseline) = baseline
<1>1. << >> \in Seq(Entry) /\ Len(<< >>) = 0
  OBVIOUS
<1>2. PICK f \in [0..Len(<< >>) -> Seq(Writes)] :
        Replays(f, << >>, baseline) /\ Replay(<< >>, baseline) = f[Len(<< >>)]
  BY <1>1, ReplaySteps
<1> QED  BY <1>1, <1>2 DEF Replays

(* Two ledgers of the same edits show the same, settled or not.            *)
LEMMA ReplayOps ==
  ASSUME NEW entries \in Seq(Entry), NEW others \in Seq(Entry), NEW baseline \in Seq(Writes),
         Len(others) = Len(entries), \A i \in 1..Len(entries) : others[i].op = entries[i].op
  PROVE  Replay(others, baseline) = Replay(entries, baseline)
<1> DEFINE n == Len(entries)
<1>1. PICK f \in [0..n -> Seq(Writes)] :
        Replays(f, entries, baseline) /\ Replay(entries, baseline) = f[n]
  BY ReplaySteps
<1>2. PICK g \in [0..Len(others) -> Seq(Writes)] :
        Replays(g, others, baseline) /\ Replay(others, baseline) = g[Len(others)]
  BY ReplaySteps
<1>3. n \in Nat
  OBVIOUS
<1>4. GoAlike(g, f, n)
  BY <1>1, <1>2 DEF Replays, GoAlike
<1>5. g[n] = f[n]
  BY <1>3, <1>4, Alike
<1> QED  BY <1>1, <1>2, <1>5

(* The newest edit is patched over what the others show.                   *)
LEMMA ReplayAppend ==
  ASSUME NEW entries \in Seq(Entry), NEW e \in Entry, NEW baseline \in Seq(Writes)
  PROVE  Replay(Append(entries, e), baseline) = ApplyPatch(Replay(entries, baseline), e.op)
<1> DEFINE n == Len(entries)
           t == Append(entries, e)
<1>1. /\ n \in Nat /\ t \in Seq(Entry) /\ Len(t) = n + 1 /\ t[n + 1] = e
      /\ \A i \in 1..n : t[i] = entries[i]
  OBVIOUS
<1>2. PICK f \in [0..n -> Seq(Writes)] :
        Replays(f, entries, baseline) /\ Replay(entries, baseline) = f[n]
  BY ReplaySteps
<1> HIDE DEF t
<1>3. PICK g \in [0..Len(t) -> Seq(Writes)] :
        Replays(g, t, baseline) /\ Replay(t, baseline) = g[Len(t)]
  BY <1>1, ReplaySteps
<1>4. ASSUME NEW i \in 1..n
      PROVE  /\ f[i] = ApplyPatch(f[i - 1], entries[i].op)
             /\ g[i] = ApplyPatch(g[i - 1], entries[i].op)
  <2>1. i \in 1..Len(t) /\ t[i] = entries[i]
    BY <1>1
  <2> QED  BY <1>2, <1>3, <2>1 DEF Replays
<1>5. GoAlike(g, f, n)
  <2>1. g[0] = f[0]
    BY <1>2, <1>3 DEF Replays
  <2> HIDE DEF n
  <2> QED  BY <1>4, <2>1 DEF GoAlike
<1>6. g[n] = f[n]
  BY <1>1, <1>5, Alike
<1>7. n + 1 \in 1..Len(t) /\ (n + 1) - 1 = n
  BY <1>1
<1>8. g[n + 1] = ApplyPatch(g[n], e.op)
  BY <1>1, <1>3, <1>7 DEF Replays
<1> QED  BY <1>1, <1>2, <1>3, <1>6, <1>8 DEF t

Ops(entries) == {entries[i].op : i \in DOMAIN entries}

(* A replay shows nothing but the edits and what it began with.            *)
LEMMA ReplayElements ==
  ASSUME NEW entries \in Seq(Entry), NEW baseline \in Seq(Writes)
  PROVE  /\ Replay(entries, baseline) \in Seq(Writes)
         /\ Range(Replay(entries, baseline)) \subseteq Range(baseline) \cup Ops(entries)
<1> DEFINE n == Len(entries)
<1>1. PICK f \in [0..n -> Seq(Writes)] :
        Replays(f, entries, baseline) /\ Replay(entries, baseline) = f[n]
  BY ReplaySteps
<1>2. n \in Nat
  OBVIOUS
<1> DEFINE Good == {i \in 0..n : Range(f[i]) \subseteq Range(baseline) \cup Ops(entries)}
<1>3. 0 \in Good
  BY <1>1 DEF Replays
<1>4. ASSUME NEW i \in 0..n, i < n, i \in Good PROVE i + 1 \in Good
  <2>1. i + 1 \in 1..n /\ (i + 1) - 1 = i /\ i + 1 \in 0..n
    BY <1>4
  <2>2. f[i] \in Seq(Writes) /\ entries[i + 1].op \in Writes /\ entries[i + 1].op \in Ops(entries)
    <3>1. entries[i + 1] \in Entry /\ i + 1 \in DOMAIN entries
      BY <2>1
    <3> QED  BY <3>1 DEF Ops, Entry, Writes
  <2>3. f[i + 1] = ApplyPatch(f[i], entries[i + 1].op)
    BY <1>1, <2>1 DEF Replays
  <2>4. Range(f[i + 1]) \subseteq Range(f[i]) \cup {entries[i + 1].op}
    BY <2>2, <2>3, PatchElements
  <2> QED  BY <1>4, <2>1, <2>2, <2>4
<1> HIDE DEF Good
<1>5. 0..n \subseteq Good
  BY <1>2, <1>3, <1>4, Induction
<1>6. n \in Good
  BY <1>2, <1>5
<1> QED  BY <1>1, <1>6 DEF Good

-------------------------------------------------------------------------------
(* The inductive invariant.  Of each query by itself: its types, that a    *)
(* ledger lasts only while an edit of it has not settled, and that the     *)
(* ledger explains what is shown.                                          *)
Clean(c) ==
  /\ c \in Query
  /\ c.entries # << >> \/ c.deferred => Pending(c)
  /\ ~c.loaded => c.data = << >> /\ ~c.overtaken
  /\ c.entries # << >> /\ c.loaded => c.data = Replay(c.entries, c.baseline)

(* Of each mutation: how far its request is.                               *)
RequestInv ==
  /\ server \in Seq(Writes) /\ events \subseteq Writes
  /\ stage \in [Mutations -> {"idle", "starting", "sent", "succeeded", "failed", "over"}]
  /\ request \in [Mutations -> {"none", "pending", "committed", "refused"}]
  /\ \A m \in Mutations :
       /\ m \in Range(server) <=> request[m] = "committed"
       /\ stage[m] \in {"idle", "starting"} => request[m] = "none"
       /\ stage[m] = "succeeded" => request[m] = "committed"

(* Of a query and a mutation: an edit is in a ledger only while its        *)
(* mutation can still confirm it or take it back, or once it is committed. *)
Entitled(q, e) ==
  /\ q \in Settles[e.op]
  /\ e.settled => request[e.op] = "committed" /\ stage[e.op] \in {"succeeded", "over"}
  /\ ~e.settled =>
       /\ q \in Targets[e.op]
       /\ stage[e.op] \in {"sent", "succeeded"} \/ (stage[e.op] = "failed" /\ e.op \in Declining)

EntriesInv(q) == \A e \in Range(cache[q].entries) : Entitled(q, e)

(* Of a query whose rollbacks nobody declines: it shows what the server    *)
(* has committed, and what its ledger knows of.                            *)
TraceInv(q) ==
  (\A d \in Declining : q \notin Targets[d]) =>
    /\ Range(cache[q].data) \subseteq Range(server) \cup Ops(cache[q].entries)
    /\ Range(cache[q].baseline) \subseteq Range(server)
    /\ Range(cache[q].sample) \subseteq Range(server)

(* Of a query that is always observed: what a read in flight will leave    *)
(* behind is explained as well.                                            *)
Attended(q) == \E m \in Mutations : Running(m) /\ q \in Settles[m]

WatchInv(q) ==
  q \in Watched =>
    /\ cache[q].observed
    /\ cache[q].overtaken => Attended(q)
    /\ cache[q].read = "answered" =>
         \/ cache[q].sample = Canonical(q)
         \/ cache[q].again
         \/ Attended(q)
         \/ \E w \in events : q \in Affects[w]
    /\ Explained(q)

QueryInv(q) == Clean(cache[q]) /\ EntriesInv(q) /\ TraceInv(q) /\ WatchInv(q)

IInv == RequestInv /\ cache \in [Queries -> Query] /\ \A q \in Queries : QueryInv(q)

-------------------------------------------------------------------------------
(* The operations on one query.  Most leave what it holds alone, and a     *)
(* read that is answered afterwards is the read that was answered before.  *)
Holds(c, d) ==
  /\ d.loaded = c.loaded /\ d.data = c.data
  /\ d.entries = c.entries /\ d.baseline = c.baseline
  /\ d.overtaken => c.overtaken

Reads(c, d) ==
  /\ d.observed = c.observed
  /\ d.sample \in {c.sample, << >>}
  /\ d.read = "answered" => c.read = "answered" /\ d.sample = c.sample /\ (c.again => d.again)

(* The start of a read changes nothing that is shown or owned.             *)
LEMMA StartedReadRow ==
  ASSUME NEW c, Clean(c)
  PROVE  /\ Clean(StartedRead(c)) /\ Holds(c, StartedRead(c)) /\ Reads(c, StartedRead(c))
         /\ StartedRead(c).read = "started" /\ StartedRead(c).invalidated = c.invalidated
         /\ ~StartedRead(c).overtaken
<1> DEFINE d == StartedRead(c)
<1>1. c \in Query
  BY DEF Clean
<1>a. [failed |-> c.failed, invalidated |-> c.invalidated] \in Metadata /\ << >> \in Seq(Writes)
  BY <1>1 DEF Query, Metadata
<1>b. d \in Query
  BY <1>1, <1>a DEF StartedRead, Query
<1>2. /\ d \in Query /\ Holds(c, d) /\ Reads(c, d) /\ d.read = "started" /\ ~d.overtaken
      /\ d.deferred = c.deferred /\ d.invalidated = c.invalidated
  BY <1>1, <1>b DEF StartedRead, Query, Holds, Reads
<1> HIDE DEF d
<1>3. Clean(d)
  BY <1>1, <1>2 DEF Clean, Holds, Pending
<1> QED  BY <1>2, <1>3 DEF d

(* The end of a read changes nothing that is shown or owned.               *)
LEMMA EndedReadRow ==
  ASSUME NEW c, Clean(c)
  PROVE  /\ Clean(EndedRead(c)) /\ Holds(c, EndedRead(c)) /\ Reads(c, EndedRead(c))
         /\ EndedRead(c).read = "none" /\ EndedRead(c).sample = << >> /\ ~EndedRead(c).overtaken
<1> DEFINE d == EndedRead(c)
<1>1. c \in Query
  BY DEF Clean
<1>a. Fine \in Metadata /\ << >> \in Seq(Writes)
  BY DEF Fine, Metadata
<1>b. d \in Query
  BY <1>1, <1>a DEF EndedRead, Query
<1>2. /\ d \in Query /\ Holds(c, d) /\ Reads(c, d) /\ d.read = "none" /\ ~d.overtaken
      /\ d.sample = << >> /\ d.deferred = c.deferred
  BY <1>1, <1>b DEF EndedRead, Query, Holds, Reads
<1> HIDE DEF d
<1>3. Clean(d)
  BY <1>1, <1>2 DEF Clean, Holds, Pending
<1> QED  BY <1>2, <1>3 DEF d

(* A change of the marks only.                                             *)
LEMMA MarkedRow ==
  ASSUME NEW c, Clean(c), NEW d \in Query, Holds(c, d), d.deferred => c.deferred \/ Pending(c)
  PROVE  Clean(d) /\ (Pending(d) <=> Pending(c))
<1>1. Pending(d) <=> Pending(c)
  BY DEF Holds, Pending
<1> QED  BY <1>1 DEF Clean, Holds

(* invalidateQueries marks the query, and an observed one is read again.   *)
LEMMA RefetchedRow ==
  ASSUME NEW c, Clean(c)
  PROVE  /\ Clean(Refetched(c)) /\ Holds(c, Refetched(c)) /\ Reads(c, Refetched(c))
         /\ Refetched(c).invalidated
         /\ IF c.observed /\ (c.loaded \/ c.read = "none")
            THEN Refetched(c).read = "started" /\ ~Refetched(c).overtaken
            ELSE Refetched(c).read = c.read /\ Refetched(c).again = c.again
<1> DEFINE marked == [c EXCEPT !.invalidated = TRUE]
<1>1. c \in Query
  BY DEF Clean
<1>2. /\ marked \in Query /\ Holds(c, marked) /\ Reads(c, marked) /\ marked.invalidated
      /\ marked.deferred = c.deferred /\ marked.read = c.read /\ marked.again = c.again
  BY <1>1 DEF Query, Holds, Reads
<1>3. Refetched(c) = IF c.observed /\ (c.loaded \/ c.read = "none") THEN StartedRead(marked) ELSE marked
  BY DEF Refetched
<1> HIDE DEF marked
<1>4. Clean(marked)
  BY <1>2, MarkedRow
<1> DEFINE d == StartedRead(marked)
<1>5. /\ Clean(d) /\ Holds(marked, d) /\ Reads(marked, d) /\ d.read = "started"
      /\ d.invalidated = marked.invalidated /\ ~d.overtaken
  BY <1>4, StartedReadRow
<1> HIDE DEF d
<1>6. Holds(c, d) /\ Reads(c, d)
  BY <1>2, <1>5 DEF Holds, Reads
<1> QED  BY <1>2, <1>3, <1>4, <1>5, <1>6 DEF d

(* After an invalidation the query is marked; if it is observed, a read    *)
(* that has been answered will be repeated or belongs to an edit that has  *)
(* not settled.                                                            *)
LEMMA InvalidateRow ==
  ASSUME NEW c, Clean(c)
  PROVE  /\ Clean(Invalidate(c)) /\ Holds(c, Invalidate(c)) /\ Reads(c, Invalidate(c))
         /\ Invalidate(c).invalidated
         /\ c.observed => /\ Invalidate(c).read = "answered" => Invalidate(c).again \/ Pending(c)
                          /\ Invalidate(c).overtaken => Pending(c)
<1> DEFINE told == [c EXCEPT !.again = @ \/ (~c.loaded /\ c.read # "none")]
           deferred == [told EXCEPT !.invalidated = TRUE, !.deferred = TRUE]
<1>1. c \in Query
  BY DEF Clean
<1>2. /\ told \in Query /\ Holds(c, told) /\ Reads(c, told)
      /\ told.deferred = c.deferred /\ told.read = c.read /\ told.observed = c.observed
      /\ told.again = (c.again \/ (~c.loaded /\ c.read # "none"))
  BY <1>1 DEF Query, Holds, Reads
<1>3. /\ deferred \in Query /\ Holds(c, deferred) /\ Reads(c, deferred) /\ deferred.invalidated
      /\ deferred.deferred
  BY <1>1 DEF Query, Holds, Reads
<1>4. Invalidate(c) = IF Pending(c) THEN deferred ELSE Refetched(told)
  BY DEF Invalidate
<1> HIDE DEF told, deferred
<1>5. CASE Pending(c)
  <2>1. Clean(deferred)
    BY <1>3, <1>5, MarkedRow
  <2> QED  BY <1>3, <1>4, <1>5, <2>1
<1>6. CASE ~Pending(c)
  <2> DEFINE d == Refetched(told)
  <2>1. Clean(told)
    BY <1>2, MarkedRow
  <2>2. /\ Clean(d) /\ Holds(told, d) /\ Reads(told, d) /\ d.invalidated
        /\ IF told.observed /\ (told.loaded \/ told.read = "none")
           THEN d.read = "started" /\ ~d.overtaken
           ELSE d.read = told.read /\ d.again = told.again
    BY <2>1, RefetchedRow
  <2>3. Invalidate(c) = d
    BY <1>4, <1>6
  <2> HIDE DEF d
  <2>4. Holds(c, d) /\ Reads(c, d)
    BY <1>2, <2>2 DEF Holds, Reads
  <2>5. ASSUME c.observed PROVE (d.read = "answered" => d.again) /\ ~d.overtaken
    <3>1. CASE c.loaded \/ c.read = "none"
      BY <1>2, <2>2, <2>5, <3>1 DEF Holds
    <3>2. CASE ~c.loaded /\ c.read # "none"
      <4>1. ~c.overtaken /\ told.again
        BY <1>2, <3>2 DEF Clean
      <4> QED  BY <1>2, <2>2, <2>4, <2>5, <3>2, <4>1 DEF Holds
    <3> QED  BY <3>1, <3>2
  <2> QED  BY <2>2, <2>3, <2>4, <2>5
<1> QED  BY <1>5, <1>6

(* The reconciliation that waited for a read leaves the query marked.      *)
LEMMA AfterReadRow ==
  ASSUME NEW c, NEW ended, Clean(ended)
  PROVE  /\ Clean(AfterRead(c, ended)) /\ Holds(ended, AfterRead(c, ended))
         /\ Reads(ended, AfterRead(c, ended))
         /\ c.again => AfterRead(c, ended).invalidated
         /\ ended.invalidated => AfterRead(c, ended).invalidated
<1>1. Holds(ended, ended) /\ Reads(ended, ended)
  BY DEF Holds, Reads
<1> QED  BY <1>1, InvalidateRow DEF AfterRead

(* Cancelling a read changes nothing that is shown or owned.               *)
LEMMA CancelRow ==
  ASSUME NEW c, Clean(c)
  PROVE  Clean(CancelQuery(c)) /\ Holds(c, CancelQuery(c)) /\ Reads(c, CancelQuery(c))
<1> DEFINE kept == IF c.loaded /\ c.failed /\ ~c.revert.failed
                   THEN [failed |-> TRUE, invalidated |-> c.invalidated] ELSE c.revert
           ended == [EndedRead(c) EXCEPT !.failed = kept.failed, !.invalidated = kept.invalidated]
<1>1. CancelQuery(c) = IF c.read = "none" THEN c ELSE AfterRead(c, ended)
  BY DEF CancelQuery
<1>2. c \in Query /\ EndedRead(c) \in Query /\ Holds(c, EndedRead(c)) /\ EndedRead(c).read = "none"
      /\ Reads(c, EndedRead(c))
  BY EndedReadRow DEF Clean
<1>3. kept.failed \in BOOLEAN /\ kept.invalidated \in BOOLEAN
  BY <1>2 DEF Query, Metadata
<1>4. EndedRead(c).deferred = c.deferred
  BY <1>2 DEF EndedRead, Query
<1> HIDE DEF kept
<1>5. ended \in Query /\ Holds(c, ended) /\ Reads(c, ended) /\ ended.deferred = c.deferred
  BY <1>2, <1>3, <1>4 DEF Query, Holds, Reads
<1> HIDE DEF ended
<1>6. Clean(ended)
  BY <1>5, MarkedRow
<1> DEFINE d == AfterRead(c, ended)
<1>7. Clean(d) /\ Holds(ended, d) /\ Reads(ended, d)
  BY <1>6, AfterReadRow
<1> HIDE DEF d
<1>8. Holds(c, d) /\ Reads(c, d)
  BY <1>5, <1>7 DEF Holds, Reads
<1>9. Holds(c, c) /\ Reads(c, c)
  BY DEF Holds, Reads
<1> QED  BY <1>1, <1>7, <1>8, <1>9 DEF d

(* A failed read leaves what was shown, and the query marked.              *)
LEMMA FailReadRow ==
  ASSUME NEW c, Clean(c)
  PROVE  /\ Clean(FailRead(c)) /\ Holds(c, FailRead(c)) /\ Reads(c, FailRead(c))
         /\ FailRead(c).invalidated
<1> DEFINE ended == [EndedRead(c) EXCEPT !.failed = TRUE, !.invalidated = TRUE]
           d == AfterRead(c, ended)
<1>1. c \in Query /\ EndedRead(c) \in Query /\ Holds(c, EndedRead(c)) /\ Reads(c, EndedRead(c))
  BY EndedReadRow DEF Clean
<1>2. EndedRead(c).deferred = c.deferred
  BY <1>1 DEF EndedRead, Query
<1>3. ended \in Query /\ Holds(c, ended) /\ Reads(c, ended) /\ ended.deferred = c.deferred /\ ended.invalidated
  BY <1>1, <1>2 DEF Query, Holds, Reads
<1> HIDE DEF ended
<1>4. Clean(ended)
  BY <1>3, MarkedRow
<1>5. Clean(d) /\ Holds(ended, d) /\ Reads(ended, d) /\ d.invalidated
  BY <1>3, <1>4, AfterReadRow
<1>6. FailRead(c) = d
  BY DEF FailRead, ended
<1> HIDE DEF d
<1>7. Holds(c, d) /\ Reads(c, d)
  BY <1>3, <1>5 DEF Holds, Reads
<1> QED  BY <1>5, <1>6, <1>7

(* A publication changes what is shown of a loaded query, and no ledger.   *)
LEMMA PublishRow ==
  ASSUME NEW c \in Query, NEW data \in Seq(Writes)
  PROVE  /\ Publish(c, data) \in Query
         /\ Publish(c, data).loaded = c.loaded
         /\ Publish(c, data).data = IF c.loaded THEN data ELSE c.data
         /\ Publish(c, data).entries = c.entries
         /\ Publish(c, data).baseline = c.baseline
         /\ Publish(c, data).deferred = c.deferred
         /\ Publish(c, data).overtaken => c.loaded \/ c.overtaken
         /\ Reads(c, Publish(c, data))
<1> DEFINE d == Publish(c, data)
<1>1. Fine \in Metadata
  BY DEF Fine, Metadata
<1>2. CASE ~c.loaded
  <2>1. d = [c EXCEPT !.invalidated = @ \/ c.deferred]
    BY <1>2 DEF Publish
  <2> HIDE DEF d
  <2>2. d \in Query
    BY <2>1 DEF Query
  <2> QED  BY <1>2, <2>1, <2>2 DEF Query, Reads, d
<1>3. CASE c.loaded
  <2>1. d = [c EXCEPT !.data = data,
                      !.invalidated = (c.failed /\ c.invalidated) \/ c.deferred,
                      !.overtaken = c.read # "none",
                      !.revert = Fine]
    BY <1>3 DEF Publish
  <2> HIDE DEF d
  <2>2. d \in Query
    BY <1>1, <2>1 DEF Query
  <2> QED  BY <1>3, <2>1, <2>2 DEF Query, Reads, d
<1> QED  BY <1>2, <1>3

(* The patch of a mutation: one more edit in the ledger, and the replay of *)
(* the ledger is what is shown.                                            *)
LEMMA PatchRow ==
  ASSUME NEW c, Clean(c), NEW m \in Mutations
  PROVE  /\ Clean(Patch(c, m)) /\ Reads(c, Patch(c, m))
         /\ Patch(c, m).entries = Append(c.entries, [op |-> m, settled |-> FALSE])
         /\ Patch(c, m).baseline = IF c.entries = << >> THEN c.data ELSE c.baseline
         /\ Patch(c, m).loaded = c.loaded
         /\ Range(Patch(c, m).data) \subseteq Range(c.data) \cup {m}
<1> DEFINE e == [op |-> m, settled |-> FALSE]
           base == IF c.entries = << >> THEN c.data ELSE c.baseline
           owned == [c EXCEPT !.baseline = base, !.entries = Append(@, e)]
           data == IF c.loaded THEN ApplyPatch(c.data, m) ELSE << >>
           d == Patch(c, m)
<1>1. c \in Query /\ m \in Writes /\ e \in Entry
  BY DEF Clean, Entry, Writes
<1>2. c.data \in Seq(Writes) /\ c.entries \in Seq(Entry) /\ c.baseline \in Seq(Writes)
  BY <1>1 DEF Query
<1>3. base \in Seq(Writes) /\ Append(c.entries, e) \in Seq(Entry) /\ data \in Seq(Writes)
  BY <1>1, <1>2, PatchElements
<1>4. d = Publish(owned, data)
  BY DEF Patch
<1> HIDE DEF e, base, data, d
<1>5. /\ owned \in Query /\ owned.loaded = c.loaded /\ owned.data = c.data
      /\ owned.entries = Append(c.entries, e) /\ owned.baseline = base
      /\ owned.deferred = c.deferred /\ owned.overtaken = c.overtaken
      /\ Reads(c, owned)
  BY <1>1, <1>3 DEF Query, Reads
<1> HIDE DEF owned
<1>6. /\ d \in Query /\ d.loaded = c.loaded /\ d.data = IF c.loaded THEN data ELSE c.data
      /\ d.entries = Append(c.entries, e) /\ d.baseline = base /\ d.deferred = c.deferred
      /\ d.overtaken => c.loaded \/ c.overtaken
      /\ Reads(owned, d)
  BY <1>3, <1>4, <1>5, PublishRow
<1>7. Reads(c, d)
  BY <1>5, <1>6 DEF Reads
<1>8. Pending(d)
  <2>1. Len(c.entries) + 1 \in DOMAIN d.entries /\ d.entries[Len(c.entries) + 1] = e
    BY <1>2, <1>6
  <2> QED  BY <2>1 DEF Pending, e
<1>9. c.loaded => d.data = Replay(d.entries, d.baseline)
  <2> SUFFICES ASSUME c.loaded PROVE d.data = Replay(d.entries, d.baseline)
    OBVIOUS
  <2>1. Replay(d.entries, base) = ApplyPatch(Replay(c.entries, base), m)
    BY <1>1, <1>2, <1>3, <1>6, ReplayAppend DEF e
  <2>2. Replay(c.entries, base) = c.data
    BY <1>2, ReplayEmpty DEF Clean, base
  <2> QED  BY <1>6, <2>1, <2>2 DEF data
<1>10. ~d.loaded => d.data = << >> /\ ~d.overtaken
  BY <1>6 DEF Clean
<1>11. Clean(d)
  BY <1>6, <1>8, <1>9, <1>10 DEF Clean
<1>12. Range(d.data) \subseteq Range(c.data) \cup {m}
  BY <1>1, <1>2, <1>6, PatchElements DEF data
<1> QED  BY <1>6, <1>7, <1>11, <1>12 DEF d, e, base

(* A merge of a confirmed write.                                           *)
LEMMA PartialRow ==
  ASSUME NEW c, Clean(c), NEW m \in Mutations
  PROVE  /\ Clean(ApplyPartialQueryPatch(c, m)) /\ Reads(c, ApplyPartialQueryPatch(c, m))
         /\ \/ ApplyPartialQueryPatch(c, m).entries = c.entries
            \/ ApplyPartialQueryPatch(c, m).entries = Append(c.entries, [op |-> m, settled |-> TRUE])
         /\ ApplyPartialQueryPatch(c, m).baseline = c.baseline
         /\ Range(ApplyPartialQueryPatch(c, m).data) \subseteq Range(c.data) \cup {m}
<1> DEFINE e == [op |-> m, settled |-> TRUE]
           entries == IF c.entries = << >> THEN << >> ELSE Append(c.entries, e)
           owned == [c EXCEPT !.entries = entries]
           data == ApplyPatch(c.data, m)
           d == ApplyPartialQueryPatch(c, m)
<1>1. c \in Query /\ m \in Writes /\ e \in Entry
  BY DEF Clean, Entry, Writes
<1>2. c.data \in Seq(Writes) /\ c.entries \in Seq(Entry) /\ c.baseline \in Seq(Writes)
  BY <1>1 DEF Query
<1>3. /\ entries \in Seq(Entry) /\ data \in Seq(Writes)
      /\ Range(data) \subseteq Range(c.data) \cup {m}
  BY <1>1, <1>2, PatchElements
<1>4. CASE ~c.loaded
  <2>1. d = c
    BY <1>4 DEF ApplyPartialQueryPatch
  <2> QED  BY <2>1 DEF Reads
<1>5. CASE c.loaded
  <2>1. d = Publish(owned, data)
    BY <1>5 DEF ApplyPartialQueryPatch
  <2> HIDE DEF data, d, entries, e
  <2>2. /\ owned \in Query /\ owned.loaded = c.loaded /\ owned.data = c.data
        /\ owned.entries = entries /\ owned.baseline = c.baseline
        /\ owned.deferred = c.deferred /\ owned.overtaken = c.overtaken
        /\ Reads(c, owned)
    BY <1>1, <1>3 DEF Query, Reads
  <2> HIDE DEF owned
  <2>a. /\ d \in Query /\ d.loaded = owned.loaded
        /\ d.data = IF owned.loaded THEN data ELSE owned.data
        /\ d.entries = owned.entries /\ d.baseline = owned.baseline /\ d.deferred = owned.deferred
        /\ Reads(owned, d)
    BY <1>3, <2>1, <2>2, PublishRow
  <2>3. /\ d \in Query /\ d.loaded = TRUE /\ d.data = data /\ d.entries = entries
        /\ d.baseline = c.baseline /\ d.deferred = c.deferred
        /\ Reads(owned, d)
    <3>1. c.loaded = TRUE
      BY <1>1, <1>5 DEF Query
    <3> QED  BY <2>a, <2>2, <3>1
  <2>4. Reads(c, d)
    BY <2>2, <2>3 DEF Reads
  <2>5. Pending(c) => Pending(d)
    <3>1. ASSUME NEW i \in DOMAIN c.entries PROVE i \in DOMAIN d.entries /\ d.entries[i] = c.entries[i]
      <4>1. c.entries # << >>
        BY <1>2, <3>1
      <4> QED  BY <1>2, <2>3, <3>1, <4>1 DEF entries
    <3> QED  BY <3>1 DEF Pending
  <2>6. d.entries # << >> => d.data = Replay(d.entries, d.baseline)
    <3> SUFFICES ASSUME c.entries # << >> PROVE d.data = Replay(Append(c.entries, e), c.baseline)
      BY <2>3 DEF entries
    <3>1. Replay(Append(c.entries, e), c.baseline) = ApplyPatch(Replay(c.entries, c.baseline), e.op)
      BY <1>1, <1>2, ReplayAppend
    <3> QED  BY <1>5, <2>3, <3>1 DEF Clean, data, e
  <2>7. Clean(d)
    BY <2>3, <2>5, <2>6 DEF Clean, entries
  <2> QED  BY <1>3, <2>3, <2>4, <2>7 DEF entries, e, d
<1> QED  BY <1>4, <1>5

(* Without m, a ledger has the edits of the others and no new ones.        *)
LEMMA WithoutElements ==
  ASSUME NEW entries \in Seq(Entry), NEW m
  PROVE  /\ Without(entries, m) \in Seq(Entry)
         /\ Ops(Without(entries, m)) \subseteq Ops(entries) \ {m}
         /\ \A i \in DOMAIN Without(entries, m) : \E k \in DOMAIN entries :
              Without(entries, m)[i] = entries[k] /\ entries[k].op # m
<1> DEFINE rest == Without(entries, m)
<1>1. rest \in Seq(Entry) /\ Range(rest) \subseteq Range(entries) \cap {e \in Entry : e.op # m}
  BY KeptElements DEF Without
<1> HIDE DEF rest
<1>2. ASSUME NEW i \in DOMAIN rest
      PROVE  \E k \in DOMAIN entries : rest[i] = entries[k] /\ entries[k].op # m
  <2>1. rest[i] \in Range(entries) \cap {e \in Entry : e.op # m}
    BY <1>1 DEF Range
  <2> QED  BY <2>1 DEF Range
<1> QED  BY <1>1, <1>2 DEF rest, Ops

(* The end of an ownership: it comes with the last edit that settles.      *)
LEMMA ReleaseRow ==
  ASSUME NEW c \in Query,
         ~c.loaded => c.data = << >> /\ ~c.overtaken,
         c.entries # << >> /\ c.loaded => c.data = Replay(c.entries, c.baseline)
  PROVE  /\ Clean(ReleaseIfSettled(c)) /\ Reads(c, ReleaseIfSettled(c))
         /\ ReleaseIfSettled(c).data = c.data
         /\ \/ /\ ReleaseIfSettled(c).entries = c.entries
               /\ ReleaseIfSettled(c).baseline = c.baseline
            \/ /\ \A i \in DOMAIN c.entries : c.entries[i].settled
               /\ ReleaseIfSettled(c).entries = << >>
               /\ ReleaseIfSettled(c).baseline = << >>
<1> DEFINE r == Released(c)
           d == ReleaseIfSettled(c)
<1>1. CASE Pending(c)
  <2>1. d = c
    BY <1>1 DEF ReleaseIfSettled
  <2> QED  BY <1>1, <2>1 DEF Clean, Reads
<1>2. CASE ~Pending(c)
  <2>1. d = IF c.deferred THEN Refetched(r) ELSE r
    BY <1>2 DEF ReleaseIfSettled, Reconciled
  <2>2. /\ r \in Query /\ r.loaded = c.loaded /\ r.data = c.data /\ r.entries = << >>
        /\ r.baseline = << >> /\ ~r.deferred /\ r.overtaken = c.overtaken
        /\ Reads(c, r)
    <3>1. << >> \in Seq(Writes) /\ << >> \in Seq(Entry)
      OBVIOUS
    <3>2. r \in Query
      BY <3>1 DEF Released, Query
    <3> QED  BY <3>2 DEF Released, Query, Reads
  <2> HIDE DEF r
  <2>3. Clean(r)
    BY <2>2 DEF Clean
  <2>4. Clean(Refetched(r)) /\ Holds(r, Refetched(r)) /\ Reads(r, Refetched(r))
    BY <2>3, RefetchedRow
  <2>5. \A i \in DOMAIN c.entries : c.entries[i].settled
    BY <1>2 DEF Pending
  <2> HIDE DEF d
  <2>6. Clean(d) /\ Reads(c, d) /\ d.data = c.data /\ d.entries = << >> /\ d.baseline = << >>
    BY <2>1, <2>2, <2>3, <2>4 DEF Holds, Reads
  <2> QED  BY <2>5, <2>6 DEF d
<1> QED  BY <1>1, <1>2

(* A rollback: the edits of m are gone from the ledger, and what is shown  *)
(* is the baseline with those of the others; or the ledger is released,    *)
(* when they have all settled.                                             *)
LEMMA RollbackRow ==
  ASSUME NEW c, Clean(c), NEW m \in Mutations
  PROVE  /\ Clean(Rollback(c, m)) /\ Reads(c, Rollback(c, m))
         /\ ~Owns(c, m) => Rollback(c, m) = c
         /\ Owns(c, m) =>
              /\ Range(Rollback(c, m).data) \subseteq Range(c.baseline) \cup Ops(Without(c.entries, m))
              /\ \/ /\ Rollback(c, m).entries = Without(c.entries, m)
                    /\ Rollback(c, m).baseline = c.baseline
                 \/ /\ \A i \in DOMAIN Without(c.entries, m) : Without(c.entries, m)[i].settled
                    /\ Rollback(c, m).entries = << >>
                    /\ Rollback(c, m).baseline = << >>
<1> DEFINE rest == Without(c.entries, m)
           left == [c EXCEPT !.entries = rest]
           data == IF c.loaded THEN Replay(rest, c.baseline) ELSE << >>
           p == Publish(left, data)
           d == Rollback(c, m)
<1>1. CASE ~Owns(c, m)
  <2>1. d = c
    BY <1>1 DEF Rollback
  <2> QED  BY <1>1, <2>1 DEF Reads
<1>2. CASE Owns(c, m)
  <2>1. d = ReleaseIfSettled(p)
    BY <1>2 DEF Rollback
  <2>2. c \in Query /\ c.entries \in Seq(Entry) /\ c.baseline \in Seq(Writes)
    BY DEF Clean, Query
  <2>3. rest \in Seq(Entry)
    BY <2>2, WithoutElements
  <2>4. data \in Seq(Writes) /\ (c.loaded => Range(data) \subseteq Range(c.baseline) \cup Ops(rest))
    <3>1. << >> \in Seq(Writes)
      OBVIOUS
    <3> QED  BY <2>2, <2>3, <3>1, ReplayElements
  <2> DEFINE shown == IF c.loaded THEN data ELSE << >>
  <2>5. shown = data
    OBVIOUS
  <2>6. c.loaded => data = Replay(rest, c.baseline)
    OBVIOUS
  <2>7. ~c.loaded => data = << >>
    OBVIOUS
  <2> HIDE DEF rest, data, d
  <2>8. /\ left \in Query /\ left.loaded = c.loaded /\ left.data = c.data
        /\ left.entries = rest /\ left.baseline = c.baseline
        /\ left.overtaken = c.overtaken /\ Reads(c, left)
    BY <2>2, <2>3 DEF Query, Reads
  <2> HIDE DEF left
  <2>9. /\ p \in Query /\ p.loaded = left.loaded /\ p.data = IF left.loaded THEN data ELSE left.data
        /\ p.entries = left.entries /\ p.baseline = left.baseline
        /\ p.overtaken => left.loaded \/ left.overtaken
        /\ Reads(left, p)
    BY <2>4, <2>8, PublishRow
  <2> HIDE DEF p
  <2>10. ~c.loaded => c.data = << >> /\ ~c.overtaken
    BY DEF Clean
  <2>11. /\ p \in Query /\ p.loaded = c.loaded /\ p.data = data
         /\ p.entries = rest /\ p.baseline = c.baseline
         /\ p.overtaken => c.loaded
         /\ Reads(c, p)
    BY <2>7, <2>8, <2>9, <2>10 DEF Reads
  <2>12. /\ Clean(d) /\ Reads(p, d) /\ d.data = p.data
         /\ \/ /\ d.entries = p.entries
               /\ d.baseline = p.baseline
            \/ /\ \A i \in DOMAIN p.entries : p.entries[i].settled
               /\ d.entries = << >>
               /\ d.baseline = << >>
    <3>1. ~p.loaded => p.data = << >> /\ ~p.overtaken
      BY <2>7, <2>11
    <3>2. p.entries # << >> /\ p.loaded => p.data = Replay(p.entries, p.baseline)
      BY <2>6, <2>11
    <3> QED  BY <2>1, <2>11, <3>1, <3>2, ReleaseRow
  <2>13. Reads(c, d)
    BY <2>11, <2>12 DEF Reads
  <2>14. Range(d.data) \subseteq Range(c.baseline) \cup Ops(rest)
    <3>1. Range(<< >>) = {}
      BY DEF Range
    <3> QED  BY <2>4, <2>7, <2>11, <2>12, <3>1
  <2> QED  BY <1>2, <2>11, <2>12, <2>13, <2>14 DEF rest, d
<1> QED  BY <1>1, <1>2

(* The edits of a mutation are confirmed: the ledger shows the same.       *)
LEMMA SettleRow ==
  ASSUME NEW c, Clean(c), NEW m \in Mutations
  PROVE  /\ Clean(Settle(c, m)) /\ Reads(c, Settle(c, m))
         /\ ~Owns(c, m) => Settle(c, m) = c
         /\ Settle(c, m).data = c.data
         /\ \/ /\ Settle(c, m).baseline = c.baseline
               /\ Len(Settle(c, m).entries) = Len(c.entries)
               /\ \A i \in DOMAIN c.entries :
                    /\ Settle(c, m).entries[i].op = c.entries[i].op
                    /\ Settle(c, m).entries[i].settled = (c.entries[i].settled \/ c.entries[i].op = m)
            \/ /\ \A i \in DOMAIN c.entries : c.entries[i].settled \/ c.entries[i].op = m
               /\ Settle(c, m).baseline = << >>
               /\ Settle(c, m).entries = << >>
<1> DEFINE entries == [i \in DOMAIN c.entries |->
                         IF c.entries[i].op = m THEN [c.entries[i] EXCEPT !.settled = TRUE]
                         ELSE c.entries[i]]
           s == [c EXCEPT !.entries = entries]
           d == Settle(c, m)
<1>1. c \in Query /\ c.entries \in Seq(Entry) /\ c.baseline \in Seq(Writes)
  BY DEF Clean, Query
<1>2. CASE ~Owns(c, m)
  <2>1. d = c
    BY <1>2 DEF Settle
  <2>2. ASSUME NEW i \in DOMAIN c.entries
        PROVE  c.entries[i].op # m /\ c.entries[i].settled \in BOOLEAN
    <3>1. c.entries[i] \in Entry
      BY <1>1
    <3> QED  BY <1>2, <3>1 DEF Owns, Entry
  <2> QED  BY <1>2, <2>1, <2>2 DEF Reads
<1>3. CASE Owns(c, m)
  <2>1. d = ReleaseIfSettled(s)
    BY <1>3 DEF Settle
  <2>2. ASSUME NEW i \in DOMAIN c.entries
        PROVE  /\ entries[i] \in Entry /\ entries[i].op = c.entries[i].op
               /\ entries[i].settled = (c.entries[i].settled \/ c.entries[i].op = m)
    <3>1. c.entries[i] \in Entry
      BY <1>1
    <3> QED  BY <3>1 DEF Entry
  <2>3. entries \in Seq(Entry) /\ Len(entries) = Len(c.entries) /\ DOMAIN entries = DOMAIN c.entries
    <3>1. DOMAIN c.entries = 1..Len(c.entries) /\ Len(c.entries) \in Nat
      BY <1>1
    <3>2. entries \in [1..Len(c.entries) -> Entry]
      BY <2>2, <3>1
    <3> QED  BY <3>1, <3>2
  <2> HIDE DEF entries, d
  <2>4. /\ s \in Query /\ s.loaded = c.loaded /\ s.data = c.data
        /\ s.entries = entries /\ s.baseline = c.baseline
        /\ s.overtaken = c.overtaken /\ Reads(c, s)
    BY <1>1, <2>3 DEF Query, Reads
  <2> HIDE DEF s
  <2>5. s.entries # << >> /\ s.loaded => s.data = Replay(s.entries, s.baseline)
    <3>1. Replay(entries, c.baseline) = Replay(c.entries, c.baseline)
      BY <1>1, <2>2, <2>3, ReplayOps
    <3>2. entries # << >> => c.entries # << >>
      BY <1>1, <2>3
    <3> QED  BY <2>4, <3>1, <3>2 DEF Clean
  <2>6. /\ Clean(d) /\ Reads(s, d) /\ d.data = s.data
        /\ \/ /\ d.entries = s.entries
              /\ d.baseline = s.baseline
           \/ /\ \A i \in DOMAIN s.entries : s.entries[i].settled
              /\ d.entries = << >>
              /\ d.baseline = << >>
    <3>1. ~s.loaded => s.data = << >> /\ ~s.overtaken
      BY <2>4 DEF Clean
    <3> QED  BY <2>1, <2>4, <2>5, <3>1, ReleaseRow
  <2>7. Reads(c, d) /\ d.data = c.data
    BY <2>4, <2>6 DEF Reads
  <2>8. CASE d.entries = s.entries /\ d.baseline = s.baseline
    BY <1>3, <2>2, <2>3, <2>4, <2>6, <2>7, <2>8 DEF d
  <2>9. CASE /\ \A i \in DOMAIN s.entries : s.entries[i].settled
             /\ d.entries = << >>
             /\ d.baseline = << >>
    BY <1>3, <2>2, <2>3, <2>4, <2>6, <2>7, <2>9 DEF d
  <2> QED  BY <2>6, <2>8, <2>9
<1> QED  BY <1>2, <1>3

(* A read that succeeds: either it changes nothing, because what was       *)
(* published since it began stays, or it takes the query over.             *)
LEMMA CommitRow ==
  ASSUME NEW c, Clean(c), NEW fenced \in BOOLEAN
  PROVE  /\ Clean(CommitRead(c, fenced))
         /\ CommitRead(c, fenced).observed = c.observed
         /\ CommitRead(c, fenced).sample = << >> /\ ~CommitRead(c, fenced).overtaken
         /\ CommitRead(c, fenced).read # "answered"
         /\ c.again => CommitRead(c, fenced).invalidated
         /\ \/ /\ c.overtaken
               /\ CommitRead(c, fenced).data = c.data
               /\ CommitRead(c, fenced).entries = c.entries
               /\ CommitRead(c, fenced).baseline = c.baseline
            \/ /\ CommitRead(c, fenced).data = c.sample
               /\ CommitRead(c, fenced).entries = << >>
               /\ CommitRead(c, fenced).baseline = << >>
<1> DEFINE ended == EndedRead(c)
           same == [ended EXCEPT !.invalidated = c.failed /\ c.invalidated]
           taken == [ended EXCEPT !.loaded = TRUE, !.data = c.sample, !.failed = FALSE,
                                  !.invalidated = FALSE, !.snapshots = {}]
           free == Released(taken)
           d == CommitRead(c, fenced)
<1>1. /\ c \in Query /\ Clean(ended) /\ Holds(c, ended) /\ Reads(c, ended)
      /\ ended.read = "none" /\ ended.sample = << >> /\ ~ended.overtaken
  BY EndedReadRow DEF Clean
<1>2. ended \in Query /\ ended.observed = c.observed
  BY <1>1 DEF Clean, Reads
<1>3. d = AfterRead(c, IF fenced /\ c.overtaken /\ c.loaded THEN same ELSE free)
  BY DEF CommitRead
<1> HIDE DEF ended, d
<1>4. /\ Clean(same) /\ same.observed = c.observed /\ same.read = "none" /\ same.sample = << >>
      /\ ~same.overtaken /\ same.data = c.data /\ same.entries = c.entries /\ same.baseline = c.baseline
  <2>1. /\ same \in Query /\ Holds(ended, same) /\ same.deferred = ended.deferred
        /\ same.observed = c.observed /\ same.read = "none" /\ same.sample = << >> /\ ~same.overtaken
    BY <1>1, <1>2 DEF Query, Holds
  <2> HIDE DEF same
  <2> QED  BY <1>1, <2>1, MarkedRow DEF Holds
<1>5. /\ Clean(free) /\ free.observed = c.observed /\ free.read = "none" /\ free.sample = << >>
      /\ ~free.overtaken /\ free.data = c.sample /\ free.entries = << >> /\ free.baseline = << >>
  <2>1. /\ taken \in Query /\ taken.loaded = TRUE /\ taken.observed = c.observed /\ taken.read = "none"
        /\ taken.sample = << >> /\ ~taken.overtaken /\ taken.data = c.sample
    BY <1>1, <1>2 DEF Query
  <2> HIDE DEF taken
  <2>2. << >> \in Seq(Writes) /\ << >> \in Seq(Entry)
    OBVIOUS
  <2>3. free \in Query
    BY <2>1, <2>2 DEF Released, Query
  <2>4. /\ free.loaded = TRUE /\ free.observed = c.observed /\ free.read = "none" /\ free.sample = << >>
        /\ ~free.overtaken /\ free.data = c.sample /\ free.entries = << >> /\ free.baseline = << >>
        /\ ~free.deferred
    BY <2>1 DEF Released, Query
  <2> HIDE DEF free
  <2> QED  BY <2>3, <2>4 DEF Clean
<1> HIDE DEF same, free
<1>6. ASSUME NEW x, Clean(x), x.observed = c.observed, x.read = "none", x.sample = << >>, ~x.overtaken,
             d = AfterRead(c, x)
      PROVE  /\ Clean(d) /\ d.observed = c.observed /\ d.sample = << >> /\ ~d.overtaken
             /\ d.read # "answered" /\ (c.again => d.invalidated)
             /\ d.data = x.data /\ d.entries = x.entries /\ d.baseline = x.baseline
  <2>1. Clean(d) /\ Holds(x, d) /\ Reads(x, d) /\ (c.again => d.invalidated)
    BY <1>6, AfterReadRow
  <2> QED  BY <1>6, <2>1 DEF Holds, Reads
<1>7. CASE fenced /\ c.overtaken /\ c.loaded
  BY <1>3, <1>4, <1>6, <1>7 DEF d
<1>8. CASE ~(fenced /\ c.overtaken /\ c.loaded)
  BY <1>3, <1>5, <1>6, <1>8 DEF d
<1> QED  BY <1>7, <1>8

-------------------------------------------------------------------------------
(* What the steps do to what is known of one query.                        *)
SameRow(c, d) ==
  /\ d.loaded = c.loaded /\ d.data = c.data /\ d.entries = c.entries /\ d.baseline = c.baseline
  /\ d.overtaken = c.overtaken /\ d.observed = c.observed /\ d.read = c.read
  /\ d.sample = c.sample /\ d.again = c.again /\ d.invalidated = c.invalidated

(* The snapshots of a query are no part of what it shows.                  *)
LEMMA SnapshotRow ==
  ASSUME NEW c, Clean(c), NEW S \in SUBSET Mutations
  PROVE  Clean([c EXCEPT !.snapshots = S]) /\ SameRow(c, [c EXCEPT !.snapshots = S])
<1> DEFINE d == [c EXCEPT !.snapshots = S]
<1>1. c \in Query
  BY DEF Clean
<1>2. d \in Query /\ SameRow(c, d) /\ d.deferred = c.deferred
  BY <1>1 DEF Query, SameRow
<1> HIDE DEF d
<1>3. Holds(c, d)
  BY <1>2 DEF SameRow, Holds
<1>4. Clean(d)
  BY <1>2, <1>3, MarkedRow
<1> QED  BY <1>2, <1>4 DEF d

(* The edits of a ledger are of mutations.                                 *)
LEMMA EntryOf ==
  ASSUME NEW c, Clean(c), NEW i \in DOMAIN c.entries
  PROVE  /\ c.entries[i] \in Entry /\ c.entries[i].op \in Mutations
         /\ c.entries[i].settled \in BOOLEAN
<1>1. c.entries \in Seq(Entry)
  BY DEF Clean, Query
<1>2. c.entries[i] \in Entry
  BY <1>1
<1> QED  BY <1>2 DEF Entry

(* A query whose mutation is running needs no other explanation.           *)
LEMMA WatchAttended ==
  ASSUME NEW q \in Queries, QueryInv(q), cache'[q].observed = cache[q].observed, Attended(q)'
  PROVE  WatchInv(q)'
  BY DEF QueryInv, WatchInv, Explained, Attended, Running

(* A query that a step leaves alone is explained as before, as long as no  *)
(* event that concerns it is taken away unheard.                           *)
LEMMA WatchSame ==
  ASSUME NEW q \in Queries, QueryInv(q), SameRow(cache[q], cache'[q]), UNCHANGED server,
         \A w \in events : q \in Affects[w] => w \in events',
         Attended(q) => Attended(q)'
  PROVE  WatchInv(q)'
<1>1. Canonical(q)' = Canonical(q)
  BY DEF Canonical
<1>2. Explained(q) => Explained(q)'
  BY <1>1 DEF Explained, SameRow, Attended
<1> QED  BY <1>1, <1>2 DEF QueryInv, WatchInv, SameRow

(* Whatever hears of the write that changed it is marked.                  *)
LEMMA WatchInvalidated ==
  ASSUME NEW q \in Queries, NEW c, Clean(c), (q \in Watched => c.observed),
         cache'[q] = Invalidate(c), EntriesInv(q)'
  PROVE  WatchInv(q)'
<1> DEFINE d == Invalidate(c)
<1>1. /\ Clean(d) /\ Holds(c, d) /\ Reads(c, d) /\ d.invalidated
      /\ c.observed => (d.read = "answered" => d.again \/ Pending(c)) /\ (d.overtaken => Pending(c))
  BY InvalidateRow
<1>2. Pending(c) => Attended(q)'
  <2> SUFFICES ASSUME NEW i \in DOMAIN c.entries, ~c.entries[i].settled PROVE Attended(q)'
    BY DEF Pending
  <2>1. c.entries[i].op \in Mutations
    BY EntryOf
  <2>2. Entitled(q, c.entries[i])'
    <3>1. c.entries[i] \in Range(cache'[q].entries)
      BY <1>1 DEF Holds, Range
    <3> QED  BY <3>1 DEF EntriesInv
  <2> QED  BY <2>1, <2>2 DEF Entitled, Attended, Running
<1> HIDE DEF d
<1>3. cache'[q] = d
  BY DEF d
<1>4. Explained(q)'
  BY <1>1, <1>3 DEF Explained
<1> QED  BY <1>1, <1>2, <1>3, <1>4 DEF WatchInv, Reads

(* A ledger that is released or keeps some of its edits.                   *)
LEMMA EntriesKept ==
  ASSUME NEW q \in Queries, QueryInv(q),
         Range(cache'[q].entries) \subseteq Range(cache[q].entries),
         \A e \in Range(cache'[q].entries) : Entitled(q, e) => Entitled(q, e)'
  PROVE  EntriesInv(q)'
BY DEF QueryInv, EntriesInv

(* What a query shows may only grow with the server.                       *)
LEMMA TraceSame ==
  ASSUME NEW q \in Queries, QueryInv(q), Range(server) \subseteq Range(server'),
         cache'[q].data = cache[q].data, cache'[q].entries = cache[q].entries,
         cache'[q].baseline = cache[q].baseline,
         Range(cache'[q].sample) \subseteq Range(cache[q].sample) \cup Range(server)
  PROVE  TraceInv(q)'
BY DEF QueryInv, TraceInv

(* A step that leaves a query alone.                                       *)
LEMMA QuerySame ==
  ASSUME NEW q \in Queries, QueryInv(q), Clean(cache'[q]), SameRow(cache[q], cache'[q]),
         UNCHANGED server, \A w \in events : q \in Affects[w] => w \in events',
         Attended(q) => Attended(q)',
         \A e \in Range(cache[q].entries) : Entitled(q, e) => Entitled(q, e)'
  PROVE  QueryInv(q)'
<1>1. WatchInv(q)'
  BY WatchSame
<1>2. EntriesInv(q)'
  BY EntriesKept DEF SameRow
<1>3. TraceInv(q)'
  BY TraceSame DEF SameRow
<1>4. Clean(cache[q])'
  OBVIOUS
<1> QED  BY <1>1, <1>2, <1>3, <1>4 DEF QueryInv

(* What concerns a read is as it was, or the read is over.                 *)
LEMMA WatchRead ==
  ASSUME NEW q \in Queries, QueryInv(q), Holds(cache[q], cache'[q]), Reads(cache[q], cache'[q]),
         UNCHANGED <<server, events, stage>>, Explained(q)'
  PROVE  WatchInv(q)'
<1>1. Canonical(q)' = Canonical(q) /\ Attended(q)' = Attended(q)
  BY DEF Canonical, Attended, Running
<1> QED  BY <1>1 DEF QueryInv, WatchInv, Holds, Reads

(* The content of a query at the server is of committed writes.            *)
LEMMA CanonicalShown ==
  ASSUME NEW q \in Queries, server \in Seq(Writes)
  PROVE  Canonical(q) \in Seq(Writes) /\ Range(Canonical(q)) \subseteq Range(server)
BY KeptElements DEF Canonical

-------------------------------------------------------------------------------
(* The steps of the page.                                                  *)
LEMMA OneQuery ==
  ASSUME IInv, NEW q \in Queries, NEW d, cache' = [cache EXCEPT ![q] = d], Clean(d),
         UNCHANGED <<server, events, stage, request>>,
         \/ d.data = cache[q].data /\ d.entries = cache[q].entries /\ d.baseline = cache[q].baseline
         \/ /\ Range(d.data) \subseteq Range(cache[q].sample)
            /\ d.entries = << >> /\ d.baseline = << >>,
         Range(d.sample) \subseteq Range(cache[q].sample) \cup Range(server),
         WatchInv(q)'
  PROVE  IInv'
<1>1. RequestInv'
  BY DEF IInv, RequestInv
<1>2. cache'[q] = d /\ d \in Query /\ cache' \in [Queries -> Query]
  BY DEF IInv, Clean
<1>3. \A e : \A r \in Queries : Entitled(r, e)' = Entitled(r, e)
  BY DEF Entitled
<1>4. QueryInv(q)'
  <2>1. Range(<< >>) = {}
    BY DEF Range
  <2>2. EntriesInv(q)'
    <3>1. Range(d.entries) \subseteq Range(cache[q].entries)
      BY <2>1
    <3> QED  BY <1>2, <1>3, <3>1, EntriesKept DEF IInv
  <2>3. TraceInv(q)'
    BY <1>2, <2>1 DEF IInv, QueryInv, TraceInv
  <2>4. Clean(cache[q])'
    BY <1>2
  <2> QED  BY <2>2, <2>3, <2>4 DEF QueryInv
<1>5. ASSUME NEW r \in Queries, r # q PROVE QueryInv(r)'
  <2>1. cache'[r] = cache[r]
    BY <1>5 DEF IInv
  <2>2. Attended(r)' = Attended(r)
    BY DEF Attended, Running
  <2>3. Clean(cache'[r]) /\ SameRow(cache[r], cache'[r])
    BY <2>1 DEF IInv, QueryInv, SameRow
  <2> QED  BY <1>3, <2>2, <2>3, QuerySame DEF IInv
<1> QED  BY <1>1, <1>2, <1>4, <1>5 DEF IInv

(* What every query is known to be.                                        *)
LEMMA Known ==
  ASSUME IInv, NEW q \in Queries
  PROVE  /\ QueryInv(q) /\ Clean(cache[q]) /\ EntriesInv(q) /\ TraceInv(q) /\ WatchInv(q)
         /\ cache[q] \in Query /\ cache[q].entries \in Seq(Entry)
BY DEF IInv, QueryInv, Clean, Query

(* The start of a read preserves the invariant.                            *)
LEMMA StartReadInv == ASSUME IInv, NEW q \in Queries, StartRead(q) PROVE IInv'
<1> DEFINE d == StartedRead(cache[q])
<1>1. /\ Clean(d) /\ Holds(cache[q], d) /\ Reads(cache[q], d) /\ d.read = "started"
  BY Known, StartedReadRow
<1>2. cache' = [cache EXCEPT ![q] = d] /\ cache'[q] = d /\ UNCHANGED <<server, events, stage, request>>
  BY DEF StartRead, IInv
<1> HIDE DEF d
<1>3. Explained(q)'
  BY <1>1, <1>2 DEF Explained
<1>4. WatchInv(q)'
  BY <1>1, <1>2, <1>3, Known, WatchRead
<1>5. Range(d.sample) \subseteq Range(cache[q].sample)
  BY <1>1 DEF Reads, Range
<1> QED  BY <1>1, <1>2, <1>4, <1>5, OneQuery DEF Holds

(* The answer of a read preserves the invariant: it is the content at the  *)
(* server.                                                                 *)
LEMMA AnswerReadInv == ASSUME IInv, NEW q \in Queries, AnswerRead(q) PROVE IInv'
<1> DEFINE c == cache[q]
           d == [c EXCEPT !.read = "answered", !.sample = Canonical(q)]
<1>1. cache' = [cache EXCEPT ![q] = d] /\ cache'[q] = d /\ UNCHANGED <<server, events, stage, request>>
      /\ c.read = "started"
  BY DEF AnswerRead, IInv
<1>2. Canonical(q) \in Seq(Writes) /\ Range(Canonical(q)) \subseteq Range(server)
  BY CanonicalShown DEF IInv, RequestInv
<1>3. c \in Query /\ Clean(c) /\ WatchInv(q)
  BY Known
<1>4. /\ d \in Query /\ Holds(c, d) /\ d.deferred = c.deferred /\ d.read = "answered"
      /\ d.sample = Canonical(q) /\ d.observed = c.observed
  BY <1>2, <1>3 DEF Query, Holds
<1> HIDE DEF d
<1>5. Clean(d)
  BY <1>3, <1>4, MarkedRow
<1>6. Canonical(q)' = Canonical(q) /\ Attended(q)' = Attended(q)
  BY <1>1 DEF Canonical, Attended, Running
<1>7. Explained(q)'
  BY <1>1, <1>4 DEF Explained
<1>8. WatchInv(q)'
  BY <1>1, <1>3, <1>4, <1>6, <1>7 DEF WatchInv, Holds
<1> QED  BY <1>1, <1>2, <1>4, <1>5, <1>8, OneQuery DEF Holds

(* A successful read preserves the invariant: what it leaves is the        *)
(* content at the server, or an explanation of the difference was there    *)
(* before.                                                                 *)
LEMMA ReadSucceedsInv == ASSUME IInv, NEW q \in Queries, ReadSucceeds(q) PROVE IInv'
<1> DEFINE c == cache[q]
           d == CommitRead(c, q \in Fenced)
<1>1. cache' = [cache EXCEPT ![q] = d] /\ cache'[q] = d /\ UNCHANGED <<server, events, stage, request>>
      /\ c.read = "answered"
  BY DEF ReadSucceeds, IInv
<1>2. /\ Clean(d) /\ d.observed = c.observed /\ d.sample = << >> /\ ~d.overtaken
      /\ d.read # "answered" /\ (c.again => d.invalidated)
      /\ \/ /\ c.overtaken /\ d.data = c.data /\ d.entries = c.entries /\ d.baseline = c.baseline
         \/ d.data = c.sample /\ d.entries = << >> /\ d.baseline = << >>
  <2> DEFINE fenced == q \in Fenced
  <2>1. Clean(c) /\ fenced \in BOOLEAN
    BY Known
  <2> HIDE DEF fenced
  <2>2. \A f \in BOOLEAN :
          /\ Clean(CommitRead(c, f)) /\ CommitRead(c, f).observed = c.observed
          /\ CommitRead(c, f).sample = << >> /\ ~CommitRead(c, f).overtaken
          /\ CommitRead(c, f).read # "answered" /\ (c.again => CommitRead(c, f).invalidated)
          /\ \/ /\ c.overtaken /\ CommitRead(c, f).data = c.data
                /\ CommitRead(c, f).entries = c.entries /\ CommitRead(c, f).baseline = c.baseline
             \/ /\ CommitRead(c, f).data = c.sample
                /\ CommitRead(c, f).entries = << >> /\ CommitRead(c, f).baseline = << >>
    BY <2>1, CommitRow
  <2>3. d = CommitRead(c, fenced)
    BY DEF fenced
  <2> HIDE DEF d, c
  <2> QED  BY <2>1, <2>2, <2>3
<1> HIDE DEF d
<1>3. Canonical(q)' = Canonical(q) /\ Attended(q)' = Attended(q)
  BY <1>1 DEF Canonical, Attended, Running
<1>4. WatchInv(q)'
  <2> SUFFICES ASSUME q \in Watched PROVE c.observed /\ Explained(q)'
    BY <1>1, <1>2 DEF WatchInv
  <2>1. /\ c.observed /\ (c.overtaken => Attended(q))
        /\ \/ c.sample = Canonical(q) \/ c.again \/ Attended(q)
           \/ \E w \in events : q \in Affects[w]
    BY <1>1, Known DEF WatchInv
  <2> QED  BY <1>1, <1>2, <1>3, <2>1 DEF Explained, Attended
<1>5. Range(d.sample) = {}
  BY <1>2 DEF Range
<1> QED  BY <1>1, <1>2, <1>4, <1>5, OneQuery

(* A failed read preserves the invariant.                                  *)
LEMMA ReadFailsInv == ASSUME IInv, NEW q \in Queries, ReadFails(q) PROVE IInv'
<1> DEFINE d == FailRead(cache[q])
<1>1. Clean(d) /\ Holds(cache[q], d) /\ Reads(cache[q], d) /\ d.invalidated
  BY Known, FailReadRow
<1>2. cache' = [cache EXCEPT ![q] = d] /\ cache'[q] = d /\ UNCHANGED <<server, events, stage, request>>
  BY DEF ReadFails, IInv
<1> HIDE DEF d
<1>3. Explained(q)'
  BY <1>1, <1>2 DEF Explained
<1>4. WatchInv(q)'
  BY <1>1, <1>2, <1>3, Known, WatchRead
<1>5. Range(d.sample) \subseteq Range(cache[q].sample)
  BY <1>1 DEF Reads, Range
<1> QED  BY <1>1, <1>2, <1>4, <1>5, OneQuery DEF Holds

(* A component that comes preserves the invariant.                         *)
LEMMA MountInv == ASSUME IInv, NEW q \in Queries, Mount(q) PROVE IInv'
<1> DEFINE c == cache[q]
           seen == [c EXCEPT !.observed = TRUE]
           d == IF seen.read = "none" /\ (~seen.loaded \/ seen.invalidated)
                THEN StartedRead(seen) ELSE seen
<1>1. /\ cache' = [cache EXCEPT ![q] = d] /\ cache'[q] = d
      /\ UNCHANGED <<server, events, stage, request>> /\ ~c.observed
  BY DEF Mount, IInv
<1>2. c \in Query /\ Clean(c) /\ WatchInv(q)
  BY Known
<1>3. seen \in Query /\ Holds(c, seen) /\ seen.deferred = c.deferred /\ seen.sample = c.sample
  BY <1>2 DEF Query, Holds
<1> HIDE DEF seen
<1>4. Clean(seen)
  BY <1>2, <1>3, MarkedRow
<1>5. Clean(StartedRead(seen)) /\ Holds(seen, StartedRead(seen)) /\ Reads(seen, StartedRead(seen))
  BY <1>4, StartedReadRow
<1>6. Clean(d) /\ Holds(seen, d) /\ d.sample \in {c.sample, << >>}
  BY <1>3, <1>4, <1>5 DEF Holds, Reads
<1> HIDE DEF d
<1>7. WatchInv(q)'
  BY <1>1, <1>2 DEF WatchInv
<1>8. Range(d.sample) \subseteq Range(c.sample)
  BY <1>6 DEF Range
<1> QED  BY <1>1, <1>3, <1>6, <1>7, <1>8, OneQuery DEF Holds

(* A component that goes preserves the invariant: a watched query keeps    *)
(* one.                                                                    *)
LEMMA UnmountInv == ASSUME IInv, NEW q \in Queries, Unmount(q) PROVE IInv'
<1> DEFINE c == cache[q]
           d == [c EXCEPT !.observed = FALSE]
<1>1. /\ cache' = [cache EXCEPT ![q] = d] /\ cache'[q] = d
      /\ UNCHANGED <<server, events, stage, request>> /\ q \notin Watched
  BY DEF Unmount, IInv
<1>2. c \in Query /\ Clean(c)
  BY Known
<1>3. d \in Query /\ Holds(c, d) /\ d.deferred = c.deferred /\ d.sample = c.sample
  BY <1>2 DEF Query, Holds
<1> HIDE DEF d
<1>4. Clean(d)
  BY <1>2, <1>3, MarkedRow
<1>5. WatchInv(q)'
  BY <1>1 DEF WatchInv
<1> QED  BY <1>1, <1>3, <1>4, <1>5, OneQuery DEF Holds

(* A query that is not in the cache shows and owns nothing.                *)
LEMMA CleanBlank ==
  /\ Clean(Blank) /\ Blank.data = << >> /\ Blank.entries = << >> /\ Blank.baseline = << >>
  /\ Blank.sample = << >>
<1>1. << >> \in Seq(Writes) /\ << >> \in Seq(Entry) /\ Fine \in Metadata
  BY DEF Fine, Metadata
<1>2. Blank \in Query
  BY <1>1 DEF Blank, Query
<1> QED  BY <1>2 DEF Clean, Blank

(* The removal of an unobserved query preserves the invariant.             *)
LEMMA RemovedInv == ASSUME IInv, NEW q \in Queries, Removed(q) PROVE IInv'
<1>1. /\ cache' = [cache EXCEPT ![q] = Blank] /\ UNCHANGED <<server, events, stage, request>>
      /\ ~cache[q].observed
  BY DEF Removed
<1>2. q \notin Watched
  BY <1>1, Known DEF WatchInv
<1>3. WatchInv(q)'
  BY <1>1, <1>2 DEF WatchInv
<1>4. Range(Blank.data) = {} /\ Range(Blank.sample) = {}
  BY CleanBlank DEF Range
<1> QED  BY <1>1, <1>3, <1>4, CleanBlank, OneQuery

-------------------------------------------------------------------------------
(* The steps of a mutation.                                                *)
LEMMA Assemble ==
  ASSUME RequestInv', cache' = [q \in Queries |-> cache'[q]], \A q \in Queries : QueryInv(q)'
  PROVE  IInv'
<1>1. \A q \in Queries : cache'[q] \in Query
  BY DEF QueryInv, Clean
<1> QED  BY <1>1 DEF IInv

(* A query in the settle of a running mutation.                            *)
LEMMA QueryAttended ==
  ASSUME NEW q \in Queries, QueryInv(q), Clean(cache'[q]), Attended(q)',
         cache'[q].observed = cache[q].observed, EntriesInv(q)', TraceInv(q)'
  PROVE  QueryInv(q)'
<1>1. WatchInv(q)'
  BY WatchAttended
<1>2. Clean(cache[q])'
  OBVIOUS
<1> QED  BY <1>1, <1>2 DEF QueryInv

(* While a mutation moves on without ending, what it settles is attended.  *)
LEMMA StageAttended ==
  ASSUME NEW m \in Mutations, RequestInv, NEW x \in {"starting", "sent", "succeeded", "failed"},
         stage' = [stage EXCEPT ![m] = x], NEW q
  PROVE  (Attended(q) => Attended(q)') /\ (q \in Settles[m] => Attended(q)')
<1>1. stage'[m] = x /\ \A n \in Mutations : n # m => stage'[n] = stage[n]
  BY DEF RequestInv
<1> QED  BY <1>1 DEF Attended, Running

(* What an edit is entitled to is a matter of its own mutation.            *)
LEMMA EntitledOther ==
  ASSUME NEW m, NEW q, NEW e, e.op \in Mutations, e.op # m,
         \A n \in Mutations : n # m => stage'[n] = stage[n] /\ request'[n] = request[n]
  PROVE  Entitled(q, e) => Entitled(q, e)'
BY DEF Entitled

(* The same of the elements of a ledger.                                   *)
LEMMA LedgerEntry ==
  ASSUME NEW c, Clean(c), NEW e \in Range(c.entries)
  PROVE  e \in Entry /\ e.op \in Mutations /\ e.settled \in BOOLEAN
BY EntryOf DEF Range

(* The writes of a ledger are those of its elements.                       *)
LEMMA OpsRange ==
  ASSUME NEW entries
  PROVE  Ops(entries) = {e.op : e \in Range(entries)}
BY DEF Ops, Range

(* A mutation owns a query when the ledger has an element of it.           *)
LEMMA OwnsRange ==
  ASSUME NEW c, NEW m
  PROVE  Owns(c, m) <=> \E e \in Range(c.entries) : e.op = m
BY DEF Owns, Range

(* A mutation that has published nothing owns nothing.                     *)
LEMMA OwnsNothing ==
  ASSUME IInv, NEW m \in Mutations, stage[m] \in {"idle", "starting"},
         NEW q \in Queries, NEW e \in Range(cache[q].entries)
  PROVE  e.op # m
<1>1. Entitled(q, e) /\ e.settled \in BOOLEAN
  BY Known, LedgerEntry DEF EntriesInv
<1> QED  BY <1>1 DEF Entitled

(* onMutate up to its await preserves the invariant.                       *)
LEMMA BeginInv == ASSUME IInv, NEW m \in Mutations, Begin(m) PROVE IInv'
<1> DEFINE c(q) == IF q \in Answers[m] \ Targets[m]
                   THEN [cache[q] EXCEPT !.snapshots = @ \cup {m}] ELSE cache[q]
<1>1. /\ stage[m] = "idle" /\ stage' = [stage EXCEPT ![m] = "starting"]
      /\ cache' = [q \in Queries |-> IF Concerns(m, q) THEN CancelQuery(c(q)) ELSE c(q)]
      /\ UNCHANGED <<server, events, request>>
  BY DEF Begin
<1>2. RequestInv'
  BY <1>1 DEF IInv, RequestInv
<1>3. ASSUME NEW q \in Queries PROVE QueryInv(q)'
  <2>1. QueryInv(q) /\ Clean(cache[q]) /\ cache[q] \in Query
    BY Known
  <2>2. Clean(c(q)) /\ SameRow(cache[q], c(q))
    <3>1. cache[q].snapshots \cup {m} \in SUBSET Mutations
      BY <2>1 DEF Query
    <3>2. Clean([cache[q] EXCEPT !.snapshots = cache[q].snapshots \cup {m}])
          /\ SameRow(cache[q], [cache[q] EXCEPT !.snapshots = cache[q].snapshots \cup {m}])
      BY <2>1, <3>1, SnapshotRow
    <3> QED  BY <2>1, <3>2 DEF SameRow
  <2>3. cache'[q] = IF Concerns(m, q) THEN CancelQuery(c(q)) ELSE c(q)
    BY <1>1
  <2> HIDE DEF c
  <2>4. Clean(CancelQuery(c(q))) /\ Holds(c(q), CancelQuery(c(q))) /\ Reads(c(q), CancelQuery(c(q)))
    BY <2>2, CancelRow
  <2>5. \A e \in Range(cache[q].entries) : Entitled(q, e) => Entitled(q, e)'
    <3> SUFFICES ASSUME NEW e \in Range(cache[q].entries), Entitled(q, e) PROVE Entitled(q, e)'
      OBVIOUS
    <3>1. e.op # m /\ e.op \in Mutations
      BY <1>1, <2>1, OwnsNothing, LedgerEntry
    <3> QED  BY <1>1, <3>1, EntitledOther DEF IInv, RequestInv
  <2>6. (Attended(q) => Attended(q)') /\ (q \in Settles[m] => Attended(q)')
    BY <1>1, StageAttended DEF IInv
  <2>7. CASE Concerns(m, q)
    <3>1. q \in Settles[m]
      BY <2>7, OptimisticCacheAssumption DEF Concerns
    <3>2. /\ Clean(cache'[q]) /\ cache'[q].observed = cache[q].observed
          /\ cache'[q].entries = cache[q].entries /\ cache'[q].data = cache[q].data
          /\ cache'[q].baseline = cache[q].baseline /\ cache'[q].sample \in {cache[q].sample, << >>}
      BY <2>2, <2>3, <2>4, <2>7 DEF SameRow, Holds, Reads
    <3>3. Range(cache'[q].sample) \subseteq Range(cache[q].sample)
      BY <3>2 DEF Range
    <3>4. EntriesInv(q)' /\ TraceInv(q)'
      BY <1>1, <2>1, <2>5, <3>2, <3>3, EntriesKept, TraceSame
    <3> QED  BY <2>1, <2>6, <3>1, <3>2, <3>4, QueryAttended
  <2>8. CASE ~Concerns(m, q)
    BY <1>1, <2>1, <2>2, <2>3, <2>5, <2>6, <2>8, QuerySame
  <2> QED  BY <2>7, <2>8
<1>4. cache' = [q \in Queries |-> cache'[q]]
  BY <1>1
<1> QED  BY <1>2, <1>3, <1>4, Assemble

(* The publication of the patches preserves the invariant.                 *)
LEMMA PublishPatchesInv == ASSUME IInv, NEW m \in Mutations, PublishPatches(m) PROVE IInv'
<1>1. /\ stage[m] = "starting" /\ stage' = [stage EXCEPT ![m] = "sent"]
      /\ request' = [request EXCEPT ![m] = "pending"]
      /\ cache' = [q \in Queries |-> IF Concerns(m, q) THEN Patch(cache[q], m) ELSE cache[q]]
      /\ UNCHANGED <<server, events>>
  BY DEF PublishPatches
<1>2. RequestInv'
  BY <1>1 DEF IInv, RequestInv
<1>3. ASSUME NEW q \in Queries PROVE QueryInv(q)'
  <2> DEFINE e0 == [op |-> m, settled |-> FALSE]
  <2>1. QueryInv(q) /\ Clean(cache[q]) /\ cache[q].entries \in Seq(Entry) /\ e0 \in Entry
    BY Known DEF Entry
  <2>2. /\ Clean(Patch(cache[q], m)) /\ Reads(cache[q], Patch(cache[q], m))
        /\ Patch(cache[q], m).entries = Append(cache[q].entries, e0)
        /\ Patch(cache[q], m).baseline = IF cache[q].entries = << >> THEN cache[q].data
                                         ELSE cache[q].baseline
        /\ Range(Patch(cache[q], m).data) \subseteq Range(cache[q].data) \cup {m}
    BY <2>1, PatchRow
  <2>3. \A e \in Range(cache[q].entries) : Entitled(q, e) => Entitled(q, e)'
    <3> SUFFICES ASSUME NEW e \in Range(cache[q].entries), Entitled(q, e) PROVE Entitled(q, e)'
      OBVIOUS
    <3>1. e.op # m /\ e.op \in Mutations
      BY <1>1, <2>1, OwnsNothing, LedgerEntry
    <3> QED  BY <1>1, <3>1, EntitledOther DEF IInv, RequestInv
  <2>4. (Attended(q) => Attended(q)') /\ (q \in Settles[m] => Attended(q)')
    BY <1>1, StageAttended DEF IInv
  <2>5. CASE Concerns(m, q)
    <3> DEFINE d == Patch(cache[q], m)
    <3>1. cache'[q] = d
      BY <1>1, <2>5
    <3>2. q \in Settles[m] /\ q \in Targets[m]
      BY <2>5, OptimisticCacheAssumption DEF Concerns
    <3>3. Range(d.entries) = Range(cache[q].entries) \cup {e0}
      <4>1. d.entries = Append(cache[q].entries, e0)
        BY <2>2
      <4> HIDE DEF d, e0
      <4> QED  BY <2>1, <4>1, RangeAppend
    <3>4. Entitled(q, e0)'
      <4>1. stage'[m] = "sent"
        BY <1>1 DEF IInv, RequestInv
      <4> QED  BY <3>2, <4>1 DEF Entitled
    <3>5. EntriesInv(q)'
      <4>1. \A e \in Range(cache[q].entries) : Entitled(q, e)
        BY <2>1 DEF QueryInv, EntriesInv
      <4> HIDE DEF e0, d
      <4> QED  BY <2>3, <3>1, <3>3, <3>4, <4>1 DEF EntriesInv
    <3>6. Ops(d.entries) = Ops(cache[q].entries) \cup {m}
      <4>1. e0.op = m
        OBVIOUS
      <4> HIDE DEF d, e0
      <4> QED  BY <3>3, <4>1, OpsRange
    <3>7. TraceInv(q)'
      <4>1. Range(d.sample) \subseteq Range(cache[q].sample)
        BY <2>2 DEF Reads, Range
      <4>2. cache[q].entries = << >> => Ops(cache[q].entries) = {}
        BY DEF Ops
      <4>3. Range(d.baseline) = IF cache[q].entries = << >> THEN Range(cache[q].data)
                                ELSE Range(cache[q].baseline)
        BY <2>2
      <4>4. Range(d.data) \subseteq Range(cache[q].data) \cup {m}
        BY <2>2
      <4> HIDE DEF d
      <4> QED  BY <1>1, <2>1, <3>1, <3>6, <4>1, <4>2, <4>3, <4>4 DEF QueryInv, TraceInv
    <3>8. cache'[q].observed = cache[q].observed /\ Clean(cache'[q])
      BY <2>2, <3>1 DEF Reads
    <3> QED  BY <2>1, <2>4, <3>2, <3>5, <3>7, <3>8, QueryAttended
  <2>6. CASE ~Concerns(m, q)
    <3>1. cache'[q] = cache[q]
      BY <1>1, <2>6
    <3>2. SameRow(cache[q], cache'[q])
      BY <3>1 DEF SameRow
    <3> QED  BY <1>1, <2>1, <2>3, <2>4, <3>1, <3>2, QuerySame
  <2> QED  BY <2>5, <2>6
<1>4. cache' = [q \in Queries |-> cache'[q]]
  BY <1>1
<1> QED  BY <1>2, <1>3, <1>4, Assemble

(* A rollback leaves only edits of others,                                 *)
LEMMA RollbackEntries ==
  ASSUME NEW c, Clean(c), NEW m \in Mutations
  PROVE  Range(Rollback(c, m).entries) \subseteq {e \in Range(c.entries) : e.op # m}
<1>1. CASE ~Owns(c, m)
  <2>1. Rollback(c, m) = c
    BY <1>1, RollbackRow
  <2> QED  BY <1>1, <2>1, OwnsRange
<1>2. CASE Owns(c, m)
  <2>1. Range(Without(c.entries, m)) \subseteq {e \in Range(c.entries) : e.op # m}
    <3>1. c.entries \in Seq(Entry)
      BY DEF Clean, Query
    <3>2. \A i \in DOMAIN Without(c.entries, m) : \E k \in DOMAIN c.entries :
            Without(c.entries, m)[i] = c.entries[k] /\ c.entries[k].op # m
      BY <3>1, WithoutElements
    <3> QED  BY <3>2 DEF Range
  <2>2. Range(<< >>) = {}
    BY DEF Range
  <2>3. Rollback(c, m).entries \in {Without(c.entries, m), << >>}
    BY <1>2, RollbackRow
  <2> QED  BY <2>1, <2>2, <2>3
<1> QED  BY <1>1, <1>2

(* and shows no more than what was committed and what they are.            *)
LEMMA RollbackTrace ==
  ASSUME NEW c, Clean(c), NEW m \in Mutations, Owns(c, m), NEW S,
         Range(c.baseline) \subseteq S,
         \A e \in Range(c.entries) : e.settled /\ e.op # m => e.op \in S
  PROVE  /\ Range(Rollback(c, m).data) \subseteq S \cup Ops(Rollback(c, m).entries)
         /\ Range(Rollback(c, m).baseline) \subseteq S
<1> DEFINE rest == Without(c.entries, m)
           d == Rollback(c, m)
<1>1. /\ Range(d.data) \subseteq Range(c.baseline) \cup Ops(rest)
      /\ \/ d.entries = rest /\ d.baseline = c.baseline
         \/ /\ \A i \in DOMAIN rest : rest[i].settled
            /\ d.entries = << >> /\ d.baseline = << >>
  BY RollbackRow
<1>2. c.entries \in Seq(Entry)
  BY DEF Clean, Query
<1>3. \A i \in DOMAIN rest : \E k \in DOMAIN c.entries : rest[i] = c.entries[k] /\ c.entries[k].op # m
  BY <1>2, WithoutElements
<1>4. Range(<< >>) = {}
  BY DEF Range
<1> HIDE DEF rest, d
<1>5. (\A i \in DOMAIN rest : rest[i].settled) => Ops(rest) \subseteq S
  <2> SUFFICES ASSUME NEW i \in DOMAIN rest, rest[i].settled PROVE rest[i].op \in S
    BY DEF Ops
  <2>1. PICK k \in DOMAIN c.entries : rest[i] = c.entries[k] /\ c.entries[k].op # m
    BY <1>3
  <2>2. c.entries[k] \in Range(c.entries)
    BY DEF Range
  <2> QED  BY <2>1, <2>2
<1>6. CASE d.entries = rest /\ d.baseline = c.baseline
  BY <1>1, <1>6 DEF d
<1>7. CASE (\A i \in DOMAIN rest : rest[i].settled) /\ d.entries = << >> /\ d.baseline = << >>
  BY <1>1, <1>4, <1>5, <1>7 DEF d
<1> QED  BY <1>1, <1>6, <1>7

(* The edits that count as settled are on the server.                      *)
LEMMA SettledCommitted ==
  ASSUME IInv, NEW q \in Queries, NEW e \in Range(cache[q].entries), e.settled
  PROVE  e.op \in Range(server)
<1>1. Entitled(q, e) /\ e.op \in Mutations
  BY Known, LedgerEntry DEF EntriesInv
<1> QED  BY <1>1 DEF Entitled, IInv, RequestInv

(* A patch that throws preserves the invariant: what was patched before is *)
(* rolled back.                                                            *)
LEMMA PatchThrowsInv == ASSUME IInv, NEW m \in Mutations, PatchThrows(m) PROVE IInv'
<1>1. PICK patched \in SUBSET {q \in Queries : Concerns(m, q)} :
        cache' = [q \in Queries |->
                   IF q \in patched THEN Rollback(Patch(cache[q], m), m) ELSE cache[q]]
  BY DEF PatchThrows
<1>2. /\ stage[m] = "starting" /\ stage' = [stage EXCEPT ![m] = "failed"]
      /\ UNCHANGED <<server, events, request>>
  BY DEF PatchThrows
<1>3. RequestInv'
  BY <1>2 DEF IInv, RequestInv
<1>4. ASSUME NEW q \in Queries PROVE QueryInv(q)'
  <2> DEFINE e0 == [op |-> m, settled |-> FALSE]
             p == Patch(cache[q], m)
             d == Rollback(p, m)
  <2>1. QueryInv(q) /\ Clean(cache[q]) /\ cache[q].entries \in Seq(Entry) /\ e0 \in Entry
    BY Known DEF Entry
  <2>2. \A e \in Range(cache[q].entries) : Entitled(q, e) => Entitled(q, e)'
    <3> SUFFICES ASSUME NEW e \in Range(cache[q].entries), Entitled(q, e) PROVE Entitled(q, e)'
      OBVIOUS
    <3>1. e.op # m /\ e.op \in Mutations
      BY <1>2, <2>1, OwnsNothing, LedgerEntry
    <3> QED  BY <1>2, <3>1, EntitledOther DEF IInv, RequestInv
  <2>3. (Attended(q) => Attended(q)') /\ (q \in Settles[m] => Attended(q)')
    BY <1>2, StageAttended DEF IInv
  <2>4. CASE q \in patched
    <3>1. cache'[q] = d
      BY <1>1, <2>4
    <3>2. q \in Settles[m]
      BY <1>1, <2>4, OptimisticCacheAssumption DEF Concerns
    <3>3. /\ Clean(p) /\ Reads(cache[q], p) /\ p.entries = Append(cache[q].entries, e0)
          /\ p.baseline = IF cache[q].entries = << >> THEN cache[q].data ELSE cache[q].baseline
      BY <2>1, PatchRow
    <3>4. e0.op = m /\ e0.settled = FALSE
      OBVIOUS
    <3> HIDE DEF p, e0
    <3>5. Range(p.entries) = Range(cache[q].entries) \cup {e0}
      BY <2>1, <3>3, RangeAppend
    <3>6. Owns(p, m)
      BY <3>4, <3>5, OwnsRange
    <3>7. Clean(d) /\ Reads(p, d)
      BY <3>3, RollbackRow
    <3>8. Range(d.entries) \subseteq {e \in Range(p.entries) : e.op # m}
      BY <3>3, RollbackEntries
    <3>9. EntriesInv(q)'
      <4>1. Range(d.entries) \subseteq Range(cache[q].entries)
        BY <3>4, <3>5, <3>8
      <4> HIDE DEF d
      <4> QED  BY <2>1, <2>2, <3>1, <4>1, EntriesKept
    <3>10. TraceInv(q)'
      <4> SUFFICES ASSUME \A x \in Declining : q \notin Targets[x]
                   PROVE  /\ Range(d.data) \subseteq Range(server) \cup Ops(d.entries)
                          /\ Range(d.baseline) \subseteq Range(server)
                          /\ Range(d.sample) \subseteq Range(server)
        BY <1>2, <3>1 DEF TraceInv
      <4>1. /\ Range(cache[q].data) \subseteq Range(server) \cup Ops(cache[q].entries)
            /\ Range(cache[q].baseline) \subseteq Range(server)
            /\ Range(cache[q].sample) \subseteq Range(server)
        BY <2>1 DEF QueryInv, TraceInv
      <4>2. Range(p.baseline) \subseteq Range(server)
        <5>1. cache[q].entries = << >> => Ops(cache[q].entries) = {}
          BY DEF Ops
        <5> QED  BY <3>3, <4>1, <5>1
      <4>3. \A e \in Range(p.entries) : e.settled /\ e.op # m => e.op \in Range(server)
        BY <3>4, <3>5, SettledCommitted
      <4>4. /\ Range(d.data) \subseteq Range(server) \cup Ops(d.entries)
            /\ Range(d.baseline) \subseteq Range(server)
        BY <3>3, <3>6, <4>2, <4>3, RollbackTrace
      <4>5. Range(d.sample) \subseteq Range(cache[q].sample)
        BY <3>3, <3>7 DEF Reads, Range
      <4> QED  BY <4>1, <4>4, <4>5
    <3>11. cache'[q].observed = cache[q].observed /\ Clean(cache'[q])
      BY <3>1, <3>3, <3>7 DEF Reads
    <3> QED  BY <2>1, <2>3, <3>2, <3>9, <3>10, <3>11, QueryAttended
  <2>5. CASE q \notin patched
    <3>1. cache'[q] = cache[q]
      BY <1>1, <2>5
    <3>2. SameRow(cache[q], cache'[q])
      BY <3>1 DEF SameRow
    <3> QED  BY <1>2, <2>1, <2>2, <2>3, <3>1, <3>2, QuerySame
  <2> QED  BY <2>4, <2>5
<1>5. cache' = [q \in Queries |-> cache'[q]]
  BY <1>1
<1> QED  BY <1>3, <1>4, <1>5, Assemble

(* onSuccess preserves the invariant: its write is on the server.          *)
LEMMA SucceedInv == ASSUME IInv, NEW m \in Mutations, Succeed(m) PROVE IInv'
<1>1. /\ stage[m] = "sent" /\ stage' = [stage EXCEPT ![m] = "succeeded"]
      /\ request[m] = "committed"
      /\ cache' = [q \in Queries |->
           IF q \in Answers[m] /\ (m \in cache[q].snapshots \/ Owns(cache[q], m))
           THEN ApplyPartialQueryPatch(cache[q], m) ELSE cache[q]]
      /\ UNCHANGED <<server, events, request>>
  BY DEF Succeed
<1>2. RequestInv'
  BY <1>1 DEF IInv, RequestInv
<1>3. m \in Range(server) /\ stage'[m] = "succeeded"
      /\ \A n \in Mutations : n # m => stage'[n] = stage[n] /\ request'[n] = request[n]
  BY <1>1 DEF IInv, RequestInv
<1>4. ASSUME NEW q \in Queries PROVE QueryInv(q)'
  <2> DEFINE e0 == [op |-> m, settled |-> TRUE]
             d == ApplyPartialQueryPatch(cache[q], m)
  <2>1. QueryInv(q) /\ Clean(cache[q]) /\ cache[q].entries \in Seq(Entry) /\ e0 \in Entry
    BY Known DEF Entry
  <2>2. \A e \in Range(cache[q].entries) : Entitled(q, e) => Entitled(q, e)'
    <3> SUFFICES ASSUME NEW e \in Range(cache[q].entries), Entitled(q, e) PROVE Entitled(q, e)'
      OBVIOUS
    <3>1. e.op \in Mutations
      BY <2>1, LedgerEntry
    <3>2. CASE e.op # m
      BY <1>3, <3>1, <3>2, EntitledOther
    <3>3. CASE e.op = m
      BY <1>1, <1>3, <3>3 DEF Entitled
    <3> QED  BY <3>2, <3>3
  <2>3. (Attended(q) => Attended(q)') /\ (q \in Settles[m] => Attended(q)')
    BY <1>1, StageAttended DEF IInv
  <2>4. CASE q \in Answers[m] /\ (m \in cache[q].snapshots \/ Owns(cache[q], m))
    <3>1. cache'[q] = d
      BY <1>1, <2>4
    <3>2. q \in Settles[m]
      BY <2>4, OptimisticCacheAssumption
    <3>3. /\ Clean(d) /\ Reads(cache[q], d)
          /\ d.entries = cache[q].entries \/ d.entries = Append(cache[q].entries, e0)
          /\ d.baseline = cache[q].baseline
          /\ Range(d.data) \subseteq Range(cache[q].data) \cup {m}
      BY <2>1, PartialRow
    <3>4. e0.op = m /\ e0.settled = TRUE
      OBVIOUS
    <3> HIDE DEF d, e0
    <3>5. Range(cache[q].entries) \subseteq Range(d.entries)
          /\ Range(d.entries) \subseteq Range(cache[q].entries) \cup {e0}
      <4>1. Range(Append(cache[q].entries, e0)) = Range(cache[q].entries) \cup {e0}
        BY <2>1, RangeAppend
      <4> QED  BY <3>3, <4>1
    <3>6. Entitled(q, e0)'
      BY <1>1, <1>3, <3>2, <3>4 DEF Entitled
    <3>7. EntriesInv(q)'
      <4>1. \A e \in Range(cache[q].entries) : Entitled(q, e)
        BY <2>1 DEF QueryInv, EntriesInv
      <4> QED  BY <2>2, <3>1, <3>5, <3>6, <4>1 DEF EntriesInv
    <3>8. TraceInv(q)'
      <4>1. Range(d.sample) \subseteq Range(cache[q].sample)
        BY <3>3 DEF Reads, Range
      <4>2. Ops(cache[q].entries) \subseteq Ops(d.entries)
        BY <3>5, OpsRange
      <4> QED  BY <1>1, <1>3, <2>1, <3>1, <3>3, <4>1, <4>2 DEF QueryInv, TraceInv
    <3>9. cache'[q].observed = cache[q].observed /\ Clean(cache'[q])
      BY <3>1, <3>3 DEF Reads
    <3> QED  BY <2>1, <2>3, <3>2, <3>7, <3>8, <3>9, QueryAttended
  <2>5. CASE ~(q \in Answers[m] /\ (m \in cache[q].snapshots \/ Owns(cache[q], m)))
    <3>1. cache'[q] = cache[q]
      BY <1>1, <2>5
    <3>2. SameRow(cache[q], cache'[q])
      BY <3>1 DEF SameRow
    <3> QED  BY <1>1, <2>1, <2>2, <2>3, <3>1, <3>2, QuerySame
  <2> QED  BY <2>4, <2>5
<1>5. cache' = [q \in Queries |-> cache'[q]]
  BY <1>1
<1> QED  BY <1>2, <1>4, <1>5, Assemble

(* onError preserves the invariant, also when a caller declines the        *)
(* rollback.                                                               *)
LEMMA FailInv == ASSUME IInv, NEW m \in Mutations, Fail(m) PROVE IInv'
<1> DEFINE Declined(q) == /\ m \in Declining /\ cache[q].loaded
                          /\ ~(cache[q].data # << >> /\ Last(cache[q].data) = m)
<1>1. /\ stage[m] = "sent" /\ stage' = [stage EXCEPT ![m] = "failed"]
      /\ cache' = [q \in Queries |-> IF Declined(q) THEN cache[q] ELSE Rollback(cache[q], m)]
      /\ UNCHANGED <<server, events, request>>
  BY DEF Fail
<1>2. \A q \in Queries : Declined(q) => m \in Declining
  OBVIOUS
<1> HIDE DEF Declined
<1>3. RequestInv'
  BY <1>1 DEF IInv, RequestInv
<1>4. stage'[m] = "failed"
      /\ \A n \in Mutations : n # m => stage'[n] = stage[n] /\ request'[n] = request[n]
  BY <1>1 DEF IInv, RequestInv
<1>5. ASSUME NEW q \in Queries PROVE QueryInv(q)'
  <2> DEFINE d == Rollback(cache[q], m)
  <2>1. QueryInv(q) /\ Clean(cache[q])
    BY Known
  <2>2. (Attended(q) => Attended(q)') /\ (q \in Settles[m] => Attended(q)')
    BY <1>1, StageAttended DEF IInv
  <2>3. \A e \in Range(cache[q].entries) :
          e.op # m \/ m \in Declining => (Entitled(q, e) => Entitled(q, e)')
    <3> SUFFICES ASSUME NEW e \in Range(cache[q].entries), e.op # m \/ m \in Declining,
                        Entitled(q, e)
                 PROVE  Entitled(q, e)'
      OBVIOUS
    <3>1. e.op \in Mutations
      BY <2>1, LedgerEntry
    <3>2. CASE e.op # m
      BY <1>4, <3>1, <3>2, EntitledOther
    <3>3. CASE e.op = m
      BY <1>1, <1>4, <3>3 DEF Entitled
    <3> QED  BY <3>2, <3>3
  <2>4. ASSUME cache'[q] = cache[q], ~Owns(cache[q], m) \/ m \in Declining
        PROVE  QueryInv(q)'
    <3>1. SameRow(cache[q], cache'[q])
      BY <2>4 DEF SameRow
    <3>2. \A e \in Range(cache[q].entries) : Entitled(q, e) => Entitled(q, e)'
      BY <2>3, <2>4, OwnsRange
    <3> QED  BY <1>1, <2>1, <2>2, <2>4, <3>1, <3>2, QuerySame
  <2>5. CASE Declined(q)
    BY <1>1, <1>2, <2>4, <2>5
  <2>6. CASE ~Declined(q) /\ ~Owns(cache[q], m)
    <3>1. d = cache[q]
      BY <2>1, <2>6, RollbackRow
    <3> QED  BY <1>1, <2>4, <2>6, <3>1
  <2>7. CASE ~Declined(q) /\ Owns(cache[q], m)
    <3>1. cache'[q] = d
      BY <1>1, <2>7
    <3>2. q \in Settles[m]
      BY <2>1, <2>7, OwnsRange DEF QueryInv, EntriesInv, Entitled
    <3>3. Clean(d) /\ Reads(cache[q], d)
      BY <2>1, RollbackRow
    <3>4. Range(d.entries) \subseteq {e \in Range(cache[q].entries) : e.op # m}
      BY <2>1, RollbackEntries
    <3>5. EntriesInv(q)'
      <4> HIDE DEF d
      <4> QED  BY <2>1, <2>3, <3>1, <3>4, EntriesKept
    <3>6. TraceInv(q)'
      <4> SUFFICES ASSUME \A x \in Declining : q \notin Targets[x]
                   PROVE  /\ Range(d.data) \subseteq Range(server) \cup Ops(d.entries)
                          /\ Range(d.baseline) \subseteq Range(server)
                          /\ Range(d.sample) \subseteq Range(server)
        BY <1>1, <3>1 DEF TraceInv
      <4>1. /\ Range(cache[q].baseline) \subseteq Range(server)
            /\ Range(cache[q].sample) \subseteq Range(server)
        BY <2>1 DEF QueryInv, TraceInv
      <4>2. /\ Range(d.data) \subseteq Range(server) \cup Ops(d.entries)
            /\ Range(d.baseline) \subseteq Range(server)
        <5>1. \A e \in Range(cache[q].entries) : e.settled /\ e.op # m => e.op \in Range(server)
          BY SettledCommitted
        <5> QED  BY <2>1, <2>7, <4>1, <5>1, RollbackTrace
      <4>3. Range(d.sample) \subseteq Range(cache[q].sample)
        BY <3>3 DEF Reads, Range
      <4> QED  BY <4>1, <4>2, <4>3
    <3>7. cache'[q].observed = cache[q].observed /\ Clean(cache'[q])
      BY <3>1, <3>3 DEF Reads
    <3> QED  BY <2>1, <2>2, <3>2, <3>5, <3>6, <3>7, QueryAttended
  <2> QED  BY <2>5, <2>6, <2>7
<1>6. cache' = [q \in Queries |-> cache'[q]]
  BY <1>1
<1> QED  BY <1>3, <1>5, <1>6, Assemble

(* A release changes nothing that is shown, and empties the ledger.        *)
LEMMA ReleasedRow ==
  ASSUME NEW c, Clean(c)
  PROVE  /\ Clean(Released(c)) /\ Released(c).data = c.data /\ Released(c).sample = c.sample
         /\ Released(c).observed = c.observed
         /\ Released(c).entries = << >> /\ Released(c).baseline = << >>
<1> DEFINE r == Released(c)
<1>1. c \in Query /\ << >> \in Seq(Writes) /\ << >> \in Seq(Entry)
  BY DEF Clean
<1>2. /\ r \in Query /\ r.data = c.data /\ r.sample = c.sample /\ r.observed = c.observed
      /\ r.entries = << >> /\ r.baseline = << >> /\ r.deferred = FALSE
      /\ r.loaded = c.loaded /\ r.overtaken = c.overtaken
  BY <1>1 DEF Released, Query
<1> HIDE DEF r
<1>3. Clean(r)
  BY <1>2 DEF Clean
<1> QED  BY <1>2, <1>3 DEF r

(* What the end of a mutation leaves in a ledger: edits that were there,   *)
(* or its own, confirmed.                                                  *)
LEMMA SettleEntries ==
  ASSUME NEW c, Clean(c), NEW m \in Mutations, NEW x \in Range(Settle(c, m).entries)
  PROVE  \/ x \in Range(c.entries) /\ x.op # m
         \/ x \in Entry /\ x.op = m /\ x.settled /\ Owns(c, m)
<1> DEFINE d == Settle(c, m)
<1>1. /\ Clean(d)
      /\ \/ /\ Len(d.entries) = Len(c.entries)
            /\ \A i \in DOMAIN c.entries :
                 /\ d.entries[i].op = c.entries[i].op
                 /\ d.entries[i].settled = (c.entries[i].settled \/ c.entries[i].op = m)
         \/ d.entries = << >>
  BY SettleRow
<1> HIDE DEF d
<1>2. c.entries \in Seq(Entry) /\ d.entries \in Seq(Entry)
  BY <1>1 DEF Clean, Query
<1>a. PICK i \in DOMAIN d.entries : d.entries[i] = x
  BY DEF Range, d
<1>3. /\ i \in DOMAIN c.entries /\ c.entries[i] \in Entry /\ d.entries[i] \in Entry
      /\ d.entries[i].op = c.entries[i].op
      /\ d.entries[i].settled = (c.entries[i].settled \/ c.entries[i].op = m)
  BY <1>1, <1>2
<1>4. CASE c.entries[i].op = m
  <2>1. Owns(c, m)
    BY <1>3, <1>4 DEF Owns
  <2>2. d.entries[i].settled = TRUE
    BY <1>3, <1>4
  <2> QED  BY <1>a, <1>3, <1>4, <2>1, <2>2
<1>5. CASE c.entries[i].op # m
  <2>1. d.entries[i].settled = c.entries[i].settled
    BY <1>3, <1>5 DEF Entry
  <2>2. d.entries[i] = c.entries[i]
    BY <1>3, <2>1 DEF Entry
  <2> QED  BY <1>a, <1>3, <1>5, <2>2 DEF Range
<1> QED  BY <1>a, <1>4, <1>5

(* What a settled query shows is committed, or still in its ledger.        *)
LEMMA SettleTrace ==
  ASSUME NEW c, Clean(c), NEW m \in Mutations, NEW S,
         Range(c.data) \subseteq S \cup Ops(c.entries), Range(c.baseline) \subseteq S,
         \A e \in Range(c.entries) : e.settled \/ e.op = m => e.op \in S
  PROVE  /\ Range(Settle(c, m).data) \subseteq S \cup Ops(Settle(c, m).entries)
         /\ Range(Settle(c, m).baseline) \subseteq S
<1> DEFINE d == Settle(c, m)
<1>1. /\ Clean(d) /\ d.data = c.data
      /\ \/ /\ d.baseline = c.baseline
            /\ Len(d.entries) = Len(c.entries)
            /\ \A i \in DOMAIN c.entries : d.entries[i].op = c.entries[i].op
         \/ /\ \A i \in DOMAIN c.entries : c.entries[i].settled \/ c.entries[i].op = m
            /\ d.baseline = << >>
            /\ d.entries = << >>
  BY SettleRow
<1> HIDE DEF d
<1>2. c.entries \in Seq(Entry) /\ d.entries \in Seq(Entry)
  BY <1>1 DEF Clean, Query
<1>3. CASE /\ d.baseline = c.baseline /\ Len(d.entries) = Len(c.entries)
           /\ \A i \in DOMAIN c.entries : d.entries[i].op = c.entries[i].op
  <2>1. DOMAIN d.entries = DOMAIN c.entries
    BY <1>2, <1>3
  <2>2. Ops(d.entries) = Ops(c.entries)
    BY <1>3, <2>1 DEF Ops
  <2> QED  BY <1>1, <1>3, <2>2 DEF d
<1>4. CASE /\ \A i \in DOMAIN c.entries : c.entries[i].settled \/ c.entries[i].op = m
           /\ d.baseline = << >> /\ d.entries = << >>
  <2>1. Ops(c.entries) \subseteq S
    <3> SUFFICES ASSUME NEW i \in DOMAIN c.entries PROVE c.entries[i].op \in S
      BY DEF Ops
    <3>1. c.entries[i] \in Range(c.entries)
      BY DEF Range
    <3> QED  BY <1>4, <3>1
  <2>2. Range(<< >>) = {}
    BY DEF Range
  <2> QED  BY <1>1, <1>4, <2>1, <2>2 DEF d
<1> QED  BY <1>1, <1>3, <1>4

(* What onSettled leaves of a query before it is reconciled.               *)
LEMMA EndLeaves ==
  ASSUME IInv, NEW m \in Mutations, stage[m] \in {"succeeded", "failed"}, NEW q \in Queries,
         NEW c, c = [cache[q] EXCEPT !.snapshots = @ \ {m}],
         NEW left, left = IF stage[m] = "failed" /\ Owns(c, m) THEN Released(c) ELSE Settle(c, m)
  PROVE  /\ Clean(left) /\ left.observed = cache[q].observed
         /\ left.sample \in {cache[q].sample, << >>}
         /\ Range(left.entries) \subseteq
              {e \in Range(cache[q].entries) : e.op # m}
                \cup {e \in Entry : e.op = m /\ e.settled /\ q \in Settles[m]
                                    /\ request[m] = "committed"}
         /\ (\A x \in Declining : q \notin Targets[x]) =>
              /\ Range(left.data) \subseteq Range(server) \cup Ops(left.entries)
              /\ Range(left.baseline) \subseteq Range(server)
         /\ q \notin Settles[m] => SameRow(cache[q], left)
<1>1. /\ QueryInv(q) /\ Clean(cache[q]) /\ EntriesInv(q) /\ TraceInv(q)
      /\ cache[q] \in Query /\ cache[q].entries \in Seq(Entry)
  BY Known
<1>2. Clean(c) /\ SameRow(cache[q], c)
  <2>1. cache[q].snapshots \ {m} \in SUBSET Mutations
    BY <1>1 DEF Query
  <2> QED  BY <1>1, <2>1, SnapshotRow
<1>3. c.entries = cache[q].entries /\ c.data = cache[q].data /\ c.baseline = cache[q].baseline
      /\ c.sample = cache[q].sample /\ c.observed = cache[q].observed
  BY <1>2 DEF SameRow
<1>4. Owns(c, m) => q \in Settles[m]
  <2> SUFFICES ASSUME NEW e \in Range(cache[q].entries), e.op = m PROVE q \in Settles[m]
    BY <1>3, OwnsRange
  <2> QED  BY <1>1 DEF EntriesInv, Entitled
<1>5. stage[m] = "succeeded" => request[m] = "committed" /\ m \in Range(server)
  BY DEF IInv, RequestInv
<1>6. CASE stage[m] = "failed" /\ Owns(c, m)
  <2>1. left = Released(c)
    BY <1>6
  <2>2. PICK e \in Range(cache[q].entries) : e.op = m
    BY <1>3, <1>6, OwnsRange
  <2>3. m \in Declining /\ q \in Targets[m]
    <3>1. Entitled(q, e) /\ e.settled \in BOOLEAN
      BY <1>1, LedgerEntry DEF EntriesInv
    <3> QED  BY <1>6, <2>2, <3>1 DEF Entitled
  <2>4. Range(<< >>) = {}
    BY DEF Range
  <2>5. /\ Clean(left) /\ left.observed = cache[q].observed /\ left.sample = cache[q].sample
        /\ left.entries = << >>
    <3>1. ASSUME NEW k, Clean(k)
          PROVE  /\ Clean(Released(k)) /\ Released(k).observed = k.observed
                 /\ Released(k).sample = k.sample /\ Released(k).entries = << >>
      BY <3>1, ReleasedRow
    <3>2. Clean(c)
      BY <1>2
    <3>3. /\ Clean(Released(c)) /\ Released(c).observed = c.observed
          /\ Released(c).sample = c.sample /\ Released(c).entries = << >>
      BY <3>1, <3>2
    <3> QED  BY <1>3, <2>1, <3>3
  <2>6. Range(left.entries) = {}
    BY <2>4, <2>5
  <2>7. Range(left.entries) \subseteq
          {x \in Range(cache[q].entries) : x.op # m}
            \cup {x \in Entry : x.op = m /\ x.settled /\ q \in Settles[m] /\ request[m] = "committed"}
    BY <2>6
  <2>8. q \in Settles[m] /\ ~(\A x \in Declining : q \notin Targets[x])
    BY <1>4, <1>6, <2>3
  <2> QED  BY <2>5, <2>7, <2>8
<1>7. CASE stage[m] = "succeeded" \/ ~Owns(c, m)
  <2>1. left = Settle(c, m)
    BY <1>7
  <2>2. Clean(left) /\ Reads(c, left) /\ (~Owns(c, m) => left = c)
    BY <1>2, <2>1, SettleRow
  <2>3. /\ left.observed = cache[q].observed /\ left.sample \in {cache[q].sample, << >>}
        /\ q \notin Settles[m] => SameRow(cache[q], left)
    BY <1>2, <1>3, <1>4, <2>2 DEF Reads
  <2>4. Range(left.entries) \subseteq
          {e \in Range(cache[q].entries) : e.op # m}
            \cup {e \in Entry : e.op = m /\ e.settled /\ q \in Settles[m] /\ request[m] = "committed"}
    <3>1. ASSUME NEW e \in Range(left.entries)
          PROVE  \/ e \in Range(c.entries) /\ e.op # m
                 \/ e \in Entry /\ e.op = m /\ e.settled /\ Owns(c, m)
      <4>1. Clean(c) /\ e \in Range(Settle(c, m).entries)
        BY <1>2, <2>1
      <4>2. ASSUME NEW k, Clean(k), NEW x \in Range(Settle(k, m).entries)
            PROVE  \/ x \in Range(k.entries) /\ x.op # m
                   \/ x \in Entry /\ x.op = m /\ x.settled /\ Owns(k, m)
        BY <4>2, SettleEntries
      <4> QED  BY <4>1, <4>2
    <3>2. Owns(c, m) => q \in Settles[m] /\ request[m] = "committed"
      BY <1>4, <1>5, <1>7
    <3>3. Range(c.entries) = Range(cache[q].entries)
      BY <1>3
    <3> QED  BY <3>1, <3>2, <3>3
  <2>5. ASSUME \A x \in Declining : q \notin Targets[x]
        PROVE  /\ Range(left.data) \subseteq Range(server) \cup Ops(left.entries)
               /\ Range(left.baseline) \subseteq Range(server)
    <3>1. /\ Range(c.data) \subseteq Range(server) \cup Ops(c.entries)
          /\ Range(c.baseline) \subseteq Range(server)
      BY <1>1, <1>3, <2>5 DEF TraceInv
    <3>2. \A e \in Range(c.entries) : e.settled \/ e.op = m => e.op \in Range(server)
      BY <1>3, <1>5, <1>7, SettledCommitted, OwnsRange
    <3> QED  BY <1>2, <2>1, <3>1, <3>2, SettleTrace
  <2> QED  BY <2>2, <2>3, <2>4, <2>5
<1> QED  BY <1>6, <1>7

(* onSettled preserves the invariant.                                      *)
LEMMA EndInv == ASSUME IInv, NEW m \in Mutations, End(m) PROVE IInv'
<1>1. /\ stage[m] \in {"succeeded", "failed"} /\ stage' = [stage EXCEPT ![m] = "over"]
      /\ cache' = [q \in Queries |-> Settled(m, q)]
      /\ UNCHANGED <<server, events, request>>
  BY DEF End
<1>2. RequestInv'
  BY <1>1 DEF IInv, RequestInv
<1>3. stage'[m] = "over"
      /\ \A n \in Mutations : n # m => stage'[n] = stage[n] /\ request'[n] = request[n]
  BY <1>1 DEF IInv, RequestInv
<1>4. ASSUME NEW q \in Queries PROVE QueryInv(q)'
  <2> DEFINE c == [cache[q] EXCEPT !.snapshots = @ \ {m}]
             left == IF stage[m] = "failed" /\ Owns(c, m) THEN Released(c) ELSE Settle(c, m)
             d == cache'[q]
  <2>1. QueryInv(q) /\ Clean(cache[q]) /\ EntriesInv(q) /\ TraceInv(q) /\ WatchInv(q)
    BY Known
  <2>2. d = IF q \in Settles[m] THEN Invalidate(left) ELSE left
    BY <1>1 DEF Settled
  <2>3. /\ Clean(left) /\ left.observed = cache[q].observed
        /\ left.sample \in {cache[q].sample, << >>}
        /\ Range(left.entries) \subseteq
             {e \in Range(cache[q].entries) : e.op # m}
               \cup {e \in Entry : e.op = m /\ e.settled /\ q \in Settles[m]
                                   /\ request[m] = "committed"}
        /\ (\A x \in Declining : q \notin Targets[x]) =>
             /\ Range(left.data) \subseteq Range(server) \cup Ops(left.entries)
             /\ Range(left.baseline) \subseteq Range(server)
        /\ q \notin Settles[m] => SameRow(cache[q], left)
    BY <1>1, EndLeaves
  <2> HIDE DEF c, left
  <2>4. Clean(Invalidate(left)) /\ Holds(left, Invalidate(left)) /\ Reads(left, Invalidate(left))
    BY <2>3, InvalidateRow
  <2>5. /\ Clean(d) /\ d.entries = left.entries /\ d.data = left.data /\ d.baseline = left.baseline
        /\ d.sample \in {left.sample, << >>}
    BY <2>2, <2>3, <2>4 DEF Holds, Reads
  <2> HIDE DEF d
  <2>6. EntriesInv(q)'
    <3> SUFFICES ASSUME NEW e \in Range(left.entries) PROVE Entitled(q, e)'
      BY <2>5 DEF EntriesInv, d
    <3>1. CASE e \in Range(cache[q].entries) /\ e.op # m
      <4>1. Entitled(q, e) /\ e.op \in Mutations
        BY <2>1, <3>1, LedgerEntry DEF EntriesInv
      <4> QED  BY <1>3, <3>1, <4>1, EntitledOther
    <3>2. CASE e.op = m /\ e.settled /\ q \in Settles[m] /\ request[m] = "committed"
      BY <1>1, <1>3, <3>2 DEF Entitled
    <3> QED  BY <2>3, <3>1, <3>2
  <2>7. TraceInv(q)'
    <3>1. Range(d.sample) \subseteq Range(cache[q].sample)
      BY <2>3, <2>5 DEF Range
    <3> QED  BY <1>1, <2>1, <2>3, <2>5, <3>1 DEF TraceInv, d
  <2>8. WatchInv(q)'
    <3>1. CASE q \in Settles[m]
      <4>1. q \in Watched => left.observed
        BY <2>1, <2>3 DEF WatchInv
      <4>2. cache'[q] = Invalidate(left)
        BY <2>2, <3>1 DEF d
      <4> QED  BY <2>3, <2>6, <4>1, <4>2, WatchInvalidated
    <3>2. CASE q \notin Settles[m]
      <4>1. SameRow(cache[q], cache'[q])
        BY <2>2, <2>3, <3>2 DEF d
      <4>2. Attended(q) => Attended(q)'
        BY <1>3, <3>2 DEF Attended, Running
      <4> QED  BY <1>1, <2>1, <4>1, <4>2, WatchSame
    <3> QED  BY <3>1, <3>2
  <2>9. Clean(cache[q])'
    BY <2>5 DEF d
  <2> QED  BY <2>6, <2>7, <2>8, <2>9 DEF QueryInv
<1>5. cache' = [q \in Queries |-> cache'[q]]
  BY <1>1
<1> QED  BY <1>2, <1>4, <1>5, Assemble

(* A write is committed: who is not touched by it reads the same, and who  *)
(* is will hear of it.                                                     *)
LEMMA WatchGrows ==
  ASSUME NEW q \in Queries, QueryInv(q), server \in Seq(Writes), NEW w \in Writes,
         server' = Append(server, w), events' = events \cup {w}, UNCHANGED <<cache, stage>>
  PROVE  WatchInv(q)'
<1>1. Attended(q)' = Attended(q)
  BY DEF Attended, Running
<1>2. CASE q \in Affects[w]
  BY <1>1, <1>2 DEF QueryInv, WatchInv, Explained
<1>3. CASE q \notin Affects[w]
  <2>1. Canonical(q)' = Canonical(q)
    <3> DEFINE S == {x \in Writes : q \in Affects[x]}
    <3>1. w \notin S
      BY <1>3
    <3> HIDE DEF S
    <3>2. Kept(Append(server, w), S) = Kept(server, S)
      BY <3>1, KeptAppend
    <3> QED  BY <3>2 DEF Canonical, S
  <2>2. Explained(q) => Explained(q)'
    BY <1>1, <2>1 DEF Explained, Attended
  <2> QED  BY <1>1, <2>1, <2>2 DEF QueryInv, WatchInv
<1> QED  BY <1>2, <1>3

(* A commit of anyone preserves the invariant.                             *)
LEMMA WriteInv ==
  ASSUME IInv, NEW w \in Writes, server' = Append(server, w), events' = events \cup {w},
         UNCHANGED <<cache, stage>>, RequestInv',
         \A n \in Mutations : request[n] = "committed" => request'[n] = "committed"
  PROVE  IInv'
<1>1. server \in Seq(Writes)
  BY DEF IInv, RequestInv
<1>2. Range(server) \subseteq Range(server')
  BY <1>1, RangeAppend
<1>3. ASSUME NEW q \in Queries PROVE QueryInv(q)'
  <2>1. QueryInv(q) /\ Clean(cache[q])
    BY Known
  <2>2. WatchInv(q)'
    BY <1>1, <2>1, WatchGrows
  <2>3. TraceInv(q)'
    BY <1>2, <2>1, TraceSame
  <2>4. EntriesInv(q)'
    <3>1. \A e \in Range(cache[q].entries) : Entitled(q, e) => Entitled(q, e)'
      <4> SUFFICES ASSUME NEW e \in Range(cache[q].entries), Entitled(q, e) PROVE Entitled(q, e)'
        OBVIOUS
      <4>1. e.op \in Mutations
        BY <2>1, LedgerEntry
      <4> QED  BY <4>1 DEF Entitled
    <3> QED  BY <2>1, <3>1, EntriesKept
  <2>5. Clean(cache[q])'
    BY <2>1
  <2> QED  BY <2>2, <2>3, <2>4, <2>5 DEF QueryInv
<1> QED  BY <1>3 DEF IInv

(* The commit of a mutation of this tab preserves it,                      *)
LEMMA CommitWriteInv == ASSUME IInv, NEW m \in Mutations, CommitWrite(m) PROVE IInv'
<1>1. /\ request[m] = "pending" /\ request' = [request EXCEPT ![m] = "committed"]
      /\ server' = Append(server, m) /\ events' = events \cup {m} /\ UNCHANGED <<cache, stage>>
  BY DEF CommitWrite
<1>2. m \in Writes /\ server \in Seq(Writes) /\ RequestInv
  BY DEF Writes, IInv, RequestInv
<1>3. server' \in Seq(Writes) /\ Range(server') = Range(server) \cup {m}
  BY <1>1, <1>2, RangeAppend
<1>4. RequestInv'
  BY <1>1, <1>2, <1>3 DEF RequestInv
<1> QED  BY <1>1, <1>2, <1>4, WriteInv DEF RequestInv

(* and so does the commit of somebody else,                                *)
LEMMA OtherWriteInv == ASSUME IInv, NEW w \in Others, OtherWrite(w) PROVE IInv'
<1>1. /\ server' = Append(server, w) /\ events' = events \cup {w} /\ UNCHANGED <<cache, stage, request>>
  BY DEF OtherWrite
<1>2. w \in Writes /\ w \notin Mutations /\ server \in Seq(Writes) /\ RequestInv
  BY OptimisticCacheAssumption DEF Writes, IInv, RequestInv
<1>3. server' \in Seq(Writes) /\ Range(server') = Range(server) \cup {w}
  BY <1>1, <1>2, RangeAppend
<1>4. RequestInv'
  BY <1>1, <1>2, <1>3 DEF RequestInv
<1> QED  BY <1>1, <1>2, <1>4, WriteInv

(* and so does the refusal of a request.                                   *)
LEMMA RefuseWriteInv == ASSUME IInv, NEW m \in Mutations, RefuseWrite(m) PROVE IInv'
<1>1. /\ request[m] = "pending" /\ request' = [request EXCEPT ![m] = "refused"]
      /\ UNCHANGED <<server, events, cache, stage>>
  BY DEF RefuseWrite
<1>2. RequestInv'
  BY <1>1 DEF IInv, RequestInv
<1>3. ASSUME NEW q \in Queries PROVE QueryInv(q)'
  <2>1. QueryInv(q) /\ Clean(cache[q])
    BY Known
  <2>2. \A e \in Range(cache[q].entries) : Entitled(q, e) => Entitled(q, e)'
    <3> SUFFICES ASSUME NEW e \in Range(cache[q].entries), Entitled(q, e) PROVE Entitled(q, e)'
      OBVIOUS
    <3>1. e.op \in Mutations
      BY <2>1, LedgerEntry
    <3> QED  BY <1>1, <3>1 DEF Entitled, IInv, RequestInv
  <2>3. Attended(q)' = Attended(q)
    BY <1>1 DEF Attended, Running
  <2>4. cache'[q] = cache[q] /\ SameRow(cache[q], cache'[q])
    BY <1>1 DEF SameRow
  <2> QED  BY <1>1, <2>1, <2>2, <2>3, <2>4, QuerySame
<1> QED  BY <1>1, <1>2, <1>3 DEF IInv

-------------------------------------------------------------------------------
(* The stream.                                                             *)
LEMMA InvalidatedInv ==
  ASSUME IInv, NEW q \in Queries, cache'[q] = Invalidate(cache[q]),
         UNCHANGED <<server, stage, request>>
  PROVE  QueryInv(q)'
<1>1. QueryInv(q) /\ Clean(cache[q]) /\ WatchInv(q)
  BY Known
<1>2. Clean(cache'[q]) /\ Holds(cache[q], cache'[q]) /\ Reads(cache[q], cache'[q])
  BY <1>1, InvalidateRow
<1>3. \A e : Entitled(q, e)' = Entitled(q, e)
  BY DEF Entitled
<1>4. EntriesInv(q)'
  BY <1>1, <1>2, <1>3, EntriesKept DEF Holds
<1>5. TraceInv(q)'
  <2>1. Range(cache'[q].sample) \subseteq Range(cache[q].sample)
    BY <1>2 DEF Reads, Range
  <2> QED  BY <1>1, <1>2, <2>1, TraceSame DEF Holds
<1>6. WatchInv(q)'
  <2>1. q \in Watched => cache[q].observed
    BY <1>1 DEF WatchInv
  <2> QED  BY <1>1, <1>4, <2>1, WatchInvalidated
<1>7. Clean(cache[q])'
  BY <1>2
<1> QED  BY <1>4, <1>5, <1>6, <1>7 DEF QueryInv

(* A committed event preserves the invariant.                              *)
LEMMA DeliverEventInv == ASSUME IInv, NEW w \in Writes, DeliverEvent(w) PROVE IInv'
<1>1. /\ events' = events \ {w} /\ UNCHANGED <<server, stage, request>>
      /\ cache' = [q \in Queries |-> IF q \in Affects[w] THEN Invalidate(cache[q]) ELSE cache[q]]
  BY DEF DeliverEvent
<1>2. RequestInv'
  BY <1>1 DEF IInv, RequestInv
<1>3. ASSUME NEW q \in Queries PROVE QueryInv(q)'
  <2>1. CASE q \in Affects[w]
    BY <1>1, <2>1, InvalidatedInv
  <2>2. CASE q \notin Affects[w]
    <3>1. cache'[q] = cache[q] /\ SameRow(cache[q], cache'[q])
      BY <1>1, <2>2 DEF SameRow
    <3>2. \A x \in events : q \in Affects[x] => x \in events'
      BY <1>1, <2>2
    <3>3. Attended(q)' = Attended(q) /\ \A e : Entitled(q, e)' = Entitled(q, e)
      BY <1>1 DEF Attended, Running, Entitled
    <3>4. QueryInv(q) /\ Clean(cache[q])
      BY Known
    <3> QED  BY <1>1, <3>1, <3>2, <3>3, <3>4, QuerySame
  <2> QED  BY <2>1, <2>2
<1>4. cache' = [q \in Queries |-> cache'[q]]
  BY <1>1
<1> QED  BY <1>2, <1>3, <1>4, Assemble

(* The reconciliation of everything preserves the invariant.               *)
LEMMA ReconcileInv == ASSUME IInv, Reconcile PROVE IInv'
<1>1. /\ events' = {} /\ UNCHANGED <<server, stage, request>>
      /\ cache' = [q \in Queries |-> Invalidate(cache[q])]
  BY DEF Reconcile
<1>2. RequestInv'
  BY <1>1 DEF IInv, RequestInv
<1>3. ASSUME NEW q \in Queries PROVE QueryInv(q)'
  BY <1>1, InvalidatedInv
<1>4. cache' = [q \in Queries |-> cache'[q]]
  BY <1>1
<1> QED  BY <1>2, <1>3, <1>4, Assemble

-------------------------------------------------------------------------------
(* The invariant holds at the beginning,                                   *)
LEMMA InitInv == Init => IInv
<1> SUFFICES ASSUME Init PROVE IInv
  OBVIOUS
<1>1. /\ server = << >> /\ events = {} /\ stage = [m \in Mutations |-> "idle"]
      /\ request = [m \in Mutations |-> "none"]
  BY DEF Init
<1>2. Range(<< >>) = {}
  BY DEF Range
<1>3. RequestInv
  <2>1. << >> \in Seq(Writes)
    OBVIOUS
  <2> QED  BY <1>1, <1>2, <2>1 DEF RequestInv
<1> DEFINE was == [Blank EXCEPT !.loaded = TRUE, !.observed = TRUE]
           first == StartedRead([Blank EXCEPT !.observed = TRUE])
<1>4. /\ Clean(was) /\ was.loaded /\ was.observed /\ was.data = << >> /\ was.entries = << >>
      /\ was.baseline = << >> /\ was.sample = << >> /\ ~was.overtaken /\ was.read = "none"
  <2>1. Blank \in Query
    BY CleanBlank DEF Clean
  <2>2. was \in Query
    BY <2>1 DEF Query
  <2> QED  BY <2>2 DEF Clean, Blank
<1>5. /\ Clean(first) /\ first.observed /\ first.data = << >> /\ first.entries = << >>
      /\ first.baseline = << >> /\ first.sample = << >> /\ ~first.overtaken /\ first.read = "started"
  <2> DEFINE seen == [Blank EXCEPT !.observed = TRUE]
  <2>1. Blank \in Query
    BY CleanBlank DEF Clean
  <2>2. /\ seen \in Query /\ seen.observed /\ seen.data = << >> /\ seen.entries = << >>
        /\ seen.baseline = << >> /\ seen.sample = << >> /\ ~seen.overtaken /\ ~seen.deferred
    BY <2>1 DEF Query, Blank
  <2> HIDE DEF seen
  <2>3. Clean(seen)
    BY <2>2 DEF Clean
  <2>4. /\ Clean(StartedRead(seen)) /\ Holds(seen, StartedRead(seen)) /\ Reads(seen, StartedRead(seen))
        /\ StartedRead(seen).read = "started"
    BY <2>3, StartedReadRow
  <2>5. first = StartedRead(seen)
    BY DEF seen
  <2> HIDE DEF first
  <2> QED  BY <2>2, <2>4, <2>5 DEF Holds, Reads
<1> HIDE DEF was, first
<1>6. ASSUME NEW q \in Queries PROVE QueryInv(q)
  <2>1. cache[q] = was \/ cache[q] = first
    BY DEF Init, was, first
  <2>2. EntriesInv(q)
    BY <1>2, <1>4, <1>5, <2>1 DEF EntriesInv
  <2>3. TraceInv(q)
    BY <1>2, <1>4, <1>5, <2>1 DEF TraceInv
  <2>4. Canonical(q) = << >>
    BY <1>1, KeptEmpty DEF Canonical
  <2>5. WatchInv(q)
    BY <1>4, <1>5, <2>1, <2>4 DEF WatchInv, Explained
  <2> QED  BY <1>4, <1>5, <2>1, <2>2, <2>3, <2>5 DEF QueryInv
<1>7. cache \in [Queries -> Query]
  <2>1. cache \in [Queries -> {was, first}]
    BY DEF Init, was, first
  <2> QED  BY <1>4, <1>5, <2>1 DEF Clean
<1> QED  BY <1>3, <1>6, <1>7 DEF IInv

(* and every step preserves it.                                            *)
LEMMA NextInv == IInv /\ [Next]_vars => IInv'
<1> SUFFICES ASSUME IInv, [Next]_vars PROVE IInv'
  OBVIOUS
<1>1. CASE \E q \in Queries : ReadStep(q)
  BY <1>1, StartReadInv, AnswerReadInv, ReadSucceedsInv, ReadFailsInv, MountInv, UnmountInv,
     RemovedInv DEF ReadStep
<1>2. CASE \E m \in Mutations : MutationStep(m)
  BY <1>2, BeginInv, PublishPatchesInv, PatchThrowsInv, SucceedInv, FailInv, EndInv,
     CommitWriteInv, RefuseWriteInv DEF MutationStep
<1>3. CASE \E w \in Others : OtherWrite(w)
  BY <1>3, OtherWriteInv
<1>4. CASE \E w \in Writes : DeliverEvent(w)
  BY <1>4, DeliverEventInv
<1>5. CASE Reconcile
  BY <1>5, ReconcileInv
<1>6. CASE UNCHANGED vars
  <2>1. UNCHANGED <<server, events, cache, stage, request>>
    BY <1>6 DEF vars
  <2>2. RequestInv'
    BY <2>1 DEF IInv, RequestInv
  <2>3. ASSUME NEW q \in Queries PROVE QueryInv(q)'
    <3>1. cache'[q] = cache[q] /\ SameRow(cache[q], cache'[q])
      BY <2>1 DEF SameRow
    <3>2. Attended(q)' = Attended(q) /\ \A e : Entitled(q, e)' = Entitled(q, e)
      BY <2>1 DEF Attended, Running, Entitled
    <3>3. QueryInv(q) /\ Clean(cache[q])
      BY Known
    <3> QED  BY <2>1, <3>1, <3>2, <3>3, QuerySame
  <2> QED  BY <2>1, <2>2, <2>3 DEF IInv
<1> QED  BY <1>1, <1>2, <1>3, <1>4, <1>5, <1>6 DEF Next

(* The inductive invariant holds in every state that can be reached.       *)
THEOREM Invariant == Spec => []IInv
BY InitInv, NextInv, PTL DEF Spec

(* Type correctness; an ownership lasts only while some edit of it has not *)
(* settled, and only an ownership defers an invalidation: releaseIfSettled *)
(* is called wherever the last edit may have settled.                      *)
THEOREM TypeCorrect == Spec => []TypeOK
<1>1. IInv => TypeOK
  BY DEF IInv, RequestInv, TypeOK, QueryInv, Clean
<1> QED  BY <1>1, Invariant, PTL

(* The ledger is true, for any number of queries, mutations and writes:    *)
(* what a query shows is its edits replayed over its baseline, and once a  *)
(* refused mutation is over no query shows its write, unless a caller may  *)
(* decline rollbacks of that query.                                        *)
THEOREM LedgerIsTrue == Spec => []LedgerHolds
<1>1. IInv => LedgerExplains
  BY DEF IInv, QueryInv, Clean, LedgerExplains
<1>2. IInv => RefusedLeavesNothing
  <2> SUFFICES ASSUME IInv, NEW m \in Mutations, NEW q \in Queries,
                      stage[m] = "over", request[m] = "refused",
                      \A d \in Declining : q \notin Targets[d],
                      NEW i \in DOMAIN cache[q].data, cache[q].data[i] = m
               PROVE  FALSE
    BY DEF RefusedLeavesNothing
  <2>1. m \in Range(server) \/ m \in Ops(cache[q].entries)
    BY Known DEF TraceInv, Range
  <2>2. m \notin Range(server)
    BY DEF IInv, RequestInv
  <2>3. PICK e \in Range(cache[q].entries) : e.op = m
    BY <2>1, <2>2, OpsRange
  <2>4. Entitled(q, e) /\ e.settled \in BOOLEAN
    BY Known, LedgerEntry DEF EntriesInv
  <2> QED  BY <2>3, <2>4 DEF Entitled
<1> QED  BY <1>1, <1>2, Invariant, PTL DEF LedgerHolds

(* Nothing stale is shown as current: a query that some component always   *)
(* observes shows the content at the server, or is marked, being read, or  *)
(* about to be reconciled, whatever reads, edits, rollbacks and events     *)
(* overlap.                                                                *)
THEOREM CacheCoherent == Spec => []Coherent
<1>1. IInv => Coherent
  <2> SUFFICES ASSUME IInv, NEW q \in Watched PROVE Explained(q)
    BY DEF Coherent
  <2>1. q \in Queries
    BY OptimisticCacheAssumption
  <2> QED  BY <2>1, Known DEF WatchInv
<1> QED  BY <1>1, Invariant, PTL
===============================================================================
